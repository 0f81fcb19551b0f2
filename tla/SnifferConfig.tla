---------------------------- MODULE SnifferConfig ----------------------------
(***************************************************************************)
(* The capture filters of the ESP32 firmware: their values in RAM and in   *)
(* flash (NVS), the mutex _filter_sem, and the tasks that change them.     *)
(* The main task restores them while it boots, the console task runs the   *)
(* filter command, and on boards with a button a click steps the RSSI      *)
(* filter.  The device may lose power or abort at any step, and restarts;  *)
(* where the code's behaviour is undefined the model stops (ub).           *)
(* The wifi driver's callback compares each packet with the filters.       *)
(*                                                                         *)
(* An address filter is a model value; NoFilter is the one of size 0 that  *)
(* matches every address.                                                  *)
(***************************************************************************)
EXTENDS Integers

CONSTANTS Filters,       \* address filters a user may set
          NoFilter,      \* size 0
          OwnMac,        \* the filter that holds the device's own address
          Broken,        \* size (size_t)-1, what a wrong hex digit leaves
          Torn,          \* a filter of which a part has been written
          Commands,      \* what a user may type after "filter"
          NoArg,         \* an option that is not given
          SavedRssis,    \* RSSI filters that may be in flash at first
          EarlyCommands, \* the user may type before the device has booted
          Button,        \* the board has a button (CONFIG_LILIGO_S3)
          MaxCommands,   \* bound on commands and clicks
          MaxRestarts    \* bound on faults: losses of power and failing calls

RssiDefault == -96

Int8 == -128 .. 127

ASSUME ConfigAssumption ==
    /\ NoFilter \in Filters
    /\ Broken \notin Filters
    /\ Torn \notin Filters \cup {OwnMac, Broken}
    /\ \A c \in Commands :
         /\ c.source # NoArg =>
              c.source.len \in Nat /\ c.source.hex \in BOOLEAN /\ c.source.filter \in Filters
         /\ c.rssi # NoArg => c.rssi \in Int
    /\ SavedRssis \subseteq -128 .. 0
    /\ RssiDefault \in SavedRssis
    /\ EarlyCommands \in BOOLEAN
    /\ Button \in BOOLEAN
    /\ MaxCommands \in Nat
    /\ MaxRestarts \in Nat

Procs == {"main", "console", "button"}
Keys  == {"own", "addr2"}

VARIABLES
    \* flash, which survives a restart
    flash,      \* the address filters saved, per key
    flashRssi,  \* the RSSI filter saved
    \* RAM
    filter,     \* addr_own_mac and addr2_filter
    rssi,       \* rssi_filter
    frames,     \* the driver's mask of frame types
    semCreated, \* _filter_sem exists
    lock,       \* who holds it, "none" when free
    driver,     \* the driver's callback and the packet it is judging
    \* the tasks
    pc,         \* the next step of each
    key,        \* the filter each is setting
    val,        \* the value it sets
    prev,       \* the saved value it compared with
    cmd,        \* the command the console runs
    \* bookkeeping
    asked,      \* the last address filter the console asked for
    acked,      \* the last one sniffer_set_filter returned for
    calm,       \* one at a time, after the boot, since the last restart
    typed,      \* number of commands and clicks
    restarts,   \* number of faults
    ub          \* the code has done what C does not define

flashVars == <<flash, flashRssi>>
ramVars   == <<filter, rssi, frames, semCreated, lock, driver>>
taskVars  == <<pc, key, val, prev, cmd>>
noteVars  == <<asked, acked, calm, typed, restarts, ub>>
vars == <<flashVars, ramVars, taskVars, noteVars>>

MainSteps    == {"start", "wifi", "sem", "own", "callback", "restoreRssi",
                 "restoreAddr2", "noFilter", "up"}
ConsoleSteps == {"idle", "source", "frame", "rssi"}
SetterSteps  == {"take", "ram", "half", "save", "give"}
RssiSteps    == {"rssiRam", "rssiRead", "rssiSave"}

(* The callback is not set yet, waits for a packet, or judges one while no *)
(* task ("alone") or some task ("overlapped") has begun to write a filter. *)
DriverStates == {"off", "idle", "alone", "overlapped"}

NoCommand == [source |-> NoArg, frame |-> NoArg, rssi |-> NoArg]

Init ==
    /\ \E f \in Filters : flash = [k \in Keys |-> IF k = "own" THEN NoFilter ELSE f]
    /\ flashRssi \in SavedRssis
    /\ filter = [k \in Keys |-> NoFilter]
    /\ rssi = RssiDefault
    /\ frames = "none"
    /\ semCreated = FALSE
    /\ lock = "none"
    /\ driver = "off"
    /\ pc = [p \in Procs |-> IF p = "main" THEN "start" ELSE "idle"]
    /\ key = [p \in Procs |-> "addr2"]
    /\ val = [p \in Procs |-> NoFilter]
    /\ prev = [p \in Procs |-> RssiDefault]
    /\ cmd = NoCommand
    /\ asked = flash["addr2"]
    /\ acked = flash["addr2"]
    /\ calm = TRUE
    /\ typed = 0
    /\ restarts = 0
    /\ ub = FALSE

-----------------------------------------------------------------------------
(* Helpers *)

Goto(p, l) == pc' = [pc EXCEPT ![p] = l]

(* The device starts again: flash stays, everything else is as at power-on.*)
(* What flash holds is then what the user sees restored.                   *)
Restart ==
    /\ filter' = [k \in Keys |-> NoFilter]
    /\ rssi' = RssiDefault
    /\ frames' = "none"
    /\ semCreated' = FALSE
    /\ lock' = "none"
    /\ driver' = "off"
    /\ pc' = [p \in Procs |-> IF p = "main" THEN "start" ELSE "idle"]
    /\ key' = [p \in Procs |-> "addr2"]
    /\ val' = [p \in Procs |-> NoFilter]
    /\ prev' = [p \in Procs |-> RssiDefault]
    /\ cmd' = NoCommand
    /\ asked' = flash["addr2"]
    /\ acked' = flash["addr2"]
    /\ calm' = TRUE
    /\ UNCHANGED <<flashVars, typed, ub>>

(* An assertion fails whenever the code gets there. *)
Abort == Restart /\ UNCHANGED restarts

(* What may happen a number of times: the power fails; a call fails that   *)
(* ESP_ERROR_CHECK watches, such as a save when the flash is full; or a    *)
(* client comes before the packet queue does (SnifferEvents).              *)
Fault ==
    /\ restarts < MaxRestarts
    /\ restarts' = restarts + 1
    /\ Restart

Undefined ==
    /\ ub' = TRUE
    /\ UNCHANGED <<flashVars, ramVars, taskVars, asked, acked, calm, typed, restarts>>

(* The value of an int stored in an int8_t. *)
ToInt8(n) == ((n + 128) % 256) - 128

(* console_read_filter.  An even length is never held against the limit of *)
(* 12, and a wrong digit makes hex_to_byte_array return (size_t)-1, which  *)
(* becomes the size of the filter.  More than 12 digits, all right, write  *)
(* behind the 6 bytes of the address.                                      *)
Accepts(source)  == source.len % 2 = 0
Overruns(source) == Accepts(source) /\ source.len > 12
ReadFilter(source) ==
    CASE source.len = 0 -> NoFilter
      [] source.len > 0 /\ ~ source.hex -> Broken
      [] OTHER -> source.filter

(* Where a task goes on once the filter is set. *)
AfterSet(p) == CASE p = "main" /\ key[p] = "own" -> "callback"
                 [] p = "main" /\ key[p] = "addr2" -> "noFilter"
                 [] OTHER -> "frame"

AfterRssi(p) == IF p = "main" THEN "restoreAddr2" ELSE "idle"

(* A click steps the RSSI filter from strong to weak and round again. *)
NextRssi(r) == CASE r >= -50 -> -70
                 [] r <= -51 /\ r >= -70 -> -96
                 [] OTHER -> -50

-----------------------------------------------------------------------------
(* Faulty variants of some steps, which the properties have to notice.     *)

(* The semaphore is taken by all who ask. *)
TakeAnyway(p) ==
    /\ pc[p] = "take"
    /\ semCreated
    /\ lock' = p
    /\ Goto(p, "ram")
    /\ UNCHANGED <<flashVars, filter, rssi, frames, semCreated, driver, key, val, prev, cmd, noteVars>>

(* A value that was saved already returns without giving the semaphore.    *)
SaveReturns(p) ==
    /\ pc[p] = "save"
    /\ IF val[p] = flash[key[p]]
       THEN Goto(p, AfterSet(p)) /\ UNCHANGED flash
       ELSE flash' = [flash EXCEPT ![key[p]] = val[p]] /\ Goto(p, "give")
    /\ UNCHANGED <<flashRssi, ramVars, key, val, prev, cmd, noteVars>>

(* The saved RSSI filter is only written the first time. *)
SaveRssiOnce(p) ==
    /\ pc[p] = "rssiSave"
    /\ flashRssi' = IF prev[p] = RssiDefault THEN val[p] ELSE flashRssi
    /\ Goto(p, AfterRssi(p))
    /\ UNCHANGED <<flash, ramVars, key, val, prev, cmd, noteVars>>

(* sniffer_init_config does not create the semaphore. *)
CreateSemForgotten ==
    /\ pc["main"] = "sem"
    /\ Goto("main", "own")
    /\ UNCHANGED <<flashVars, ramVars, key, val, prev, cmd, noteVars>>

(* The callback does not wait for the semaphore. *)
PacketAnyway ==
    /\ driver = "idle"
    /\ driver' = "alone"
    /\ UNCHANGED <<flashVars, filter, rssi, frames, semCreated, lock, taskVars, noteVars>>

(* A filter of 0 is set as it is. *)
SetRssiAsIs(p) ==
    /\ pc[p] = "rssiRam"
    /\ rssi' = val[p]
    /\ Goto(p, "rssiRead")
    /\ UNCHANGED <<flashVars, filter, frames, semCreated, lock, driver, key, val, prev, cmd, noteVars>>

(* The address filter is not restored from flash. *)
RestoreNothing ==
    /\ pc["main"] = "restoreAddr2"
    /\ key' = [key EXCEPT !["main"] = "addr2"]
    /\ val' = [val EXCEPT !["main"] = NoFilter]
    /\ Goto("main", "take")
    /\ UNCHANGED <<flashVars, ramVars, prev, cmd, noteVars>>

-----------------------------------------------------------------------------
(* sniffer_set_filter, run by task p for filter key[p] and value val[p].   *)

(* Taking a semaphore that does not exist yet fails an assertion. *)
TakeSem(p) ==
    /\ pc[p] = "take"
    /\ \/ /\ ~ semCreated
          /\ Abort
       \/ /\ semCreated
          /\ lock = "none"
          /\ lock' = p
          /\ Goto(p, "ram")
          /\ UNCHANGED <<flashVars, filter, rssi, frames, semCreated, driver,
                         key, val, prev, cmd, noteVars>>

(* The filter is made a text first.  With the size (size_t)-1 an int       *)
(* counts up to it, past the largest int, while the semaphore is held: it  *)
(* may come round and end after 2^32 steps, or not.                        *)
CountTooFar(p) ==
    /\ pc[p] = "ram"
    /\ val[p] = Broken
    /\ Undefined

(* The size and the bytes of a filter are not assigned in one go. *)
BeginSetRam(p) ==
    /\ pc[p] = "ram"
    /\ filter' = [filter EXCEPT ![key[p]] = Torn]
    /\ driver' = IF driver = "alone" THEN "overlapped" ELSE driver
    /\ Goto(p, "half")
    /\ UNCHANGED <<flashVars, rssi, frames, semCreated, lock, key, val, prev, cmd, noteVars>>

SetRam(p) ==
    /\ pc[p] = "half"
    /\ filter' = [filter EXCEPT ![key[p]] = val[p]]
    /\ Goto(p, "save")
    /\ UNCHANGED <<flashVars, rssi, frames, semCreated, lock, driver, key, val, prev, cmd, noteVars>>

(* wifi_sniffer_nvs_set_filter_mac writes a value that differs from the    *)
(* saved one.  A size NVS refuses makes ESP_ERROR_CHECK abort, and so does *)
(* flash that has no room.                                                 *)
SaveFilter(p) ==
    /\ pc[p] = "save"
    /\ \/ /\ val[p] = Broken
          /\ Abort
       \/ /\ val[p] # flash[key[p]]
          /\ Fault
       \/ /\ val[p] # Broken
          /\ flash' = [flash EXCEPT ![key[p]] = val[p]]
          /\ Goto(p, "give")
          /\ UNCHANGED <<flashRssi, ramVars, key, val, prev, cmd, noteVars>>

GiveSem(p) ==
    /\ pc[p] = "give"
    /\ lock' = "none"
    /\ acked' = IF p = "console" THEN val[p] ELSE acked
    /\ Goto(p, AfterSet(p))
    /\ UNCHANGED <<flashVars, filter, rssi, frames, semCreated, driver, key, val, prev, cmd,
                   asked, calm, typed, restarts, ub>>

-----------------------------------------------------------------------------
(* sniffer_set_rssi_filter, run by task p for val[p], without a lock.      *)

SetRssi(p) ==
    /\ pc[p] = "rssiRam"
    /\ LET r == IF val[p] = 0 THEN RssiDefault ELSE val[p]
       IN  rssi' = r /\ val' = [val EXCEPT ![p] = r]
    /\ Goto(p, "rssiRead")
    /\ UNCHANGED <<flashVars, filter, frames, semCreated, lock, driver, key, prev, cmd, noteVars>>

ReadSavedRssi(p) ==
    /\ pc[p] = "rssiRead"
    /\ prev' = [prev EXCEPT ![p] = flashRssi]
    /\ Goto(p, "rssiSave")
    /\ UNCHANGED <<flashVars, ramVars, key, val, cmd, noteVars>>

SaveRssi(p) ==
    /\ pc[p] = "rssiSave"
    /\ \/ /\ prev[p] # val[p]
          /\ Fault
       \/ /\ flashRssi' = IF prev[p] # val[p] THEN val[p] ELSE flashRssi
          /\ Goto(p, AfterRssi(p))
          /\ UNCHANGED <<flash, ramVars, key, val, prev, cmd, noteVars>>

Setter(p) ==
    \/ TakeSem(p)
    \/ CountTooFar(p)
    \/ BeginSetRam(p)
    \/ SetRam(p)
    \/ SaveFilter(p)
    \/ GiveSem(p)
    \/ SetRssi(p)
    \/ ReadSavedRssi(p)
    \/ SaveRssi(p)

-----------------------------------------------------------------------------
(* The main task: setup and sniffer_init_config. *)

(* nvs_init_flash, then console_init: from here on the console runs. *)
StartConsole ==
    /\ pc["main"] = "start"
    /\ Goto("main", "wifi")
    /\ UNCHANGED <<flashVars, ramVars, key, val, prev, cmd, noteVars>>

(* config_wifi_init, which WifiLib models: it waits for the driver without *)
(* a limit, and it may abort.  tcp_server follows.                         *)
ConfigWifi ==
    /\ pc["main"] = "wifi"
    /\ \/ Fault
       \/ /\ Goto("main", "sem")
          /\ UNCHANGED <<flashVars, ramVars, key, val, prev, cmd, noteVars>>

CreateSem ==
    /\ pc["main"] = "sem"
    /\ semCreated' = TRUE
    /\ Goto("main", "own")
    /\ UNCHANGED <<flashVars, filter, rssi, frames, lock, driver, key, val, prev, cmd, noteVars>>

SetOwnMac ==
    /\ pc["main"] = "own"
    /\ key' = [key EXCEPT !["main"] = "own"]
    /\ val' = [val EXCEPT !["main"] = OwnMac]
    /\ Goto("main", "take")
    /\ UNCHANGED <<flashVars, ramVars, prev, cmd, noteVars>>

(* esp_wifi_set_promiscuous_rx_cb, the event loop and its handler. *)
RegisterCallback ==
    /\ pc["main"] = "callback"
    /\ driver' = "idle"
    /\ Goto("main", "restoreRssi")
    /\ UNCHANGED <<flashVars, filter, rssi, frames, semCreated, lock,
                   key, val, prev, cmd, noteVars>>

RestoreRssi ==
    /\ pc["main"] = "restoreRssi"
    /\ val' = [val EXCEPT !["main"] = flashRssi]
    /\ Goto("main", "rssiRam")
    /\ UNCHANGED <<flashVars, ramVars, key, prev, cmd, noteVars>>

(* The saved filter is read before the semaphore is taken. *)
RestoreAddr2 ==
    /\ pc["main"] = "restoreAddr2"
    /\ key' = [key EXCEPT !["main"] = "addr2"]
    /\ val' = [val EXCEPT !["main"] = flash["addr2"]]
    /\ Goto("main", "take")
    /\ UNCHANGED <<flashVars, ramVars, prev, cmd, noteVars>>

SetNoFilter ==
    /\ pc["main"] = "noFilter"
    /\ frames' = "all"
    /\ Goto("main", "up")
    /\ UNCHANGED <<flashVars, filter, rssi, semCreated, lock, driver, key, val, prev, cmd, noteVars>>

Main ==
    \/ StartConsole
    \/ CreateSem
    \/ SetOwnMac
    \/ RegisterCallback
    \/ RestoreRssi
    \/ RestoreAddr2
    \/ SetNoFilter

-----------------------------------------------------------------------------
(* The console task: console_sniffer_filter handles the source, the frame  *)
(* type and the RSSI of one command in this order.                         *)

TypeCommand ==
    /\ pc["console"] = "idle"
    /\ pc["main"] # "start"
    /\ EarlyCommands \/ pc["main"] = "up"
    /\ typed < MaxCommands
    /\ typed' = typed + 1
    /\ calm' = (calm /\ pc["main"] = "up" /\ pc["button"] = "idle")
    /\ cmd' \in Commands
    /\ Goto("console", "source")
    /\ UNCHANGED <<flashVars, ramVars, key, val, prev, asked, acked, restarts, ub>>

SourceArg ==
    /\ pc["console"] = "source"
    /\ cmd.source # NoArg => ~ Overruns(cmd.source) \/ ~ cmd.source.hex
    /\ IF cmd.source # NoArg /\ Accepts(cmd.source)
       THEN /\ key' = [key EXCEPT !["console"] = "addr2"]
            /\ val' = [val EXCEPT !["console"] = ReadFilter(cmd.source)]
            /\ asked' = ReadFilter(cmd.source)
            /\ Goto("console", "take")
       ELSE /\ Goto("console", "frame")
            /\ UNCHANGED <<key, val, asked>>
    /\ UNCHANGED <<flashVars, ramVars, prev, cmd, acked, calm, typed, restarts, ub>>

(* With a wrong digit it depends on where it is. *)
OverrunArg ==
    /\ pc["console"] = "source"
    /\ cmd.source # NoArg
    /\ Overruns(cmd.source)
    /\ Undefined

(* An unknown frame type is refused; an empty one is the same as all.      *)
(* Before the driver is initialised setting the mask aborts.               *)
FrameTooEarly ==
    /\ pc["console"] = "frame"
    /\ pc["main"] = "wifi"
    /\ cmd.frame \in {"a", "d"}
    /\ Abort

FrameArg ==
    /\ pc["console"] = "frame"
    /\ frames' = CASE cmd.frame = "a" -> "all"
                   [] cmd.frame = "d" -> "data"
                   [] OTHER -> frames
    /\ Goto("console", "rssi")
    /\ UNCHANGED <<flashVars, filter, rssi, semCreated, lock, driver, key, val, prev, cmd, noteVars>>

(* The argument becomes an int8_t before its sign is looked at. *)
RssiArg ==
    /\ pc["console"] = "rssi"
    /\ IF cmd.rssi # NoArg /\ ToInt8(cmd.rssi) <= 0
       THEN /\ val' = [val EXCEPT !["console"] = ToInt8(cmd.rssi)]
            /\ Goto("console", "rssiRam")
       ELSE /\ Goto("console", "idle")
            /\ UNCHANGED val
    /\ UNCHANGED <<flashVars, ramVars, key, prev, cmd, noteVars>>

RunCommand == SourceArg \/ OverrunArg \/ FrameTooEarly \/ FrameArg \/ RssiArg

Console == TypeCommand \/ RunCommand

(* button_single_click_cb; init_button comes before console_init. *)
Click ==
    /\ Button
    /\ pc["button"] = "idle"
    /\ pc["main"] # "start"
    /\ EarlyCommands \/ pc["main"] = "up"
    /\ typed < MaxCommands
    /\ typed' = typed + 1
    /\ calm' = (calm /\ pc["main"] = "up" /\ pc["console"] = "idle")
    /\ val' = [val EXCEPT !["button"] = NextRssi(rssi)]
    /\ Goto("button", "rssiRam")
    /\ UNCHANGED <<flashVars, ramVars, key, prev, cmd, asked, acked, restarts, ub>>

-----------------------------------------------------------------------------
(* wifi_sniffer_packet_handler in the wifi driver's task.  It takes the    *)
(* semaphore and gives it back at once, and then compares.                 *)

Packet ==
    /\ driver = "idle"
    /\ lock = "none"
    /\ driver' = "alone"
    /\ UNCHANGED <<flashVars, filter, rssi, frames, semCreated, lock, taskVars, noteVars>>

Compare ==
    /\ driver \in {"alone", "overlapped"}
    /\ driver' = "idle"
    /\ UNCHANGED <<flashVars, filter, rssi, frames, semCreated, lock, taskVars, noteVars>>

PowerLoss == Fault

Tasks ==
    \/ \E p \in Procs : Setter(p)
    \/ Main
    \/ ConfigWifi
    \/ Console
    \/ Click
    \/ Packet
    \/ Compare
    \/ PowerLoss

Next == ~ ub /\ Tasks

Spec == Init /\ [][Next]_vars

(* The tasks are scheduled; nobody has to type or click, and nothing says  *)
(* that config_wifi_init returns.                                          *)
Fairness ==
    /\ \A p \in Procs : WF_vars(~ ub /\ Setter(p))
    /\ WF_vars(~ ub /\ Main)
    /\ WF_vars(~ ub /\ RunCommand)

FairSpec == Spec /\ Fairness

-----------------------------------------------------------------------------
(* Properties *)

(* The type invariant. *)
TypeOK ==
    /\ flash \in [Keys -> Filters \cup {OwnMac}]
    /\ flashRssi \in Int8
    /\ filter \in [Keys -> Filters \cup {OwnMac, Broken, Torn}]
    /\ rssi \in Int8
    /\ frames \in {"none", "all", "data"}
    /\ semCreated \in BOOLEAN
    /\ lock \in Procs \cup {"none"}
    /\ driver \in DriverStates
    /\ pc \in [Procs -> MainSteps \cup ConsoleSteps \cup SetterSteps \cup RssiSteps]
    /\ key \in [Procs -> Keys]
    /\ prev \in [Procs -> Int8]
    /\ cmd \in Commands \cup {NoCommand}
    /\ asked \in Filters \cup {Broken}
    /\ acked \in Filters
    /\ calm \in BOOLEAN
    /\ typed \in 0 .. MaxCommands
    /\ restarts \in 0 .. MaxRestarts
    /\ ub \in BOOLEAN

(* Once the device has booted, the address filter in RAM is the saved one  *)
(* whenever nobody is setting a filter, so a restart brings back what was  *)
(* in force; also when a command is typed while the main task restores the *)
(* saved filter (wifi_sniffer.c:78-100, 531-532).                          *)
Addr2Agrees ==
    pc["main"] = "up" /\ lock = "none" => filter["addr2"] = flash["addr2"]

(* A filter the console was told is set is never lost, whenever the power  *)
(* fails and whatever is typed afterwards: flash holds it until a later    *)
(* filter is asked for, and a wrong hex digit, which aborts, does not      *)
(* touch it.  Only a command typed while the device still boots may be     *)
(* undone, by the main task restoring the saved filter it has read before  *)
(* (wifi_sniffer_nvs.c:24-36, wifi_sniffer.c:531-532).                     *)
AckedKept ==
    calm =>
        /\ flash["addr2"] \in {acked, asked}
        /\ pc["console"] \notin SetterSteps => flash["addr2"] = acked

(* The RSSI filter in RAM is the saved one when nobody is setting it; no   *)
(* lock protects it, so a command and a click at the same time, or either  *)
(* during the boot, may leave them different (wifi_sniffer.c:227-236).     *)
RssiAgrees ==
    calm /\ pc["main"] = "up" /\ (\A p \in Procs : pc[p] \notin RssiSteps) =>
        rssi = flashRssi

(* The callback holds the semaphore only for a moment before it compares.  *)
(* Even so it compares a packet with a half-written filter only when a     *)
(* task has begun to write it since: one that was being written when the   *)
(* packet came is whole by then.  And it never runs before the device's    *)
(* own address is in force (wifi_sniffer.c:255-267, 518-527).              *)
JudgedWhole ==
    /\ driver = "alone" => filter["addr2"] # Torn
    /\ driver # "off" => filter["own"] = OwnMac

(* The RSSI filter is never 0, which would switch it off and let every     *)
(* packet through: neither a command nor a click sets it so, whatever      *)
(* number an int becomes as an int8_t, and a 0 that an earlier version     *)
(* left in flash is replaced there before the device has booted            *)
(* (wifi_sniffer.c:227-236, 252, wifi_sniffer_nvs.c:45-55).                *)
RssiFilterOn ==
    /\ rssi < 0
    /\ pc["main"] = "up" => flashRssi < 0

(* The semaphore is always given back, so neither the tasks nor the wifi   *)
(* driver's callback wait for it for ever: on every path but the two that  *)
(* C does not define (wifi_sniffer.c:78-100).                              *)
SemGivenBack == \A p \in Procs : lock = p ~> lock # p \/ ub

(* The device finishes booting if config_wifi_init does not wait for ever  *)
(* and if faults, and commands and clicks, come finitely often: a boot     *)
(* that is left alone is not kept by what came before, neither by the      *)
(* mutex, which a task that a fault or an early command took away may have *)
(* held, nor by a setter of another task that is still at work             *)
(* (main.c:309-349, wifi_sniffer.c:81, 518-532).                           *)
BootFinishesAfterWifi ==
    []<>(pc["main"] # "wifi") => <>[](pc["main"] = "up" \/ ub)
=============================================================================
