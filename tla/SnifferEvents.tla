---------------------------- MODULE SnifferEvents ----------------------------
(***************************************************************************)
(* The event loop of the ESP32 firmware's sniffer and the display of its   *)
(* filters.  The tasks that set a filter, the wifi driver's callback and   *)
(* the sniffer task post events to a bounded queue; the loop's handler     *)
(* blinks the led or prints the filters, and wifi_lib's handler, in a loop *)
(* of its own, prints them too.  Both read the filters one by one without  *)
(* a lock.  The main task boots meanwhile, and users and clients may come  *)
(* before it is ready.  Locals that are no longer needed are reset.        *)
(*                                                                         *)
(* The mutex, what is in flash and a filter that is half written or has a  *)
(* wrong digit are left to SnifferConfig (that a save fails is here too),  *)
(* the records and clients that overlap to CaptureSession.                 *)
(***************************************************************************)
EXTENDS Integers, Sequences

CONSTANTS Filters,     \* address filters
          NoFilter,    \* the one in force at power-on
          Rssis,       \* RSSI filters
          RssiDefault, \* the one in force at power-on
          Users,       \* which of console and button there are
          QueueSize,   \* SNIFFER_EVENT_QUEUE_SIZE
          MaxChanges,  \* bound on filters that users set
          MaxClients,  \* bound on clients
          MaxNews      \* bound on events that make wifi_lib's handler print

ASSUME EventsAssumption ==
    /\ NoFilter \in Filters
    /\ RssiDefault \in Rssis
    /\ Users \subseteq {"console", "button"}
    /\ QueueSize \in Nat \ {0}
    /\ {MaxChanges, MaxClients, MaxNews} \subseteq Nat

Events  == {"full", "up", "started", "changed"}
Setters == Users \cup {"main"}
Posters == Setters \cup {"driver", "sniffer"}
Readers == {"events", "wifi"}     \* the handlers of the two event loops
Texts   == [mac : Filters, rssi : Rssis]

VARIABLES
    \* RAM
    addr2,   \* addr2_filter
    rssi,    \* rssi_filter
    ev,      \* the queue of the event loop
    \* the tasks
    boot,    \* what the main task does next
    pc,      \* the next step of each task that posts
    val,     \* the filters it is about to set
    \* the handlers
    hpc,     \* the next step of each
    seen,    \* what it has read of the filters
    shown,   \* the filters on the display
    \* bookkeeping
    changes, \* number of filters users have set
    clients, \* number of clients
    news,    \* number of events of wifi_lib
    missed,  \* the event of a change was dropped, and no later one was handled
    late     \* the last to print was wifi_lib's handler, and not what was in force

filterVars == <<addr2, rssi>>
readVars   == <<hpc, seen, shown, late>>
countVars  == <<changes, clients, news>>
vars == <<filterVars, ev, boot, pc, val, readVars, countVars, missed>>

Boot  == {"server", "queue", "sem", "callback", "loop", "register", "isUp", "rssi",
          "addr2", "noFilter", "up"}
Steps == {"boot", "idle", "addr2", "rssi", "post", "start", "listen"}
Reads == {"wait", "addr2", "rssi", "print"}

InForce == [mac |-> addr2, rssi |-> rssi]
AtFirst == [mac |-> NoFilter, rssi |-> RssiDefault]

Init ==
    /\ addr2 = NoFilter
    /\ rssi = RssiDefault
    /\ ev = <<>>
    /\ boot = "server"
    /\ pc = [p \in Posters |-> IF p = "main" THEN "boot" ELSE "idle"]
    /\ val = [p \in Setters |-> AtFirst]
    /\ hpc = [d \in Readers |-> "wait"]
    /\ seen = [d \in Readers |-> AtFirst]
    /\ shown = AtFirst
    /\ changes = 0
    /\ clients = 0
    /\ news = 0
    /\ missed = FALSE
    /\ late = FALSE

-----------------------------------------------------------------------------
(* Helpers *)

Goto(p, l) == pc' = [pc EXCEPT ![p] = l]

(* Where a task goes on when it has posted. *)
Back(p) == CASE p = "main" -> "boot" [] p = "sniffer" -> "listen" [] OTHER -> "idle"

(* What a task that is about to post posts.  The main task has come from   *)
(* IS_UP when it has yet to restore the RSSI filter.                       *)
EventOf(p) == CASE p = "driver" -> "full"
                [] p = "sniffer" -> "started"
                [] p = "main" /\ boot = "rssi" -> "up"
                [] OTHER -> "changed"

(* Task p has set a filter and not yet saved it and posted the event. *)
Owes(p) == pc[p] = "post" /\ EventOf(p) = "changed"

(* What there is at each stage of the boot. *)
QueueCreated == boot \notin {"server", "queue"}
SemCreated   == boot \notin {"server", "queue", "sem"}
CallbackSet  == SemCreated /\ boot # "callback"
LoopCreated  == CallbackSet /\ boot # "loop"
Registered   == LoopCreated /\ boot # "register"

Waiting(e) == \E i \in DOMAIN ev : ev[i] = e

(* A failed assertion or call: the device starts again. *)
Abort ==
    /\ addr2' = NoFilter
    /\ rssi' = RssiDefault
    /\ ev' = <<>>
    /\ boot' = "server"
    /\ pc' = [p \in Posters |-> IF p = "main" THEN "boot" ELSE "idle"]
    /\ val' = [p \in Setters |-> AtFirst]
    /\ hpc' = [d \in Readers |-> "wait"]
    /\ seen' = [d \in Readers |-> AtFirst]
    /\ shown' = AtFirst
    /\ missed' = FALSE
    /\ late' = FALSE
    /\ UNCHANGED countVars

-----------------------------------------------------------------------------
(* Faulty variants of some steps, which the properties have to notice.     *)

(* The event is posted before the filter is set. *)
PostAndSetRssi(p) ==
    /\ p \in Setters
    /\ pc[p] = "rssi"
    /\ ev' = IF LoopCreated /\ Len(ev) < QueueSize THEN Append(ev, "changed") ELSE ev
    /\ Goto(p, Back(p))
    /\ rssi' = val[p].rssi
    /\ UNCHANGED <<addr2, boot, val, readVars, countVars, missed>>

(* An RSSI filter is set and no event is posted. *)
SetRssiOnly(p) ==
    /\ p \in Setters
    /\ pc[p] = "rssi"
    /\ rssi' = val[p].rssi
    /\ Goto(p, Back(p))
    /\ UNCHANGED <<addr2, ev, boot, val, readVars, countVars, missed>>

-----------------------------------------------------------------------------
(* Tasks that change a filter *)

(* Task p sets one of the filters of texts next. *)
SetNext(p, step, texts) == Goto(p, step) /\ \E t \in texts : val' = [val EXCEPT ![p] = t]

(* A user sets an address filter, on the console only, or an RSSI filter.  *)
Change(p) ==
    /\ p \in Users
    /\ pc[p] = "idle"
    /\ changes < MaxChanges
    /\ changes' = changes + 1
    /\ \/ SetNext(p, "rssi", [mac : {NoFilter}, rssi : Rssis])
       \/ p = "console" /\ SetNext(p, "addr2", [mac : Filters, rssi : {RssiDefault}])
    /\ UNCHANGED <<filterVars, ev, boot, readVars, clients, news, missed>>

(* sniffer_set_addr2_filter: taking the mutex fails an assertion before it *)
(* exists; with it the filter is set, to be saved.                         *)
SetAddr2(p) ==
    /\ p \in Setters
    /\ pc[p] = "addr2"
    /\ \/ ~ SemCreated /\ Abort
       \/ /\ SemCreated
          /\ addr2' = val[p].mac
          /\ val' = [val EXCEPT ![p] = AtFirst]
          /\ Goto(p, "post")
          /\ UNCHANGED <<rssi, ev, boot, readVars, countVars, missed>>

(* sniffer_set_rssi_filter *)
SetRssi(p) ==
    /\ p \in Setters
    /\ pc[p] = "rssi"
    /\ rssi' = val[p].rssi
    /\ val' = [val EXCEPT ![p] = AtFirst]
    /\ Goto(p, "post")
    /\ UNCHANGED <<addr2, ev, boot, readVars, countVars, missed>>

(* Before task p posts, the filter in force is saved.  A full flash, or    *)
(* the size that a wrong digit leaves, makes ESP_ERROR_CHECK abort.        *)
SaveFails(p) ==
    /\ Owes(p)
    /\ Abort

(* sniffer_post_event: nothing before the loop exists; with the queue full *)
(* the task waits 10 ms, and if that was too short the event is lost.      *)
Post(p) ==
    /\ pc[p] = "post"
    /\ ev' = IF LoopCreated /\ Len(ev) < QueueSize THEN Append(ev, EventOf(p)) ELSE ev
    /\ missed' = \/ missed
                 \/ /\ LoopCreated /\ Len(ev) >= QueueSize
                    /\ EventOf(p) = "changed" /\ ~ Waiting("changed")
    /\ Goto(p, Back(p))
    /\ UNCHANGED <<filterVars, boot, val, readVars, countVars>>

-----------------------------------------------------------------------------
(* The main task: setup from tcp_server on, and sniffer_init_config.       *)

Stage(from, to) ==
    /\ pc["main"] = "boot"
    /\ boot = from
    /\ boot' = to

(* The stages that bring something into being, and the frame types, which  *)
(* change nothing of this module.                                          *)
Create ==
    /\ \/ Stage("server", "queue")
       \/ Stage("queue", "sem")
       \/ Stage("sem", "callback")
       \/ Stage("loop", "register")
       \/ Stage("register", "isUp")
       \/ Stage("noFilter", "up")
    /\ UNCHANGED <<filterVars, ev, pc, val, readVars, countVars, missed>>

(* The device's own filter, which is saved too, and then the callback.     *)
SetOwnMac ==
    \/ /\ Stage("callback", "loop")
       /\ UNCHANGED <<filterVars, ev, pc, val, readVars, countVars, missed>>
    \/ /\ pc["main"] = "boot"
       /\ boot = "callback"
       /\ Abort

PostIsUp ==
    /\ Stage("isUp", "rssi")
    /\ Goto("main", "post")
    /\ UNCHANGED <<filterVars, ev, val, readVars, countVars, missed>>

(* Some filters are in flash. *)
RestoreRssi ==
    /\ Stage("rssi", "addr2")
    /\ SetNext("main", "rssi", [mac : {NoFilter}, rssi : Rssis])
    /\ UNCHANGED <<filterVars, ev, readVars, countVars, missed>>

RestoreAddr2 ==
    /\ Stage("addr2", "noFilter")
    /\ SetNext("main", "addr2", [mac : Filters, rssi : {RssiDefault}])
    /\ UNCHANGED <<filterVars, ev, readVars, countVars, missed>>

Main == Create \/ SetOwnMac \/ PostIsUp \/ RestoreRssi \/ RestoreAddr2

-----------------------------------------------------------------------------
(* The sniffer task and the driver's callback *)

(* A client connects, which starts a sniffer task. *)
Accept ==
    /\ boot # "server"
    /\ pc["sniffer"] = "idle"
    /\ clients < MaxClients
    /\ clients' = clients + 1
    /\ Goto("sniffer", "start")
    /\ UNCHANGED <<filterVars, ev, boot, val, readVars, changes, news, missed>>

(* wifi_sniffer_init and capture_start, after which the task is gone if    *)
(* the client is.                                                          *)
StartCapture ==
    /\ pc["sniffer"] = "start"
    /\ Goto("sniffer", "post") \/ Goto("sniffer", "idle")
    /\ UNCHANGED <<filterVars, ev, boot, val, readVars, countVars, missed>>

(* xQueueReceive asserts that there is a queue; a write that fails ends    *)
(* the task.                                                               *)
Receive ==
    /\ pc["sniffer"] = "listen"
    /\ \/ ~ QueueCreated /\ Abort
       \/ /\ QueueCreated
          /\ Goto("sniffer", "idle")
          /\ UNCHANGED <<filterVars, ev, boot, val, readVars, countVars, missed>>

(* wifi_sniffer_packet_handler and sniffer_add_queue, for a packet that    *)
(* passes the filters and finds the packet queue full.                     *)
QueueFull ==
    /\ pc["driver"] = "idle"
    /\ CallbackSet /\ pc["sniffer"] \in {"post", "listen"}
    /\ Goto("driver", "post")
    /\ UNCHANGED <<filterVars, ev, boot, val, readVars, countVars, missed>>

-----------------------------------------------------------------------------
(* The handlers of the event loops *)

(* sniffer_on_event_handler prints the filters, or blinks for up to 400 ms,*)
(* which only makes it later for the next event.  Before it is registered  *)
(* the loop drops what it takes from the queue.                            *)
HandleEvent ==
    /\ hpc["events"] = "wait"
    /\ ev # <<>>
    /\ ev' = Tail(ev)
    /\ IF Registered /\ Head(ev) = "changed"
       THEN hpc' = [hpc EXCEPT !["events"] = "addr2"] /\ missed' = FALSE
       ELSE UNCHANGED <<hpc, missed>>
    /\ UNCHANGED <<filterVars, boot, pc, val, seen, shown, late, countVars>>

(* on_wifi_lib_event_handler, on an event of wifi_lib's loop. *)
WifiNews ==
    /\ hpc["wifi"] = "wait"
    /\ news < MaxNews
    /\ news' = news + 1
    /\ hpc' = [hpc EXCEPT !["wifi"] = "addr2"]
    /\ UNCHANGED <<filterVars, ev, boot, pc, val, seen, shown, late, changes, clients, missed>>

(* sniffer_display_filter, run by handler d *)
ReadAddr2(d) ==
    /\ hpc[d] = "addr2"
    /\ hpc' = [hpc EXCEPT ![d] = "rssi"]
    /\ seen' = [seen EXCEPT ![d].mac = addr2]
    /\ UNCHANGED <<filterVars, ev, boot, pc, val, shown, late, countVars, missed>>

ReadRssi(d) ==
    /\ hpc[d] = "rssi"
    /\ hpc' = [hpc EXCEPT ![d] = "print"]
    /\ seen' = [seen EXCEPT ![d].rssi = rssi]
    /\ UNCHANGED <<filterVars, ev, boot, pc, val, shown, late, countVars, missed>>

Show(d) ==
    /\ hpc[d] = "print"
    /\ hpc' = [hpc EXCEPT ![d] = "wait"]
    /\ shown' = seen[d]
    /\ seen' = [seen EXCEPT ![d] = AtFirst]
    /\ late' = (d = "wifi" /\ seen[d] # InForce)
    /\ UNCHANGED <<filterVars, ev, boot, pc, val, countVars, missed>>

Display(d) == ReadAddr2(d) \/ ReadRssi(d) \/ Show(d)

-----------------------------------------------------------------------------
Next ==
    \/ \E p \in Users : Change(p)
    \/ \E p \in Setters : SetAddr2(p) \/ SetRssi(p) \/ SaveFails(p)
    \/ \E p \in Posters : Post(p)
    \/ Main
    \/ Accept
    \/ StartCapture
    \/ Receive
    \/ QueueFull
    \/ HandleEvent
    \/ WifiNews
    \/ \E d \in Readers : Display(d)

Spec == Init /\ [][Next]_vars

(* Tasks and event loops are scheduled; users, clients, packets and the    *)
(* network are free.                                                       *)
Fairness ==
    /\ \A p \in Setters : WF_vars(SetAddr2(p) \/ SetRssi(p))
    /\ \A p \in Posters : WF_vars(Post(p))
    /\ WF_vars(Main)
    /\ WF_vars(HandleEvent)
    /\ \A d \in Readers : WF_vars(Display(d))

FairSpec == Spec /\ Fairness

-----------------------------------------------------------------------------
(* Properties *)

(* The type invariant. *)
TypeOK ==
    /\ addr2 \in Filters
    /\ rssi \in Rssis
    /\ ev \in Seq(Events) /\ Len(ev) <= QueueSize
    /\ boot \in Boot
    /\ pc \in [Posters -> Steps]
    /\ val \in [Setters -> Texts]
    /\ hpc \in [Readers -> Reads]
    /\ seen \in [Readers -> Texts]
    /\ shown \in Texts
    /\ missed \in BOOLEAN
    /\ late \in BOOLEAN

(* Once the device has booted, the display shows the filters in force      *)
(* whenever no event of a change is due, waiting or being handled,         *)
(* although the filters are read one by one without a lock, and the event  *)
(* of an early command finds no loop or no handler.  It may stay behind in *)
(* two ways only: an event was dropped from the full queue with none       *)
(* waiting, or wifi_lib's handler was the last to print, and printed what  *)
(* it had read earlier (wifi_sniffer.c:99-103, 233-235, 526-532,           *)
(* main.c:166-176, 239).                                                   *)
DisplayFresh ==
    \/ boot # "up"
    \/ Waiting("changed")
    \/ \E p \in Setters : Owes(p)
    \/ hpc["events"] # "wait"
    \/ missed
    \/ late
    \/ shown = InForce

(* A change comes to the display, or its event was dropped, or wifi_lib's  *)
(* handler printed over it; or the change was undone by an abort, as when  *)
(* it could not be saved (wifi_sniffer.c:38-47, main.c:190-193).           *)
DisplayCatchesUp ==
    (boot = "up" /\ shown # InForce) ~> (shown = InForce \/ missed \/ late)
=============================================================================
