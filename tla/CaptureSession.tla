--------------------------- MODULE CaptureSession ---------------------------
(***************************************************************************)
(* The capture path of the ESP32 firmware: the TCP accept task, one        *)
(* sniffer task per accepted client, the wifi driver's receive callback,   *)
(* and what they share without a lock: the global socket _sock, the task   *)
(* handle xHandle_sniff, the promiscuous mode of the radio, and the packet *)
(* queue.  main/main.c glues tcp_server.c, wifi_sniffer.c and              *)
(* capture_lib.c together; a step here is one access to shared state.      *)
(*                                                                         *)
(* Connections are numbered in the order they are accepted, records in the *)
(* order they are captured.  Every accept creates one sniffer task, which  *)
(* has the number of its connection.                                       *)
(***************************************************************************)
EXTENDS Integers, Sequences, FiniteSets

CONSTANTS MaxConns,     \* bound on the number of connections accepted
          MaxRecs,      \* bound on the number of records captured
          QueueSize,    \* CONFIG_SNIFFER_QUEUE_SIZE
          Fds,          \* the socket descriptors of lwIP
          OneClient,    \* clients wait for the previous session to be over
          ShortWrites   \* write() may send a part and report success

ASSUME ConstantsAssumption ==
    /\ MaxConns \in Nat \ {0}
    /\ MaxRecs \in Nat
    /\ QueueSize \in Nat \ {0}
    /\ Fds \subseteq Nat \ {0}
    /\ OneClient \in BOOLEAN
    /\ ShortWrites \in BOOLEAN

Conns == 1 .. MaxConns
Recs  == 1 .. MaxRecs
Hdr   == 0     \* the pcap file header
Frag  == -1    \* a part of an item whose rest was never sent

VARIABLES
    \* the accept task
    apc,       \* its next step
    accepted,  \* number of connections accepted so far
    newSock,   \* its local sock
    \* the globals of main.c and wifi_sniffer.c
    sock,      \* _sock, 0 when there is no client
    handle,    \* xHandle_sniff, the number of a task, 0 for NULL
    promisc,   \* the radio is in promiscuous mode
    queue,     \* _packet_queue
    \* the sniffer tasks
    tpc,       \* the next step of each task
    item,      \* what each task is sending
    tfd,       \* the descriptor each task passed to onSend
    \* the wifi driver's task
    rx,        \* the record its callback is about to queue, 0 when none
    made,      \* number of records captured so far
    overrun,   \* the records dropped because the queue was full
    \* the network
    owner,     \* the connection behind each descriptor, 0 when closed
    peer,      \* what each client has done
    stream,    \* what each client was sent
    \* bookkeeping
    before,    \* value of made when each connection was accepted
    ub         \* vTaskDelete was called on a task already deleted

accVars  == <<apc, accepted, newSock, before>>
taskVars == <<tpc, item, tfd>>
radioVars == <<rx, made, overrun>>
netVars  == <<owner, peer, stream>>
vars == <<accVars, sock, handle, promisc, queue, taskVars, radioVars, netVars, ub>>

AccSteps  == {"accept", "disconnect", "setSock", "create"}
TaskSteps == {"none", "init", "check", "load", "send", "loop",
              "close", "clear", "deinit", "delete", "dead"}

Live(t) == tpc[t] \notin {"none", "dead"}

Init ==
    /\ apc = "accept"
    /\ accepted = 0
    /\ newSock = 0
    /\ sock = 0
    /\ handle = 0
    /\ promisc = FALSE
    /\ queue = <<>>
    /\ tpc = [t \in Conns |-> "none"]
    /\ item = [t \in Conns |-> Hdr]
    /\ tfd = [t \in Conns |-> 0]
    /\ rx = 0
    /\ made = 0
    /\ overrun = {}
    /\ owner = [f \in Fds |-> 0]
    /\ peer = [c \in Conns |-> "none"]
    /\ stream = [c \in Conns |-> <<>>]
    /\ before = [c \in Conns |-> 0]
    /\ ub = FALSE

-----------------------------------------------------------------------------
(* Helpers *)

Goto(t, l) == tpc' = [tpc EXCEPT ![t] = l]

(* shutdown() and close() on a descriptor; on one that is not open both    *)
(* fail and the code ignores it.                                           *)
Closed(f) == [owner EXCEPT ![f] = 0]

(* The connection that write(tfd[t]) reaches, 0 when the descriptor is     *)
(* closed or is the console's.                                             *)
Target(t) == IF tfd[t] \in Fds THEN owner[tfd[t]] ELSE 0

Sent(c, i) == stream' = [stream EXCEPT ![c] = Append(@, i)]

-----------------------------------------------------------------------------
(* Faulty variants of some steps, which the properties have to notice.     *)

(* The task goes to its loop without calling capture_start. *)
InitWithoutHeader(t) ==
    /\ tpc[t] = "init"
    /\ promisc' = TRUE
    /\ Goto(t, "loop")
    /\ UNCHANGED <<accVars, sock, handle, queue, item, tfd, radioVars, netVars, ub>>

(* The queue takes one record too many. *)
AddQueueOffByOne ==
    /\ rx # 0
    /\ IF Len(queue) <= QueueSize
       THEN queue' = Append(queue, rx) /\ UNCHANGED overrun
       ELSE overrun' = overrun \cup {rx} /\ UNCHANGED queue
    /\ rx' = 0
    /\ UNCHANGED <<accVars, sock, handle, promisc, taskVars, made, netVars, ub>>

(* xQueueSendToFront instead of xQueueSend. *)
AddQueueToFront ==
    /\ rx # 0
    /\ Len(queue) < QueueSize
    /\ queue' = <<rx>> \o queue
    /\ rx' = 0
    /\ UNCHANGED <<accVars, sock, handle, promisc, taskVars, made, overrun, netVars, ub>>

(* xQueuePeek instead of xQueueReceive. *)
ReceivePeek(t) ==
    /\ tpc[t] = "loop"
    /\ queue # <<>>
    /\ item' = [item EXCEPT ![t] = Head(queue)]
    /\ Goto(t, "check")
    /\ UNCHANGED <<accVars, sock, handle, promisc, queue, tfd, radioVars, netVars, ub>>

(* xQueueOverwrite instead of xQueueSend: a full queue loses what it held. *)
AddQueueOverwrite ==
    /\ rx # 0
    /\ queue' = IF Len(queue) < QueueSize THEN Append(queue, rx) ELSE <<rx>>
    /\ rx' = 0
    /\ UNCHANGED <<accVars, sock, handle, promisc, taskVars, made, overrun, netVars, ub>>

(* The task waits for a full queue before it takes anything. *)
ReceiveBatch(t) ==
    /\ tpc[t] = "loop"
    /\ Len(queue) = QueueSize
    /\ item' = [item EXCEPT ![t] = Head(queue)]
    /\ queue' = Tail(queue)
    /\ Goto(t, "check")
    /\ UNCHANGED <<accVars, sock, handle, promisc, tfd, radioVars, netVars, ub>>

(* onSend forgets disconnect_socket. *)
CloseSockForgotten(t) ==
    /\ tpc[t] = "close"
    /\ Goto(t, "clear")
    /\ UNCHANGED <<accVars, sock, handle, promisc, queue, item, tfd, radioVars, netVars, ub>>

(* _sock keeps the closed descriptor. *)
ClearSockForgotten(t) ==
    /\ tpc[t] = "clear"
    /\ Goto(t, "deinit")
    /\ UNCHANGED <<accVars, sock, handle, promisc, queue, item, tfd, radioVars, netVars, ub>>

(* sniffer_stop leaves promiscuous mode on. *)
DeinitForgotten(t) ==
    /\ tpc[t] = "deinit"
    /\ Goto(t, "delete")
    /\ UNCHANGED <<accVars, sock, handle, promisc, queue, item, tfd, radioVars, netVars, ub>>

(* sniffer_stop turns the radio off and lets the task run on. *)
DeinitOnly(t) ==
    /\ tpc[t] = "deinit"
    /\ promisc' = FALSE
    /\ Goto(t, "loop")
    /\ UNCHANGED <<accVars, sock, handle, queue, item, tfd, radioVars, netVars, ub>>

-----------------------------------------------------------------------------
(* The accept task: tcp_server_task, onSocketAccept and                    *)
(* on_socket_accept_handler.                                               *)

(* No session is left: what a client has to wait for when there may be     *)
(* only one at a time.                                                     *)
SessionOver ==
    /\ \A t \in Conns : ~ Live(t)
    /\ \A c \in Conns : peer[c] # "up"

(* A faulty variant: while there is a client another one only gets a task. *)
AcceptSecond ==
    /\ apc = "accept"
    /\ accepted < MaxConns
    /\ OneClient => SessionOver
    /\ \E f \in Fds :
        /\ owner[f] = 0
        /\ newSock' = f
        /\ owner' = [owner EXCEPT ![f] = accepted + 1]
    /\ accepted' = accepted + 1
    /\ peer' = [peer EXCEPT ![accepted + 1] = "up"]
    /\ before' = [before EXCEPT ![accepted + 1] = made]
    /\ apc' = IF sock = 0 THEN "disconnect" ELSE "create"
    /\ UNCHANGED <<sock, handle, promisc, queue, taskVars, radioVars, stream, ub>>

(* accept() returns some free descriptor. *)
Accept ==
    /\ apc = "accept"
    /\ accepted < MaxConns
    /\ OneClient => SessionOver
    /\ \E f \in Fds :
        /\ owner[f] = 0
        /\ newSock' = f
        /\ owner' = [owner EXCEPT ![f] = accepted + 1]
    /\ accepted' = accepted + 1
    /\ peer' = [peer EXCEPT ![accepted + 1] = "up"]
    /\ before' = [before EXCEPT ![accepted + 1] = made]
    /\ apc' = "disconnect"
    /\ UNCHANGED <<sock, handle, promisc, queue, taskVars, radioVars, stream, ub>>

(* disconnect_socket(_sock) does nothing when _sock is 0.  _sock is read   *)
(* here and closed here: no other task could reopen the descriptor in      *)
(* between, since only this task calls accept().                           *)
DisconnectOld ==
    /\ apc = "disconnect"
    /\ owner' = IF sock # 0 THEN Closed(sock) ELSE owner
    /\ apc' = "setSock"
    /\ UNCHANGED <<accepted, newSock, before, sock, handle, promisc, queue,
                   taskVars, radioVars, peer, stream, ub>>

SetSock ==
    /\ apc = "setSock"
    /\ sock' = newSock
    /\ apc' = "create"
    /\ UNCHANGED <<accepted, newSock, before, handle, promisc, queue,
                   taskVars, radioVars, netVars, ub>>

(* sniffer_start: xTaskCreate stores the new handle over the old one; when *)
(* it is out of memory sniffer_start only logs it.                         *)
CreateTask ==
    /\ apc = "create"
    /\ \/ /\ tpc' = [tpc EXCEPT ![accepted] = "init"]
          /\ handle' = accepted
       \/ UNCHANGED <<tpc, handle>>
    /\ apc' = "accept"
    /\ UNCHANGED <<accepted, newSock, before, sock, promisc, queue, item, tfd,
                   radioVars, netVars, ub>>

Acceptor == Accept \/ DisconnectOld \/ SetSock \/ CreateTask

-----------------------------------------------------------------------------
(* The wifi driver's task.  It calls wifi_sniffer_packet_handler for every *)
(* packet while the radio is in promiscuous mode; only packets that pass   *)
(* the filters are counted here.                                           *)

CaptureRecord ==
    /\ promisc
    /\ rx = 0
    /\ made < MaxRecs
    /\ made' = made + 1
    /\ rx' = made + 1
    /\ UNCHANGED <<accVars, sock, handle, promisc, queue, taskVars, overrun, netVars, ub>>

(* sniffer_add_queue: xQueueSend without waiting; a full queue drops the   *)
(* new record.                                                             *)
AddQueue ==
    /\ rx # 0
    /\ IF Len(queue) < QueueSize
       THEN /\ queue' = Append(queue, rx)
            /\ UNCHANGED overrun
       ELSE /\ overrun' = overrun \cup {rx}
            /\ UNCHANGED queue
    /\ rx' = 0
    /\ UNCHANGED <<accVars, sock, handle, promisc, taskVars, made, netVars, ub>>

-----------------------------------------------------------------------------
(* A sniffer task.  capture_start and capture_on_send go through the same  *)
(* steps: test _sock, load it, onSend; item[t] says which of the two runs. *)

(* wifi_sniffer_init turns promiscuous mode on, then capture_start. *)
InitSniffer(t) ==
    /\ tpc[t] = "init"
    /\ promisc' = TRUE
    /\ item' = [item EXCEPT ![t] = Hdr]
    /\ Goto(t, "check")
    /\ UNCHANGED <<accVars, sock, handle, queue, tfd, radioVars, netVars, ub>>

(* if (_sock): without a client the item is dropped. *)
CheckSock(t) ==
    /\ tpc[t] = "check"
    /\ Goto(t, IF sock = 0 THEN "loop" ELSE "load")
    /\ UNCHANGED <<accVars, sock, handle, promisc, queue, item, tfd, radioVars, netVars, ub>>

(* The argument of onSend(_sock, ...): a second read of _sock. *)
LoadSock(t) ==
    /\ tpc[t] = "load"
    /\ tfd' = [tfd EXCEPT ![t] = sock]
    /\ Goto(t, "send")
    /\ UNCHANGED <<accVars, sock, handle, promisc, queue, item, radioVars, netVars, ub>>

(* write() returns the whole length. *)
SendWhole(t) ==
    /\ tpc[t] = "send"
    /\ Target(t) # 0
    /\ peer[Target(t)] = "up"
    /\ Sent(Target(t), item[t])
    /\ Goto(t, "loop")
    /\ UNCHANGED <<accVars, sock, handle, promisc, queue, item, tfd, radioVars,
                   owner, peer, ub>>

(* write() reports success and nobody receives the item: the client is     *)
(* gone and the stack has not noticed, or the descriptor is 0, the console.*)
SendLost(t) ==
    /\ tpc[t] = "send"
    /\ \/ tfd[t] = 0
       \/ Target(t) # 0 /\ peer[Target(t)] = "down"
    /\ Goto(t, "loop")
    /\ UNCHANGED <<accVars, sock, handle, promisc, queue, item, tfd, radioVars,
                   netVars, ub>>

(* write() sends a part and returns its length, which onSend takes for     *)
(* success since it is not negative.                                       *)
SendShort(t) ==
    /\ ShortWrites
    /\ tpc[t] = "send"
    /\ Target(t) # 0
    /\ peer[Target(t)] = "up"
    /\ Sent(Target(t), Frag)
    /\ Goto(t, "loop")
    /\ UNCHANGED <<accVars, sock, handle, promisc, queue, item, tfd, radioVars,
                   owner, peer, ub>>

(* write() returns -1: the descriptor is closed, the client is gone, or    *)
(* the connection breaks now, perhaps after a part of the item.            *)
SendFails(t) ==
    /\ tpc[t] = "send"
    /\ tfd[t] # 0
    /\ IF Target(t) = 0
       THEN UNCHANGED <<peer, stream>>
       ELSE /\ peer' = [peer EXCEPT ![Target(t)] = "down"]
            /\ \/ UNCHANGED stream
               \/ peer[Target(t)] = "up" /\ Sent(Target(t), Frag)
    /\ Goto(t, "close")
    /\ UNCHANGED <<accVars, sock, handle, promisc, queue, item, tfd, radioVars, owner, ub>>

(* onSend: disconnect_socket(sock) after the failure. *)
CloseSock(t) ==
    /\ tpc[t] = "close"
    /\ owner' = Closed(tfd[t])
    /\ Goto(t, "clear")
    /\ UNCHANGED <<accVars, sock, handle, promisc, queue, item, tfd, radioVars,
                   peer, stream, ub>>

(* on_capture and on_start_capture: _sock = 0. *)
ClearSock(t) ==
    /\ tpc[t] = "clear"
    /\ sock' = 0
    /\ Goto(t, "deinit")
    /\ UNCHANGED <<accVars, handle, promisc, queue, item, tfd, radioVars, netVars, ub>>

(* sniffer_stop: wifi_sniffer_deinit turns promiscuous mode off. *)
DeinitSniffer(t) ==
    /\ tpc[t] = "deinit"
    /\ promisc' = FALSE
    /\ Goto(t, "delete")
    /\ UNCHANGED <<accVars, sock, handle, queue, item, tfd, radioVars, netVars, ub>>

(* sniffer_stop: vTaskDelete(xHandle_sniff) ends whichever task the handle *)
(* names, not always the caller, which then returns to its loop.  For a    *)
(* task that is already deleted the behaviour is undefined: the model      *)
(* stops there.                                                            *)
DeleteTask(t) ==
    /\ tpc[t] = "delete"
    /\ IF tpc[handle] = "dead"
       THEN ub' = TRUE /\ UNCHANGED tpc
       ELSE /\ tpc' = [tpc EXCEPT ![t] = "loop", ![handle] = "dead"]
            /\ UNCHANGED ub
    /\ UNCHANGED <<accVars, sock, handle, promisc, queue, item, tfd, radioVars, netVars>>

(* sniffer_task: xQueueReceive takes the oldest record.  The wait of at    *)
(* most 10 ms on an empty queue changes nothing.                           *)
Receive(t) ==
    /\ tpc[t] = "loop"
    /\ queue # <<>>
    /\ item' = [item EXCEPT ![t] = Head(queue)]
    /\ queue' = Tail(queue)
    /\ Goto(t, "check")
    /\ UNCHANGED <<accVars, sock, handle, promisc, tfd, radioVars, netVars, ub>>

Sniffer(t) ==
    \/ InitSniffer(t)
    \/ CheckSock(t)
    \/ LoadSock(t)
    \/ SendWhole(t)
    \/ SendLost(t)
    \/ SendShort(t)
    \/ SendFails(t)
    \/ CloseSock(t)
    \/ ClearSock(t)
    \/ DeinitSniffer(t)
    \/ DeleteTask(t)
    \/ Receive(t)

-----------------------------------------------------------------------------
(* A client closes its connection, at any time. *)
PeerCloses(c) ==
    /\ peer[c] = "up"
    /\ peer' = [peer EXCEPT ![c] = "down"]
    /\ UNCHANGED <<accVars, sock, handle, promisc, queue, taskVars, radioVars,
                   owner, stream, ub>>

Next ==
    /\ ~ ub
    /\ \/ Acceptor
       \/ CaptureRecord
       \/ AddQueue
       \/ \E t \in Conns : Sniffer(t)
       \/ \E c \in Conns : PeerCloses(c)

Spec == Init /\ [][Next]_vars

(* The tasks are scheduled: each sniffer task that can take a step takes   *)
(* one, the accept task finishes what an accept started, and the driver's  *)
(* callback returns.  Nothing makes clients connect or leave, or packets   *)
(* arrive.                                                                 *)
Fairness ==
    /\ \A t \in Conns : WF_vars(~ ub /\ Sniffer(t))
    /\ WF_vars(~ ub /\ (DisconnectOld \/ SetSock \/ CreateTask))
    /\ WF_vars(~ ub /\ AddQueue)

FairSpec == Spec /\ Fairness

-----------------------------------------------------------------------------
(* Properties *)

(* The type invariant. *)
TypeOK ==
    /\ apc \in AccSteps
    /\ accepted \in 0 .. MaxConns
    /\ newSock \in Fds \cup {0}
    /\ sock \in Fds \cup {0}
    /\ handle \in 0 .. MaxConns
    /\ promisc \in BOOLEAN
    /\ queue \in Seq(Recs)
    /\ tpc \in [Conns -> TaskSteps]
    /\ item \in [Conns -> Recs \cup {Hdr}]
    /\ tfd \in [Conns -> Fds \cup {0}]
    /\ rx \in Recs \cup {0}
    /\ made \in 0 .. MaxRecs
    /\ overrun \subseteq Recs
    /\ owner \in [Fds -> Conns \cup {0}]
    /\ peer \in [Conns -> {"none", "up", "down"}]
    /\ stream \in [Conns -> Seq(Recs \cup {Hdr, Frag})]
    /\ before \in [Conns -> 0 .. MaxRecs]
    /\ ub \in BOOLEAN

Contents(s) == {s[i] : i \in DOMAIN s}

(* A captured record is delivered at most once: not twice to one client,   *)
(* and not to two clients, however many sniffer tasks drain the queue and  *)
(* whichever descriptors they write to (wifi_sniffer.c:478).               *)
AtMostOnce ==
    /\ \A c \in Conns : \A i, j \in DOMAIN stream[c] :
         stream[c][i] \in Recs /\ stream[c][i] = stream[c][j] => i = j
    /\ \A c, d \in Conns :
         c # d => Contents(stream[c]) \cap Contents(stream[d]) \cap Recs = {}

(* What waits in the queue is in capture order, never more than the queue  *)
(* holds, and newer than all that any client was sent                      *)
(* (wifi_sniffer.c:184, 478).                                              *)
QueueInOrder ==
    /\ Len(queue) <= QueueSize
    /\ \A i, j \in DOMAIN queue : i < j => queue[i] < queue[j]
    /\ \A c \in Conns : \A r \in Contents(stream[c]) :
         \A i \in DOMAIN queue : r < queue[i]

(* However sessions overlap and descriptors are reused, a task writes to   *)
(* its own client or to a later one, and closes no earlier one's           *)
(* connection: what it has read from _sock never leads back                *)
(* (main.c:47-50, 74-76, tcp_server.c:18-27).                              *)
OwnOrLater ==
    \A t \in Conns : tpc[t] \in {"send", "close"} => Target(t) = 0 \/ Target(t) >= t

(* When no sniffer task is left, the radio is out of promiscuous mode, so  *)
(* nothing fills the queue with nobody to drain it: each task that ends    *)
(* has turned it off, and no other task can have turned it on since and    *)
(* ended (wifi_sniffer.c:546-551).                                         *)
IdleRadioOff ==
    (\A t \in Conns : ~ Live(t)) => ~ promisc

(* Every connection carries a well-formed pcap stream                      *)
(* (capture_lib.c:7, README.md:14): the file header first, only once, then *)
(* records in capture order, and a broken item only as the last.           *)
PcapFormat ==
    \A c \in Conns : \A i \in DOMAIN stream[c] :
        /\ stream[c][i] = Hdr => i = 1
        /\ i = 1 => stream[c][i] \in {Hdr, Frag}
        /\ stream[c][i] = Frag => i = Len(stream[c])
        /\ \A j \in DOMAIN stream[c] :
             j < i /\ stream[c][i] # Frag => stream[c][j] < stream[c][i]

(* onSend has sent an item in full when it reports success, so that only a *)
(* connection that broke ends in a part of one (tcp_server.c:45).          *)
WholeItems ==
    \A c \in Conns : \A i \in DOMAIN stream[c] :
        stream[c][i] = Frag => i = Len(stream[c]) /\ peer[c] = "down"

(* With one client at a time the globals always describe one session: at   *)
(* most one sniffer task lives, it is the one xHandle_sniff names, _sock   *)
(* is the descriptor of its client until its own failure path clears it,   *)
(* the radio listens for as long as it runs, and vTaskDelete never meets a *)
(* dead task.                                                              *)
OneSession ==
    /\ ~ ub
    /\ \A t \in Conns : Live(t) =>
        /\ t = handle
        /\ t = accepted
        /\ \A u \in Conns : Live(u) => u = t
        /\ tpc[t] \notin {"deinit", "delete"} =>
             sock # 0 /\ owner[sock] \in {t, 0}
        /\ tpc[t] \notin {"close", "clear", "deinit", "delete"} =>
             sock # 0 /\ owner[sock] = t
        /\ tpc[t] \notin {"init", "delete"} => promisc

(* No descriptor leaks: one that is open belongs to the current session or *)
(* to the connection just accepted.                                        *)
NoFdLeak ==
    \A f \in Fds : owner[f] # 0 =>
        f = sock \/ (f = newSock /\ apc # "accept")

(* The queue is not emptied between sessions, but what a new client gets   *)
(* from before its time is at most a full queue and the one record the     *)
(* driver was about to add (wifi_sniffer.c:163-194).                       *)
StaleBounded ==
    \A c \in Conns :
        Cardinality({i \in DOMAIN stream[c] :
            stream[c][i] \in 1 .. before[c]}) <= QueueSize + 1

(* With one client at a time the streams are those PcapFeed promises.      *)
Feed == INSTANCE PcapFeed WITH captured <- made
FeedSpec == Feed!FeedSpec

(* Every sniffer task sends its client the file header, unless the client  *)
(* is gone first (wifi_sniffer.c:471-472).                                 *)
HeaderSent ==
    \A c \in Conns : tpc[c] = "init" ~> (stream[c] # <<>> \/ peer[c] = "down")

(* A failed write ends the session in full: the task is gone, the radio is *)
(* off, _sock is 0 and the descriptor is closed (main.c:74-78).            *)
FailureEndsSession ==
    \A t \in Conns : tpc[t] = "close" ~>
        /\ tpc[t] = "dead"
        /\ ~ promisc
        /\ sock = 0
        /\ \A f \in Fds : owner[f] # t

(* A record that waits in the queue does not wait for ever while a sniffer *)
(* task lives (wifi_sniffer.c:474-485).                                    *)
QueueDrained ==
    \A r \in Recs :
        (r \in Contents(queue) /\ \E t \in Conns : Live(t))
            ~> (r \notin Contents(queue) \/ \A t \in Conns : ~ Live(t))
=============================================================================
