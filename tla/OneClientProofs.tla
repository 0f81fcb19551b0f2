-------------------------- MODULE OneClientProofs --------------------------
(* Theorems about CaptureSession when there is one client at a time: the   *)
(* next connects when the last session is over (OneClient).                *)
EXTENDS CaptureSessionProofs, FiniteSetTheorems

USE DEF Hdr, Frag

(* Where a task is before the failure of a write is dealt with. *)
Working == {"init", "check", "load", "send", "loop", "close"}

(* OneSession and NoFdLeak are not inductive: they leave out where the     *)
(* accept task is, and why _sock never names the connection just accepted  *)
(* before that is stored in it.                                            *)
SessionInv ==
    /\ ~ ub
    /\ apc # "accept" =>
         accepted \in Conns /\ newSock \in Fds /\ owner[newSock] = accepted
    /\ apc = "disconnect" => sock # newSock
    /\ apc = "setSock" => \A f \in Fds : owner[f] # 0 => f = newSock
    /\ apc = "create" => sock = newSock
    /\ NoFdLeak
    /\ sock # 0 /\ apc # "setSock" =>
         owner[sock] # 0 \/ \E t \in Conns : tpc[t] = "clear"
    /\ \A t \in Conns :
         /\ Live(t) => t = handle /\ t = accepted /\ apc = "accept"
         /\ tpc[t] \in Working => sock # 0 /\ owner[sock] = t
         /\ tpc[t] \in {"send", "close"} => tfd[t] = sock
         /\ tpc[t] = "clear" => sock # 0 /\ owner[sock] = 0
         /\ tpc[t] \in {"deinit", "delete"} => sock = 0
         /\ tpc[t] \notin {"none", "dead", "init", "delete"} => promisc

(* A step of the one task that lives, which stays alive. *)
LEMMA SessionMoves ==
    ASSUME TypeOK, SessionInv, NEW t \in Conns, Live(t),
           NEW l \in TaskSteps \ {"none", "dead"}, Goto(t, l),
           UNCHANGED <<apc, accepted, newSock, handle, ub>>,
           l \in Working => sock' # 0 /\ owner'[sock'] = t,
           l \in {"send", "close"} => tfd'[t] = sock',
           l = "clear" => sock' # 0 /\ owner'[sock'] = 0,
           l \in {"deinit", "delete"} => sock' = 0,
           l \notin {"init", "delete"} => promisc',
           sock' # 0 => owner'[sock'] # 0 \/ l = "clear",
           \A f \in Fds : owner'[f] # 0 => f = sock'
    PROVE  SessionInv'
<1>1. /\ apc = "accept" /\ t = handle /\ t = accepted
      /\ \A u \in Conns \ {t} : ~ Live(u)
  BY DEF SessionInv
<1>2. /\ tpc'[t] = l
      /\ \A u \in Conns \ {t} : tpc'[u] = tpc[u] /\ tpc'[u] \in {"none", "dead"}
  BY <1>1 DEF Goto, TypeOK, Live
<1>3. NoFdLeak'
  BY DEF NoFdLeak
<1>4. ASSUME NEW u \in Conns
      PROVE  /\ Live(u)' => u = handle /\ u = accepted
             /\ tpc'[u] \in Working => sock' # 0 /\ owner'[sock'] = u
             /\ tpc'[u] \in {"send", "close"} => tfd'[u] = sock'
             /\ tpc'[u] = "clear" => sock' # 0 /\ owner'[sock'] = 0
             /\ tpc'[u] \in {"deinit", "delete"} => sock' = 0
             /\ tpc'[u] \notin {"none", "dead", "init", "delete"} => promisc'
  <2>1. CASE u = t
    BY <1>1, <1>2, <2>1
  <2>2. CASE u # t
    <3>1. tpc'[u] \in {"none", "dead"}
      BY <1>2, <2>2
    <3> QED
      BY <3>1 DEF Live, Working
  <2> QED
    BY <2>1, <2>2
<1>5. ~ ub'
  BY DEF SessionInv
<1>6. sock' # 0 => owner'[sock'] # 0 \/ \E u \in Conns : tpc'[u] = "clear"
  BY <1>2
<1> QED
  BY <1>1, <1>3, <1>4, <1>5, <1>6 DEF SessionInv

(* What every task step starts from. *)
LEMMA TheSession ==
    ASSUME SessionInv, NEW t \in Conns, Live(t)
    PROVE  /\ apc = "accept"
           /\ \A f \in Fds : owner[f] # 0 => f = sock
           /\ tpc[t] \in Working => sock # 0 /\ owner[sock] = t
           /\ tpc[t] \in {"send", "close"} => tfd[t] = sock
           /\ tpc[t] = "clear" => sock # 0 /\ owner[sock] = 0
           /\ tpc[t] \in {"deinit", "delete"} => sock = 0
           /\ tpc[t] \notin {"none", "dead", "init", "delete"} => promisc
  BY DEF SessionInv, NoFdLeak

(* The steps of a sniffer task keep SessionInv. *)
LEMMA SessionSniffer ==
    ASSUME TypeOK, SessionInv, NEW t \in Conns, Sniffer(t)
    PROVE  SessionInv'
<1>0. Live(t)
  BY DEF Sniffer, InitSniffer, CheckSock, LoadSock, SendWhole, SendLost, SendShort,
         SendFails, CloseSock, ClearSock, DeinitSniffer, DeleteTask, Receive, Live
<1>a. /\ apc = "accept"
      /\ \A f \in Fds : owner[f] # 0 => f = sock
      /\ tpc[t] \in Working => sock # 0 /\ owner[sock] = t
      /\ tpc[t] \in {"send", "close"} => tfd[t] = sock
      /\ tpc[t] = "clear" => sock # 0 /\ owner[sock] = 0
      /\ tpc[t] \in {"deinit", "delete"} => sock = 0
      /\ tpc[t] \notin {"none", "dead", "init", "delete"} => promisc
  BY <1>0, TheSession
<1>b. sock # 0 => sock \in Fds
  BY DEF TypeOK
<1>c. t # 0
  BY ConstantsAssumption DEF Conns
<1>1. CASE InitSniffer(t)
  <2>1. /\ tpc[t] = "init" /\ promisc' /\ Goto(t, "check")
        /\ UNCHANGED <<accVars, sock, handle, tfd, owner, ub>>
    BY <1>1 DEF InitSniffer, netVars
  <2> QED
    BY <1>0, <1>a, <1>c, <2>1, SessionMoves DEF Working, TaskSteps, accVars
<1>2. CASE CheckSock(t)
  <2>1. /\ tpc[t] = "check" /\ Goto(t, "load")
        /\ UNCHANGED <<accVars, sock, handle, promisc, tfd, owner, ub>>
    BY <1>2, <1>a DEF CheckSock, netVars, Working
  <2> QED
    BY <1>0, <1>a, <1>c, <2>1, SessionMoves DEF Working, TaskSteps, accVars
<1>3. CASE LoadSock(t)
  <2>1. /\ tpc[t] = "load" /\ Goto(t, "send") /\ tfd'[t] = sock
        /\ UNCHANGED <<accVars, sock, handle, promisc, owner, ub>>
    BY <1>3 DEF LoadSock, netVars, TypeOK
  <2> QED
    BY <1>0, <1>a, <1>c, <2>1, SessionMoves DEF Working, TaskSteps, accVars
<1>4. CASE SendWhole(t) \/ SendLost(t) \/ SendShort(t)
  <2>1. /\ tpc[t] = "send" /\ Goto(t, "loop")
        /\ UNCHANGED <<accVars, sock, handle, promisc, tfd, owner, ub>>
    BY <1>4 DEF SendWhole, SendLost, SendShort, netVars
  <2> QED
    BY <1>0, <1>a, <1>c, <2>1, SessionMoves DEF Working, TaskSteps, accVars
<1>5. CASE SendFails(t)
  <2>1. /\ tpc[t] = "send" /\ Goto(t, "close")
        /\ UNCHANGED <<accVars, sock, handle, promisc, tfd, owner, ub>>
    BY <1>5 DEF SendFails
  <2> QED
    BY <1>0, <1>a, <1>c, <2>1, SessionMoves DEF Working, TaskSteps, accVars
<1>6. CASE CloseSock(t)
  <2>1. /\ tpc[t] = "close" /\ Goto(t, "clear")
        /\ owner' = [owner EXCEPT ![sock] = 0]
        /\ UNCHANGED <<accVars, sock, handle, promisc, tfd, ub>>
    BY <1>6, <1>a DEF CloseSock, Closed
  <2>2. sock # 0
    BY <1>a, <2>1 DEF Working
  <2>3. owner'[sock'] = 0 /\ \A f \in Fds : owner'[f] # 0 => f = sock'
    BY <1>a, <1>b, <2>1, <2>2 DEF TypeOK
  <2> QED
    BY <1>0, <1>a, <1>c, <2>1, <2>2, <2>3, SessionMoves DEF Working, TaskSteps, accVars
<1>7. CASE ClearSock(t)
  <2>1. /\ tpc[t] = "clear" /\ Goto(t, "deinit") /\ sock' = 0
        /\ UNCHANGED <<accVars, handle, promisc, tfd, owner, ub>>
    BY <1>7 DEF ClearSock, netVars
  <2>2. \A f \in Fds : owner'[f] # 0 => f = sock'
    BY <1>a, <2>1
  <2> QED
    BY <1>0, <1>a, <1>c, <2>1, <2>2, SessionMoves DEF Working, TaskSteps, accVars
<1>8. CASE DeinitSniffer(t)
  <2>1. /\ tpc[t] = "deinit" /\ Goto(t, "delete")
        /\ UNCHANGED <<accVars, sock, handle, tfd, owner, ub>>
    BY <1>8 DEF DeinitSniffer, netVars
  <2> QED
    BY <1>0, <1>a, <1>c, <2>1, SessionMoves DEF Working, TaskSteps, accVars
<1>9. CASE DeleteTask(t)
  <2>1. t = handle /\ \A u \in Conns \ {t} : ~ Live(u)
    BY <1>0 DEF SessionInv
  <2>2. /\ tpc[t] = "delete"
        /\ tpc' = [tpc EXCEPT ![t] = "dead"]
        /\ UNCHANGED <<apc, accepted, newSock, sock, handle, owner, ub>>
    BY <1>9, <2>1 DEF DeleteTask, netVars, accVars, TypeOK
  <2>3. \A u \in Conns : tpc'[u] \in {"none", "dead"}
    BY <2>1, <2>2 DEF Live, TypeOK
  <2>4. sock = 0
    BY <1>a, <2>2
  <2> QED
    BY <1>a, <2>2, <2>3, <2>4 DEF SessionInv, NoFdLeak, Live, Working
<1>10. CASE Receive(t)
  <2>1. /\ tpc[t] = "loop" /\ Goto(t, "check")
        /\ UNCHANGED <<accVars, sock, handle, promisc, tfd, owner, ub>>
    BY <1>10 DEF Receive, netVars
  <2> QED
    BY <1>0, <1>a, <1>c, <2>1, SessionMoves DEF Working, TaskSteps, accVars
<1> QED
  BY <1>1, <1>2, <1>3, <1>4, <1>5, <1>6, <1>7, <1>8, <1>9, <1>10 DEF Sniffer

(* With one client at a time the globals of main.c and wifi_sniffer.c      *)
(* describe one session.                                                   *)
THEOREM Sessions == ASSUME OneClient PROVE Spec => []SessionInv
<1>1. Init => SessionInv
  BY ConstantsAssumption DEF Init, SessionInv, NoFdLeak, Live, Working
<1>2. TypeOK /\ SessionInv /\ [Next]_vars => SessionInv'
  <2> SUFFICES ASSUME TypeOK, SessionInv, [Next]_vars
               PROVE  SessionInv'
    OBVIOUS
  <2>1. CASE Accept
    <3>1. \A t \in Conns : ~ Live(t)
      BY <2>1 DEF Accept, SessionOver
    <3>2. PICK f \in Fds : /\ owner[f] = 0
                           /\ newSock' = f
                           /\ owner' = [owner EXCEPT ![f] = accepted + 1]
      BY <2>1 DEF Accept
    <3>3. /\ apc = "accept" /\ apc' = "disconnect" /\ accepted' = accepted + 1
          /\ accepted + 1 \in Conns
          /\ UNCHANGED <<sock, tpc, ub>>
      BY <2>1, ConstantsAssumption DEF Accept, taskVars, TypeOK, Conns
    <3>4. owner'[f] = accepted' /\ \A g \in Fds \ {f} : owner'[g] = owner[g]
      BY <3>2, <3>3 DEF TypeOK
    <3>5. sock # 0 => sock \in Fds \ {f} /\ owner[sock] # 0
      BY <3>1, <3>2, <3>3 DEF SessionInv, TypeOK, Live
    <3>6. sock' # newSock'
      BY <3>2, <3>3, <3>5, ConstantsAssumption
    <3>7. \A g \in Fds : owner'[g] # 0 => g = sock' \/ g = newSock'
      BY <3>2, <3>3, <3>4 DEF SessionInv, NoFdLeak
    <3>8. \A t \in Conns : tpc'[t] \in {"none", "dead"}
      BY <3>1, <3>3 DEF Live, TypeOK
    <3>9. NoFdLeak'
      BY <3>3, <3>7 DEF NoFdLeak
    <3>10. ~ ub' /\ (sock' # 0 => owner'[sock'] # 0)
      BY <3>3, <3>4, <3>5 DEF SessionInv
    <3> QED
      BY <3>2, <3>3, <3>4, <3>6, <3>8, <3>9, <3>10 DEF SessionInv, Live, Working
  <2>2. CASE DisconnectOld
    <3>1. /\ apc = "disconnect" /\ apc' = "setSock"
          /\ UNCHANGED <<accepted, newSock, sock, handle, tpc, ub>>
      BY <2>2 DEF DisconnectOld, taskVars
    <3>2. /\ sock # 0 => owner' = [owner EXCEPT ![sock] = 0]
          /\ sock = 0 => owner' = owner
      BY <2>2 DEF DisconnectOld, Closed
    <3>3. \A f \in Fds : owner[f] # 0 => f = sock \/ f = newSock
      BY DEF SessionInv, NoFdLeak
    <3>4. /\ accepted \in Conns /\ newSock \in Fds /\ owner[newSock] = accepted
          /\ sock # newSock
      BY <3>1 DEF SessionInv
    <3>5. owner'[newSock] = accepted /\ \A f \in Fds : owner'[f] # 0 => f = newSock
      BY <3>2, <3>3, <3>4, ConstantsAssumption DEF TypeOK
    <3>6. \A t \in Conns : tpc'[t] \in {"none", "dead"}
      BY <3>1 DEF SessionInv, Live, TypeOK
    <3>7. NoFdLeak'
      BY <3>1, <3>5 DEF NoFdLeak
    <3>8. ~ ub'
      BY <3>1 DEF SessionInv
    <3> QED
      BY <3>1, <3>4, <3>5, <3>6, <3>7, <3>8 DEF SessionInv, Live, Working
  <2>3. CASE SetSock
    <3>1. /\ apc = "setSock" /\ apc' = "create" /\ sock' = newSock
          /\ UNCHANGED <<accepted, newSock, handle, tpc, owner, ub>>
      BY <2>3 DEF SetSock, taskVars, netVars
    <3>2. /\ accepted \in Conns /\ newSock \in Fds /\ owner[newSock] = accepted
          /\ \A f \in Fds : owner[f] # 0 => f = newSock
      BY <3>1 DEF SessionInv
    <3>3. \A t \in Conns : tpc'[t] \in {"none", "dead"}
      BY <3>1 DEF SessionInv, Live, TypeOK
    <3>4. NoFdLeak' /\ owner'[sock'] # 0
      BY <3>1, <3>2, ConstantsAssumption DEF NoFdLeak, Conns
    <3>5. ~ ub'
      BY <3>1 DEF SessionInv
    <3> QED
      BY <3>1, <3>2, <3>3, <3>4, <3>5 DEF SessionInv, Live, Working
  <2>4. CASE CreateTask
    <3>1. /\ apc = "create" /\ apc' = "accept"
          /\ UNCHANGED <<accepted, newSock, sock, owner, ub>>
      BY <2>4 DEF CreateTask, netVars
    <3>2. /\ accepted \in Conns /\ newSock \in Fds /\ owner[newSock] = accepted
          /\ sock = newSock
          /\ \A f \in Fds : owner[f] # 0 => f = newSock
      BY <3>1 DEF SessionInv, NoFdLeak
    <3>3. \A t \in Conns : tpc[t] \in {"none", "dead"}
      BY <3>1 DEF SessionInv, Live, TypeOK
    <3>4. NoFdLeak' /\ owner'[sock'] # 0 /\ sock' # 0
      BY <3>1, <3>2, ConstantsAssumption DEF NoFdLeak, Conns
    <3>5. ~ ub'
      BY <3>1 DEF SessionInv
    <3>6. CASE tpc' = [tpc EXCEPT ![accepted] = "init"] /\ handle' = accepted
      <4>1. /\ tpc'[accepted] = "init"
            /\ \A t \in Conns \ {accepted} : tpc'[t] \in {"none", "dead"}
        BY <3>2, <3>3, <3>6 DEF TypeOK
      <4> QED
        BY <3>1, <3>2, <3>4, <3>5, <3>6, <4>1 DEF SessionInv, Live, Working
    <3>7. CASE UNCHANGED <<tpc, handle>>
      BY <3>1, <3>2, <3>3, <3>4, <3>5, <3>7 DEF SessionInv, Live, Working
    <3> QED
      BY <2>4, <3>6, <3>7 DEF CreateTask
  <2>5. CASE CaptureRecord \/ AddQueue \/ (\E c \in Conns : PeerCloses(c)) \/ UNCHANGED vars
    BY <2>5 DEF CaptureRecord, AddQueue, PeerCloses, vars, accVars, taskVars, netVars,
                SessionInv, NoFdLeak, Live
  <2>6. ASSUME NEW t \in Conns, Sniffer(t)
        PROVE  SessionInv'
    BY <2>6, SessionSniffer
  <2> QED
    BY <2>1, <2>2, <2>3, <2>4, <2>5, <2>6 DEF Next, Acceptor
<1> QED
  BY <1>1, <1>2, TypeCorrect, PTL DEF Spec

(* OneSession: one sniffer task at most lives, it is the one that          *)
(* xHandle_sniff names, _sock is its client's descriptor until its own     *)
(* failure path clears it, and vTaskDelete never meets a dead task         *)
(* (main.c:47-82, wifi_sniffer.c:536-551).                                 *)
THEOREM OneSessionAtATime == ASSUME OneClient PROVE Spec => []OneSession
<1>1. TypeOK /\ SessionInv => OneSession
  <2> SUFFICES ASSUME TypeOK, SessionInv PROVE OneSession
    OBVIOUS
  <2> SUFFICES ASSUME NEW t \in Conns, Live(t)
               PROVE  /\ t = handle
                      /\ t = accepted
                      /\ \A u \in Conns : Live(u) => u = t
                      /\ tpc[t] \notin {"deinit", "delete"} =>
                           sock # 0 /\ owner[sock] \in {t, 0}
                      /\ tpc[t] \notin {"close", "clear", "deinit", "delete"} =>
                           sock # 0 /\ owner[sock] = t
                      /\ tpc[t] \notin {"init", "delete"} => promisc
    BY DEF SessionInv, OneSession
  <2>1. tpc[t] \in Working \cup {"clear", "deinit", "delete"}
    BY DEF TypeOK, TaskSteps, Live, Working
  <2> QED
    BY <2>1 DEF SessionInv, Live, Working
<1> QED
  BY <1>1, TypeCorrect, Sessions, PTL

(* NoFdLeak: a descriptor that is open belongs to the session or to the    *)
(* connection just accepted (main.c:47-60, tcp_server.c:18-27).            *)
THEOREM NoDescriptorLeaks == ASSUME OneClient PROVE Spec => []NoFdLeak
<1>1. SessionInv => NoFdLeak
  BY DEF SessionInv
<1> QED
  BY <1>1, Sessions, PTL

-----------------------------------------------------------------------------
(* CaptureSession implements PcapFeed.  What has to be known of a step     *)
(* that sends: that the connection is the newest one and its stream has    *)
(* begun with the header and not ended, that the record is younger than    *)
(* all that was sent, and that all between it and what the connection got  *)
(* before was dropped by the full queue.                                   *)

(* A record that was dropped, or that a later Receive may still take. *)
Ahead(m) == m \in overrun \/ m \in Contents(queue) \/ m = rx

(* A captured record that connection t has not missed. *)
Accounted(t, m) ==
    m \in Contents(stream[t]) \/ Ahead(m) \/ (Holds(t) /\ m = item[t])

(* The records that were not sent: after one that is queued or in a task's *)
(* hands come only those that are ahead.                                   *)
QueueKnown ==
    /\ rx # 0 => rx = made
    /\ \A m \in overrun : m < Limit
    /\ \A q \in Contents(queue) :
         q \notin overrun /\ \A m \in q + 1 .. made : Ahead(m)

FeedOf(t) ==
    /\ t > accepted => stream[t] = <<>>
    /\ tpc[t] = "init" => stream[t] = <<>>
    /\ Holds(t) /\ item[t] = Hdr => stream[t] = <<>>
    /\ Holds(t) /\ item[t] # Hdr =>
         /\ item[t] \notin overrun
         /\ \A m \in item[t] + 1 .. made : Ahead(m)
         /\ \A d \in Conns : \A q \in Contents(stream[d]) : q < item[t]
    /\ peer[t] = "up" =>
         /\ t = accepted
         /\ Frag \notin Contents(stream[t])
         /\ tpc[t] = "loop" \/ (Holds(t) /\ item[t] # Hdr) => stream[t] # <<>>
         /\ \A q \in Contents(stream[t]) : \A m \in q + 1 .. made :
              q # Hdr => Accounted(t, m)

FeedInv ==
    /\ QueueKnown
    /\ apc # "accept" => stream[accepted] = <<>>
    /\ \A t \in Conns : FeedOf(t)

(* A step in which no record moves.  Tasks keep what they hold or take up  *)
(* the header; what is given up is given up by a client that is gone.      *)
LEMMA FeedQuiet ==
    ASSUME TypeOK, FeedInv, UNCHANGED <<stream, queue, rx, made, overrun>>,
           accepted' \in {accepted, accepted + 1},
           apc' # "accept" => stream[accepted'] = <<>>,
           \A t \in Conns :
              /\ tpc'[t] = "init" => stream[t] = <<>>
              /\ Holds(t)' => \/ Holds(t) /\ item'[t] = item[t]
                              \/ item'[t] = Hdr /\ stream[t] = <<>>
              /\ peer'[t] = "up" =>
                   /\ t = accepted'
                   /\ \/ /\ stream[t] = <<>> /\ tpc'[t] # "loop"
                         /\ Holds(t)' => item'[t] = Hdr
                      \/ /\ peer[t] = "up"
                         /\ tpc'[t] = "loop" => tpc[t] = "loop"
                         /\ Holds(t) => Holds(t)' /\ item'[t] = item[t]
    PROVE  FeedInv'
<1>1. QueueKnown'
  BY DEF FeedInv, QueueKnown, Limit, Ahead
<1>2. ASSUME NEW t \in Conns
      PROVE  FeedOf(t)'
  <2>1. FeedOf(t)
    BY DEF FeedInv
  <2>2. t > accepted' => stream[t] = <<>>
    BY <2>1 DEF FeedOf, TypeOK, Conns
  <2>3. Holds(t)' /\ item'[t] = Hdr => stream[t] = <<>>
    BY <2>1 DEF FeedOf
  <2>4. ASSUME Holds(t)', item'[t] # Hdr
        PROVE  /\ item'[t] \notin overrun
               /\ \A m \in item'[t] + 1 .. made : Ahead(m)
               /\ \A d \in Conns : \A q \in Contents(stream[d]) : q < item'[t]
    BY <2>1, <2>4 DEF FeedOf
  <2>5. ASSUME peer'[t] = "up"
        PROVE  /\ t = accepted'
               /\ Frag \notin Contents(stream[t])
               /\ tpc'[t] = "loop" \/ (Holds(t)' /\ item'[t] # Hdr) => stream[t] # <<>>
               /\ \A q \in Contents(stream[t]) : \A m \in q + 1 .. made :
                    q # Hdr => Accounted(t, m)'
    <3>1. t = accepted'
      BY <2>5
    <3>2. CASE /\ stream[t] = <<>> /\ tpc'[t] # "loop"
               /\ Holds(t)' => item'[t] = Hdr
      <4>1. Contents(stream[t]) = {}
        BY <3>2 DEF Contents
      <4> QED
        BY <3>1, <3>2, <4>1
    <3>3. CASE /\ peer[t] = "up"
               /\ tpc'[t] = "loop" => tpc[t] = "loop"
               /\ Holds(t) => Holds(t)' /\ item'[t] = item[t]
      <4>1. \A m : Accounted(t, m) => Accounted(t, m)'
        BY <3>3 DEF Accounted, Ahead
      <4>2. Holds(t)' /\ item'[t] # Hdr /\ stream[t] = <<>> =>
              Holds(t) /\ item[t] # Hdr
        BY <3>3
      <4> QED
        BY <2>1, <3>1, <3>3, <4>1, <4>2 DEF FeedOf
    <3> QED
      BY <2>5, <3>2, <3>3
  <2>6. \A m : Ahead(m)' <=> Ahead(m)
    BY DEF Ahead
  <2> QED
    BY <2>2, <2>3, <2>4, <2>5, <2>6 DEF FeedOf
<1>3. apc' # "accept" => stream'[accepted'] = <<>>
  OBVIOUS
<1> QED
  BY <1>1, <1>2, <1>3 DEF FeedInv

(* What streams, queue and hands contain besides the header. *)
LEMMA FeedElements ==
    ASSUME TypeOK
    PROVE  /\ \A t \in Conns : \A q \in Contents(stream[t]) :
                q # Hdr /\ q # Frag => q \in Recs
           /\ \A q \in Contents(queue) : q \in Recs
           /\ \A t \in Conns : item[t] # Hdr => item[t] \in Recs
           /\ made \in Nat /\ rx \in Nat
           /\ \A q \in Recs : q \in Nat \ {0}
           /\ overrun \subseteq Nat
<1>1. \A t \in Conns : \A q \in Contents(stream[t]) : q \in Recs \cup {Hdr, Frag}
  BY ElementOfSeq, LenProperties DEF TypeOK, Contents
<1>2. \A q \in Contents(queue) : q \in Recs
  BY ElementOfSeq, LenProperties DEF TypeOK, Contents
<1> QED
  BY <1>1, <1>2, ConstantsAssumption DEF TypeOK, Recs

(* The driver's callback takes up a record, the youngest of all. *)
LEMMA FeedCapture ==
    ASSUME TypeOK, FeedInv, CaptureRecord
    PROVE  FeedInv'
<1>1. /\ rx = 0 /\ rx' = made + 1 /\ made' = made + 1 /\ made \in Nat
      /\ Limit' = Limit
      /\ UNCHANGED <<apc, accepted, stream, queue, item, tpc, overrun, peer>>
  BY DEF CaptureRecord, accVars, taskVars, netVars, TypeOK, Limit
<1>2. /\ \A m \in 1 .. made : Ahead(m) => Ahead(m)'
      /\ \A m : m = made + 1 => Ahead(m)'
  BY <1>1, FeedElements DEF Ahead
<1>3. \A q \in Nat \ {0} : (\A m \in q + 1 .. made : Ahead(m)) =>
                            \A m \in q + 1 .. made' : Ahead(m)'
  BY <1>1, <1>2
<1>4. QueueKnown'
  <2>1. \A q \in Contents(queue) :
          q \in Nat \ {0} /\ q \notin overrun /\ \A m \in q + 1 .. made : Ahead(m)
    BY FeedElements DEF FeedInv, QueueKnown
  <2> QED
    BY <1>1, <1>3, <2>1 DEF FeedInv, QueueKnown
<1>5. ASSUME NEW t \in Conns
      PROVE  FeedOf(t)'
  <2>1. FeedOf(t)
    BY DEF FeedInv
  <2>2. Holds(t)' <=> Holds(t)
    BY <1>1 DEF Holds
  <2>3. Holds(t) /\ item[t] # Hdr => \A m \in item[t] + 1 .. made' : Ahead(m)'
    BY <1>3, <2>1, FeedElements DEF FeedOf
  <2>4. ASSUME peer[t] = "up", NEW q \in Contents(stream[t]), q # Hdr,
               NEW m \in q + 1 .. made'
        PROVE  Accounted(t, m)'
    <3>1. q \in Nat /\ q > 0
      BY <2>1, <2>4, FeedElements DEF FeedOf
    <3>2. CASE m = made + 1
      BY <1>2, <3>2 DEF Accounted
    <3>3. CASE m \in q + 1 .. made
      <4>1. Accounted(t, m) /\ m \in 1 .. made
        BY <2>1, <2>4, <3>1, <3>3, <1>1 DEF FeedOf
      <4> QED
        BY <1>1, <1>2, <2>2, <4>1 DEF Accounted
    <3> QED
      BY <1>1, <3>1, <3>2, <3>3
  <2> QED
    BY <1>1, <2>1, <2>2, <2>3, <2>4 DEF FeedOf
<1> QED
  BY <1>1, <1>4, <1>5 DEF FeedInv

(* xQueueSend puts the record into the queue or drops it. *)
LEMMA FeedQueue ==
    ASSUME TypeOK, DeliveryInv, FeedInv, AddQueue
    PROVE  FeedInv'
<1>1. /\ rx # 0 /\ rx' = 0 /\ rx = made /\ rx \in Recs /\ made \in Nat
      /\ Limit = made /\ Limit' = made + 1
      /\ UNCHANGED <<apc, accepted, made, stream, item, tpc, peer>>
  BY DEF AddQueue, accVars, taskVars, netVars, TypeOK, Limit, FeedInv, QueueKnown
<1>2. \/ queue' = Append(queue, rx) /\ overrun' = overrun
      \/ overrun' = overrun \cup {rx} /\ queue' = queue
  BY DEF AddQueue
<1>3. \/ Contents(queue') = Contents(queue) \cup {rx} /\ overrun' = overrun
      \/ Contents(queue') = Contents(queue) /\ overrun' = overrun \cup {rx}
  <2>1. queue \in Seq(Recs)
    BY DEF TypeOK
  <2>2. Contents(Append(queue, rx)) = Contents(queue) \cup {rx}
    BY <1>1, <2>1, AppendElements
  <2> QED
    BY <1>2, <2>2
<1>4. \A m \in 1 .. made : Ahead(m) => Ahead(m)'
  BY <1>1, <1>3 DEF Ahead
<1>5. \A q \in Nat \ {0} : (\A m \in q + 1 .. made : Ahead(m)) =>
                            \A m \in q + 1 .. made : Ahead(m)'
  BY <1>1, <1>4
<1>6. QueueKnown'
  <2>1. \A q \in Contents(queue) :
          /\ q \in Nat \ {0} /\ q \notin overrun /\ q < rx
          /\ \A m \in q + 1 .. made : Ahead(m)
    <3>1. \A q \in Contents(queue) : q \in Nat \ {0}
      BY FeedElements
    <3>2. \A q \in Contents(queue) : q < rx
      BY <1>1 DEF DeliveryInv, Contents
    <3> QED
      BY <3>1, <3>2 DEF FeedInv, QueueKnown
  <2>2. \A m \in overrun : m < rx
    BY <1>1 DEF FeedInv, QueueKnown
  <2>3. \A m \in overrun' : m < made + 1
    BY <1>1, <1>2, <2>2, FeedElements
  <2>4. ASSUME NEW q \in Contents(queue')
        PROVE  q \notin overrun' /\ \A m \in q + 1 .. made : Ahead(m)'
    <3>1. CASE q \in Contents(queue)
      BY <1>1, <1>2, <1>5, <2>1, <3>1
    <3>2. CASE q = rx /\ overrun' = overrun
      BY <1>1, <2>2, <3>2
    <3> QED
      BY <1>3, <2>4, <3>1, <3>2
  <2> QED
    BY <1>1, <2>3, <2>4 DEF QueueKnown
<1>7. ASSUME NEW t \in Conns
      PROVE  FeedOf(t)'
  <2>1. FeedOf(t)
    BY DEF FeedInv
  <2>2. Holds(t)' <=> Holds(t)
    BY <1>1 DEF Holds
  <2>3. ASSUME Holds(t), item[t] # Hdr
        PROVE  item[t] \notin overrun' /\ \A m \in item[t] + 1 .. made : Ahead(m)'
    <3>0. item[t] < Limit
      BY <2>3 DEF DeliveryInv, HeldInv
    <3>1. item[t] \in Nat \ {0} /\ item[t] < rx
      BY <1>1, <2>3, <3>0, FeedElements
    <3> QED
      BY <1>1, <1>2, <1>5, <2>1, <2>3, <3>1 DEF FeedOf
  <2>4. ASSUME peer[t] = "up", NEW q \in Contents(stream[t]), q # Hdr,
               NEW m \in q + 1 .. made
        PROVE  Accounted(t, m)'
    <3>1. q \in Nat /\ q > 0
      BY <2>1, <2>4, FeedElements DEF FeedOf
    <3>2. Accounted(t, m) /\ m \in 1 .. made
      BY <2>1, <2>4, <3>1, <1>1 DEF FeedOf
    <3> QED
      BY <1>1, <1>4, <2>2, <3>2 DEF Accounted
  <2> QED
    BY <1>1, <2>1, <2>2, <2>3, <2>4 DEF FeedOf
<1> QED
  BY <1>1, <1>6, <1>7 DEF FeedInv

(* The one task that lives, and the connection it writes to. *)
LEMMA TheTask ==
    ASSUME TypeOK, SessionInv, NEW t \in Conns, Live(t)
    PROVE  /\ t = accepted /\ apc = "accept"
           /\ \A u \in Conns \ {t} : tpc[u] \in {"none", "dead"}
           /\ tpc[t] = "send" => tfd[t] # 0 /\ Target(t) = t
<1>1. /\ t = accepted /\ apc = "accept"
      /\ \A u \in Conns \ {t} : ~ Live(u)
  BY DEF SessionInv
<1>2. ASSUME tpc[t] = "send"
      PROVE  tfd[t] # 0 /\ Target(t) = t
  <2>1. tfd[t] = sock /\ sock # 0 /\ owner[sock] = t
    BY <1>2 DEF SessionInv, Working
  <2> QED
    BY <2>1 DEF Target, TypeOK
<1> QED
  BY <1>1, <1>2 DEF Live, TypeOK

(* Taking the head of a queue that is in order. *)
LEMMA QueueTail ==
    ASSUME TypeOK, QueueInOrder, queue # <<>>
    PROVE  /\ Head(queue) \in Recs
           /\ Contents(queue) = Contents(Tail(queue)) \cup {Head(queue)}
           /\ \A q \in Contents(Tail(queue)) : Head(queue) < q
           /\ \A c \in Conns : \A r \in Contents(stream[c]) : r < Head(queue)
<1>1. /\ 1 \in DOMAIN queue
      /\ Head(queue) = queue[1]
      /\ \A i \in DOMAIN Tail(queue) : /\ i \in Nat /\ i >= 1 /\ i + 1 \in DOMAIN queue
                                       /\ Tail(queue)[i] = queue[i + 1]
  BY TailElements DEF TypeOK
<1>2. \A i \in DOMAIN queue : i # 1 => i - 1 \in DOMAIN Tail(queue) /\ i - 1 + 1 = i
  <2>1. /\ Tail(queue) \in Seq(Recs) /\ Len(Tail(queue)) = Len(queue) - 1
        /\ DOMAIN queue = 1 .. Len(queue) /\ Len(queue) \in Nat
    BY HeadTailType, TailElements, LenProperties DEF TypeOK
  <2>2. DOMAIN Tail(queue) = 1 .. Len(queue) - 1
    BY <2>1, LenProperties
  <2> QED
    BY <2>1, <2>2
<1>3. Contents(queue) = Contents(Tail(queue)) \cup {Head(queue)}
  <2>1. Contents(Tail(queue)) \cup {Head(queue)} \subseteq Contents(queue)
    BY <1>1 DEF Contents
  <2>2. ASSUME NEW i \in DOMAIN queue
        PROVE  queue[i] \in Contents(Tail(queue)) \cup {Head(queue)}
    <3>1. CASE i = 1
      BY <1>1, <3>1
    <3>2. CASE i # 1
      <4>1. i - 1 \in DOMAIN Tail(queue) /\ Tail(queue)[i - 1] = queue[i]
        BY <1>1, <1>2, <3>2
      <4> QED
        BY <4>1 DEF Contents
    <3> QED
      BY <3>1, <3>2
  <2> QED
    BY <2>1, <2>2 DEF Contents
<1>4. \A q \in Contents(Tail(queue)) : Head(queue) < q
  BY <1>1 DEF Contents, QueueInOrder
<1>5. Head(queue) \in Recs
  BY HeadTailType DEF TypeOK
<1> QED
  BY <1>1, <1>3, <1>4, <1>5 DEF QueueInOrder

(* A sniffer task takes a record from the queue. *)
LEMMA FeedReceive ==
    ASSUME TypeOK, SessionInv, DeliveryInv, FeedInv, NEW t \in Conns, Receive(t)
    PROVE  FeedInv'
<1> DEFINE h == Head(queue)
<1>1. /\ tpc[t] = "loop" /\ queue # <<>> /\ queue' = Tail(queue)
      /\ tpc' = [tpc EXCEPT ![t] = "check"]
      /\ item' = [item EXCEPT ![t] = Head(queue)]
      /\ UNCHANGED <<apc, accepted, stream, rx, made, overrun, peer>>
  BY DEF Receive, Goto, accVars, radioVars, netVars
<1>2. /\ h \in Recs /\ h \in Contents(queue)
      /\ Contents(queue) = Contents(queue') \cup {h}
      /\ \A q \in Contents(queue') : h < q
      /\ \A c \in Conns : \A r \in Contents(stream[c]) : r < h
  BY <1>1, QueueTail DEF DeliveryInv
<1>3. \A m : Ahead(m) => Ahead(m)' \/ m = h
  BY <1>1, <1>2 DEF Ahead
<1>4. \A q \in Contents(queue) :
        q \in Nat /\ q >= h /\ q \notin overrun /\ \A m \in q + 1 .. made : Ahead(m)'
  <2> SUFFICES ASSUME NEW q \in Contents(queue)
               PROVE  q \in Nat /\ q >= h /\ q \notin overrun /\ \A m \in q + 1 .. made : Ahead(m)'
    OBVIOUS
  <2>1. q \in Nat /\ h \in Nat /\ made \in Nat /\ q >= h
    BY <1>2, FeedElements
  <2>2. q \notin overrun /\ \A m \in q + 1 .. made : Ahead(m)
    BY DEF FeedInv, QueueKnown
  <2> QED
    BY <1>3, <2>1, <2>2
<1>5. QueueKnown'
  BY <1>1, <1>2, <1>4 DEF FeedInv, QueueKnown, Limit
<1>6. /\ t = accepted
      /\ \A u \in Conns \ {t} : tpc[u] \in {"none", "dead"}
  BY <1>1, TheTask DEF Live
<1>7. ASSUME NEW u \in Conns \ {t}
      PROVE  FeedOf(u)'
  <2>1. tpc'[u] \in {"none", "dead"} /\ ~ Holds(u)'
    BY <1>1, <1>6 DEF Holds, TypeOK
  <2>2. peer[u] # "up"
    BY <1>6 DEF FeedInv, FeedOf
  <2> QED
    BY <1>1, <2>1, <2>2 DEF FeedInv, FeedOf
<1>8. FeedOf(t)'
  <2>1. FeedOf(t)
    BY DEF FeedInv
  <2>2. tpc'[t] = "check" /\ Holds(t)' /\ item'[t] = h /\ ~ Holds(t)
    BY <1>1 DEF Holds, TypeOK
  <2>3. h # Hdr
    <3>1. \A r \in Recs : r # 0
      BY FeedElements
    <3> QED
      BY <1>2, <3>1
  <2>4. \A m : Accounted(t, m) => Accounted(t, m)'
    BY <1>1, <1>3, <2>2 DEF Accounted
  <2>5. peer[t] = "up" => stream[t] # <<>>
    BY <1>1, <2>1 DEF FeedOf
  <2>6. peer[t] = "up" =>
          /\ Frag \notin Contents(stream[t])
          /\ \A q \in Contents(stream[t]) : \A m \in q + 1 .. made :
               q # Hdr => Accounted(t, m)'
    BY <2>1, <2>4 DEF FeedOf
  <2>8. ~ (t > accepted') /\ t = accepted'
    BY <1>1, <1>6 DEF Conns
  <2>7. h \notin overrun /\ \A m \in h + 1 .. made : Ahead(m)'
    BY <1>2, <1>4
  <2> QED
    BY <1>1, <1>2, <1>6, <2>2, <2>3, <2>5, <2>6, <2>7, <2>8 DEF FeedOf
<1> QED
  BY <1>1, <1>5, <1>6, <1>7, <1>8, TheTask DEF FeedInv, Live

(* The task that lives sends its client an item in full, or a part of one  *)
(* that breaks the connection off.                                         *)
LEMMA FeedSend ==
    ASSUME TypeOK, SessionInv, FeedInv, NEW t \in Conns, Live(t), tpc[t] = "send",
           NEW i \in Recs \cup {Hdr, Frag}, Sent(t, i),
           NEW l \in {"loop", "close"}, Goto(t, l),
           UNCHANGED <<apc, accepted, queue, item, rx, made, overrun>>,
           \A u \in Conns \ {t} : peer'[u] = peer[u],
           peer'[t] = "up" => peer[t] = "up" /\ i = item[t]
    PROVE  FeedInv'
<1>1. /\ t = accepted /\ apc = "accept"
      /\ \A u \in Conns \ {t} : tpc[u] \in {"none", "dead"}
  BY TheTask
<1>2. /\ Contents(stream'[t]) = Contents(stream[t]) \cup {i}
      /\ stream'[t] # <<>>
      /\ \A u \in Conns \ {t} : stream'[u] = stream[u]
  <2>1. stream[t] \in Seq(Recs \cup {Hdr, Frag}) /\ stream'[t] = Append(stream[t], i)
    BY DEF TypeOK, Sent
  <2>2. Len(stream'[t]) = Len(stream[t]) + 1 /\ Len(stream[t]) \in Nat
    BY <2>1, AppendElements
  <2>3. stream'[t] # <<>>
    BY <2>1, <2>2, AppendProperties, EmptySeq
  <2>4. Contents(stream'[t]) = Contents(stream[t]) \cup {i}
    BY <2>1, AppendElements
  <2>5. \A u \in Conns \ {t} : stream'[u] = stream[u]
    BY DEF TypeOK, Sent
  <2> QED
    BY <2>3, <2>4, <2>5
<1>3. QueueKnown'
  BY DEF FeedInv, QueueKnown, Limit, Ahead
<1>4. ASSUME NEW u \in Conns \ {t}
      PROVE  FeedOf(u)'
  <2>1. tpc'[u] \in {"none", "dead"} /\ ~ Holds(u)'
    BY <1>1 DEF Holds, TypeOK, Goto
  <2>2. peer'[u] # "up"
    BY <1>1 DEF FeedInv, FeedOf
  <2> QED
    BY <1>2, <2>1, <2>2 DEF FeedInv, FeedOf
<1>5. FeedOf(t)'
  <2>1. FeedOf(t)
    BY DEF FeedInv
  <2>2. Holds(t) /\ tpc'[t] = l /\ ~ Holds(t)'
    BY DEF Holds, Goto, TypeOK
  <2>3. ASSUME peer'[t] = "up"
        PROVE  /\ Frag \notin Contents(stream'[t])
               /\ \A q \in Contents(stream'[t]) : \A m \in q + 1 .. made :
                    q # Hdr => Accounted(t, m)'
    <3>0. peer[t] = "up" /\ i = item[t]
      BY <2>3
    <3>1. peer[t] = "up" /\ i = item[t] /\ i # Frag
      BY <3>0, FeedElements
    <3>2. \A m : Accounted(t, m) => Accounted(t, m)'
      BY <1>2, <2>2, <3>1 DEF Accounted, Ahead
    <3>3. \A m : Ahead(m) => Accounted(t, m)'
      BY DEF Accounted, Ahead
    <3>4. i # Hdr => \A m \in i + 1 .. made : Ahead(m)
      BY <2>1, <2>2, <3>1 DEF FeedOf
    <3>5. \A q \in Contents(stream[t]) : \A m \in q + 1 .. made :
            q # Hdr => Accounted(t, m)
      BY <2>1, <3>1 DEF FeedOf
    <3>6. Frag \notin Contents(stream[t])
      BY <2>1, <3>1 DEF FeedOf
    <3> QED
      BY <1>2, <3>1, <3>2, <3>3, <3>4, <3>5, <3>6
  <2> QED
    BY <1>1, <1>2, <2>2, <2>3, ConstantsAssumption DEF FeedOf, Conns
<1> QED
  BY <1>1, <1>3, <1>4, <1>5 DEF FeedInv

(* The steps of a sniffer task that send nothing and take nothing. *)
LEMMA FeedSteps ==
    ASSUME TypeOK, SessionInv, FeedInv, NEW t \in Conns,
           \/ InitSniffer(t) \/ CheckSock(t) \/ LoadSock(t) \/ SendLost(t)
           \/ SendFails(t) /\ UNCHANGED stream
           \/ CloseSock(t) \/ ClearSock(t) \/ DeinitSniffer(t) \/ DeleteTask(t)
    PROVE  FeedInv' /\ UNCHANGED <<stream, made, overrun>>
<1>1. Live(t)
  BY DEF InitSniffer, CheckSock, LoadSock, SendLost, SendFails, CloseSock, ClearSock,
         DeinitSniffer, DeleteTask, Live
<1>2. /\ t = accepted /\ apc = "accept"
      /\ \A u \in Conns \ {t} : tpc[u] \in {"none", "dead"}
      /\ tpc[t] = "send" => tfd[t] # 0 /\ Target(t) = t
  BY <1>1, TheTask
<1>3. /\ UNCHANGED <<stream, queue, rx, made, overrun, apc, accepted>>
      /\ \A u \in Conns \ {t} : tpc'[u] = tpc[u] /\ item'[u] = item[u]
      /\ \A u \in Conns : peer'[u] = "up" => peer[u] = "up"
  <2>1. CASE DeleteTask(t)
    <3>1. handle = t
      BY <1>1 DEF SessionInv
    <3> QED
      BY <2>1, <3>1 DEF DeleteTask, accVars, radioVars, netVars, TypeOK
  <2>2. CASE SendFails(t) /\ UNCHANGED stream
    BY <2>2, <1>2 DEF SendFails, Goto, accVars, radioVars, TypeOK
  <2>3. CASE InitSniffer(t)
    BY <2>3 DEF InitSniffer, Goto, accVars, radioVars, netVars, TypeOK
  <2>4. CASE CheckSock(t) \/ LoadSock(t) \/ SendLost(t) \/ CloseSock(t) \/ ClearSock(t)
             \/ DeinitSniffer(t)
    BY <2>4 DEF CheckSock, LoadSock, SendLost, CloseSock, ClearSock, DeinitSniffer,
                Goto, accVars, radioVars, netVars, TypeOK
  <2> QED
    BY <2>1, <2>2, <2>3, <2>4
<1>4. \/ /\ tpc[t] = "init" /\ tpc'[t] = "check" /\ item'[t] = Hdr
      \/ /\ tpc[t] \in {"check", "load"} /\ tpc'[t] \in {"load", "send"}
         /\ item'[t] = item[t]
      \/ /\ tpc[t] = "send" /\ tpc'[t] \in {"loop", "close"} /\ peer'[t] # "up"
      \/ /\ tpc[t] \in {"close", "clear", "deinit", "delete"}
         /\ tpc'[t] \in {"clear", "deinit", "delete", "dead"}
  <2>1. CASE DeleteTask(t)
    <3>1. handle = t
      BY <1>1 DEF SessionInv
    <3>2. tpc[t] = "delete" /\ tpc'[t] = "dead"
      BY <2>1, <3>1 DEF DeleteTask, TypeOK
    <3> QED
      BY <3>2
  <2>2. CASE SendFails(t) /\ UNCHANGED stream
    <3>1. tpc[t] = "send" /\ tpc'[t] = "close"
      BY <2>2 DEF SendFails, Goto, TypeOK
    <3>2. peer'[t] # "up"
      BY <2>2, <1>2, ConstantsAssumption DEF SendFails, TypeOK, Conns
    <3> QED
      BY <3>1, <3>2
  <2>3. CASE InitSniffer(t)
    BY <2>3 DEF InitSniffer, Goto, TypeOK
  <2>4. CASE CheckSock(t)
    <3>1. tpc[t] = "check" /\ sock # 0
      BY <2>4 DEF CheckSock, SessionInv, Working
    <3> QED
      BY <2>4, <3>1 DEF CheckSock, Goto, TypeOK
  <2>5. CASE LoadSock(t)
    BY <2>5 DEF LoadSock, Goto, TypeOK
  <2>6. CASE SendLost(t)
    <3>1. tpc[t] = "send" /\ tpc'[t] = "loop"
      BY <2>6 DEF SendLost, Goto, TypeOK
    <3>2. peer[t] = "down" /\ peer' = peer
      BY <2>6, <1>2, <3>1 DEF SendLost, netVars
    <3> QED
      BY <3>1, <3>2
  <2>7. CASE CloseSock(t) \/ ClearSock(t) \/ DeinitSniffer(t)
    BY <2>7 DEF CloseSock, ClearSock, DeinitSniffer, Goto, TypeOK
  <2> QED
    BY <2>1, <2>2, <2>3, <2>4, <2>5, <2>6, <2>7
<1>5. FeedOf(t)
  BY DEF FeedInv
<1>6. \A u \in Conns : peer'[u] = "up" => u = accepted
  BY <1>3 DEF FeedInv, FeedOf
<1>7. ASSUME NEW u \in Conns
      PROVE  /\ tpc'[u] = "init" => stream[u] = <<>>
             /\ Holds(u)' => \/ Holds(u) /\ item'[u] = item[u]
                             \/ item'[u] = Hdr /\ stream[u] = <<>>
             /\ peer'[u] = "up" =>
                  /\ u = accepted'
                  /\ \/ /\ stream[u] = <<>> /\ tpc'[u] # "loop"
                        /\ Holds(u)' => item'[u] = Hdr
                     \/ /\ peer[u] = "up"
                        /\ tpc'[u] = "loop" => tpc[u] = "loop"
                        /\ Holds(u) => Holds(u)' /\ item'[u] = item[u]
  <2>1. CASE u = t
    <3>1. tpc[t] = "init" => stream[t] = <<>> /\ ~ Holds(t)
      BY <1>5 DEF FeedOf, Holds
    <3>2. peer'[t] = "up" => t = accepted' /\ peer[t] = "up"
      BY <1>3, <1>6
    <3>3. CASE tpc[t] = "init" /\ tpc'[t] = "check" /\ item'[t] = Hdr
      BY <2>1, <3>1, <3>2, <3>3
    <3>4. CASE /\ tpc[t] \in {"check", "load"} /\ tpc'[t] \in {"load", "send"}
               /\ item'[t] = item[t]
      <4>1. Holds(t) /\ Holds(t)' /\ tpc'[t] # "init" /\ tpc'[t] # "loop"
        BY <3>4 DEF Holds
      <4> QED
        BY <2>1, <3>2, <3>4, <4>1 DEF Holds
    <3>5. CASE tpc[t] = "send" /\ tpc'[t] \in {"loop", "close"} /\ peer'[t] # "up"
      BY <2>1, <3>5 DEF Holds
    <3>6. CASE /\ tpc[t] \in {"close", "clear", "deinit", "delete"}
               /\ tpc'[t] \in {"clear", "deinit", "delete", "dead"}
      BY <2>1, <3>2, <3>6 DEF Holds
    <3> QED
      BY <1>4, <3>3, <3>4, <3>5, <3>6
  <2>2. CASE u # t
    BY <1>2, <1>3, <1>6, <2>2 DEF Holds
  <2> QED
    BY <2>1, <2>2
<1> QED
  BY <1>2, <1>3, <1>7, FeedQuiet

(* A sniffer task's step is a step of PcapFeed, or none of its business.   *)
LEMMA FeedSniffer ==
    ASSUME ~ ShortWrites, TypeOK, SessionInv, DeliveryInv, FeedInv,
           NEW t \in Conns, Sniffer(t)
    PROVE  FeedInv' /\ [Feed!FeedNext]_Feed!feedVars
<1> USE DEF Feed!Hdr, Feed!Frag
<1>1. CASE \/ InitSniffer(t) \/ CheckSock(t) \/ LoadSock(t) \/ SendLost(t)
           \/ SendFails(t) /\ UNCHANGED stream
           \/ CloseSock(t) \/ ClearSock(t) \/ DeinitSniffer(t) \/ DeleteTask(t)
  BY <1>1, FeedSteps DEF Feed!feedVars
<1>2. CASE Receive(t)
  <2>1. FeedInv'
    BY <1>2, FeedReceive
  <2>2. UNCHANGED <<stream, made, overrun>>
    BY <1>2 DEF Receive, radioVars, netVars
  <2> QED
    BY <2>1, <2>2 DEF Feed!feedVars
<1>3. CASE SendShort(t)
  BY <1>3 DEF SendShort
<1>a. ASSUME tpc[t] = "send"
      PROVE  /\ Live(t) /\ Holds(t) /\ Target(t) = t
             /\ t = accepted
             /\ Feed!Newest(t)
             /\ peer[t] = "up" => ~ Feed!Ended(stream[t])
  <2>1. Live(t) /\ Holds(t)
    BY <1>a DEF Live, Holds
  <2>2. t = accepted /\ Target(t) = t
    BY <1>a, <2>1, TheTask
  <2>3. Feed!Newest(t)
    BY <2>2 DEF Feed!Newest, FeedInv, FeedOf
  <2>4. ASSUME peer[t] = "up", stream[t] # <<>>
        PROVE  stream[t][Len(stream[t])] # Frag
    <3>1. Len(stream[t]) \in DOMAIN stream[t]
      <4>1. stream[t] \in Seq(Recs \cup {Hdr, Frag})
        BY DEF TypeOK
      <4> QED
        BY <2>4, <4>1, EmptySeq, LenProperties
    <3>2. Frag \notin Contents(stream[t])
      BY <2>4 DEF FeedInv, FeedOf
    <3> QED
      BY <3>1, <3>2 DEF Contents
  <2> QED
    BY <2>1, <2>2, <2>3, <2>4 DEF Feed!Ended
<1>4. CASE SendWhole(t)
  <2>1. /\ tpc[t] = "send" /\ Goto(t, "loop")
        /\ Sent(Target(t), item[t]) /\ peer[Target(t)] = "up"
        /\ UNCHANGED <<apc, accepted, queue, item, rx, made, overrun, peer>>
    BY <1>4 DEF SendWhole, accVars, radioVars
  <2>2. Sent(t, item[t]) /\ peer[t] = "up" /\ Live(t)
    BY <2>1, <1>a
  <2>3. item[t] \in Recs \cup {Hdr, Frag}
    BY DEF TypeOK
  <2>4. FeedInv'
    BY <2>1, <2>2, <2>3, FeedSend
  <2>5. FeedOf(t)
    BY DEF FeedInv
  <2>6. stream' = [stream EXCEPT ![t] = Append(stream[t], item[t])]
    BY <2>2 DEF Sent
  <2>7. CASE item[t] = Hdr
    <3>1. stream[t] = <<>>
      BY <1>a, <2>1, <2>5, <2>7 DEF FeedOf
    <3>2. Append(<<>>, Hdr) = <<Hdr>>
      OBVIOUS
    <3>3. stream' = [stream EXCEPT ![t] = <<Hdr>>]
      BY <2>6, <2>7, <3>1, <3>2
    <3>4. Feed!Open(t)
      BY <1>a, <2>1, <3>1, <3>3 DEF Feed!Open
    <3> QED
      BY <2>4, <3>4 DEF Feed!FeedNext
  <2>8. CASE item[t] # Hdr
    <3>1. /\ item[t] \notin overrun
          /\ \A d \in Conns : \A q \in Contents(stream[d]) : q < item[t]
      BY <1>a, <2>1, <2>5, <2>8 DEF FeedOf
    <3>2. stream[t] # <<>>
      BY <1>a, <2>1, <2>2, <2>5, <2>8 DEF FeedOf
    <3>3. item[t] \in Recs /\ item[t] \in Nat \ {0} /\ made \in Nat /\ rx \in Nat
      BY <2>8, FeedElements
    <3>4. item[t] < Limit /\ \A m \in Contents(queue) : item[t] < m
      BY <1>a, <2>1 DEF DeliveryInv, HeldInv, Contents
    <3>5. item[t] \in 1 .. made
      BY <3>3, <3>4 DEF Limit, DeliveryInv
    <3>6. ASSUME NEW q \in Contents(stream[t]), q # Hdr, NEW m \in q + 1 .. item[t] - 1
          PROVE  m \in Contents(stream[t]) \cup overrun
      <4>1. q \in Nat /\ m \in Nat /\ m < item[t] /\ m > 0 /\ m \in q + 1 .. made
        <5>1. q \in Recs /\ q \in Nat
          BY <2>2, <2>5, <3>6, FeedElements DEF FeedOf
        <5> QED
          BY <3>3, <3>5, <5>1
      <4>2. Accounted(t, m)
        BY <2>2, <2>5, <3>6, <4>1 DEF FeedOf
      <4>3. m \notin Contents(queue)
        BY <3>3, <3>4, <4>1, FeedElements
      <4>4. m # rx
        BY <3>3, <3>4, <4>1 DEF Limit
      <4> QED
        BY <4>1, <4>2, <4>3, <4>4, <3>3 DEF Accounted, Ahead
    <3>7. Feed!Continues(stream[t], item[t])
      BY <3>6 DEF Feed!Continues, Feed!Contents, Contents
    <3>8. Feed!Deliver(t, item[t])
      BY <1>a, <2>1, <2>2, <2>6, <3>1, <3>2, <3>7 DEF Feed!Deliver, Feed!Contents, Contents
    <3> QED
      BY <2>4, <3>5, <3>8 DEF Feed!FeedNext
  <2> QED
    BY <2>7, <2>8
<1>5. CASE SendFails(t) /\ ~ UNCHANGED stream
  <2>1. /\ tpc[t] = "send" /\ Goto(t, "close")
        /\ Sent(Target(t), Frag) /\ peer[Target(t)] = "up"
        /\ peer' = [peer EXCEPT ![Target(t)] = "down"]
        /\ UNCHANGED <<apc, accepted, queue, item, rx, made, overrun>>
    BY <1>5 DEF SendFails, accVars, radioVars
  <2>2. Sent(t, Frag) /\ peer[t] = "up" /\ Live(t)
    BY <2>1, <1>a
  <2>3. peer'[t] = "down" /\ \A u \in Conns \ {t} : peer'[u] = peer[u]
    BY <2>1, <1>a DEF TypeOK
  <2>4. FeedInv'
    BY <2>1, <2>2, <2>3, FeedSend
  <2>5. Feed!BreakOff(t)
    BY <1>a, <2>1, <2>2 DEF Feed!BreakOff, Sent
  <2> QED
    BY <2>4, <2>5 DEF Feed!FeedNext
<1> QED
  BY <1>1, <1>2, <1>3, <1>4, <1>5 DEF Sniffer

(* The other steps, too, are steps of PcapFeed or change nothing it has. *)
LEMMA FeedNextStep ==
    ASSUME ~ ShortWrites, OneClient, TypeOK, SessionInv, DeliveryInv, FeedInv, [Next]_vars
    PROVE  FeedInv' /\ [Feed!FeedNext]_Feed!feedVars
<1>1. CASE Accept
  <2>1. \A t \in Conns : ~ Live(t) /\ peer[t] # "up"
    BY <1>1 DEF Accept, SessionOver
  <2>2. /\ UNCHANGED <<stream, queue, rx, made, overrun, tpc, item>>
        /\ accepted' = accepted + 1 /\ accepted + 1 \in Conns
        /\ peer' = [peer EXCEPT ![accepted + 1] = "up"]
    BY <1>1, ConstantsAssumption DEF Accept, taskVars, radioVars, TypeOK, Conns
  <2>3. stream[accepted + 1] = <<>>
    BY <2>2 DEF FeedInv, FeedOf, Conns, TypeOK
  <2>4. \A t \in Conns : ~ Holds(t)' /\ ~ Holds(t) /\ tpc[t] \notin {"init", "loop"}
    BY <2>1, <2>2 DEF Holds, Live
  <2>5. \A t \in Conns : peer'[t] = "up" => t = accepted + 1
    BY <2>1, <2>2 DEF TypeOK
  <2>6. FeedInv'
    BY <2>2, <2>3, <2>4, <2>5, FeedQuiet
  <2> QED
    BY <2>2, <2>6 DEF Feed!feedVars
<1>2. CASE DisconnectOld \/ SetSock \/ CreateTask
  <2>1. /\ apc # "accept" /\ stream[accepted] = <<>>
        /\ UNCHANGED <<stream, queue, rx, made, overrun, item, accepted, peer>>
    BY <1>2 DEF DisconnectOld, SetSock, CreateTask, taskVars, radioVars, netVars, FeedInv
  <2>2. \A t \in Conns : tpc[t] \in {"none", "dead"}
    BY <2>1 DEF SessionInv, Live, TypeOK
  <2>3. \A t \in Conns : tpc'[t] = tpc[t] \/ (tpc'[t] = "init" /\ t = accepted)
    BY <1>2 DEF DisconnectOld, SetSock, CreateTask, taskVars, TypeOK
  <2>4. \A t \in Conns : /\ ~ Holds(t)' /\ ~ Holds(t) /\ tpc'[t] # "loop"
                         /\ tpc'[t] = "init" => t = accepted
    BY <2>2, <2>3 DEF Holds
  <2>5. \A t \in Conns : peer[t] = "up" => t = accepted
    BY DEF FeedInv, FeedOf
  <2>6. FeedInv'
    BY <2>1, <2>4, <2>5, FeedQuiet
  <2> QED
    BY <2>1, <2>6 DEF Feed!feedVars
<1>3. CASE CaptureRecord
  <2>1. made < MaxRecs /\ made' = made + 1 /\ UNCHANGED <<overrun, stream>>
    BY <1>3 DEF CaptureRecord, netVars
  <2>2. Feed!Capture
    BY <2>1 DEF Feed!Capture
  <2> QED
    BY <1>3, <2>2, FeedCapture DEF Feed!FeedNext
<1>4. CASE AddQueue
  <2>1. FeedInv'
    BY <1>4, FeedQueue
  <2>2. rx # 0 /\ rx = made /\ made \in Nat /\ UNCHANGED <<made, stream>>
    BY <1>4 DEF AddQueue, netVars, FeedInv, QueueKnown, TypeOK
  <2>3. CASE overrun' = overrun
    BY <2>1, <2>2, <2>3 DEF Feed!feedVars
  <2>4. CASE overrun' = overrun \cup {rx}
    <3>1. \A c \in Conns : \A r \in Contents(stream[c]) : r < made
      BY <2>2 DEF DeliveryInv, Limit
    <3>2. \A c \in Conns : made \notin Contents(stream[c])
      BY <2>2, <3>1
    <3>3. Feed!Overrun
      BY <2>2, <2>4, <3>2 DEF Feed!Overrun, Feed!Contents, Contents
    <3> QED
      BY <2>1, <3>3 DEF Feed!FeedNext
  <2> QED
    BY <1>4, <2>3, <2>4 DEF AddQueue
<1>5. ASSUME NEW t \in Conns, Sniffer(t)
      PROVE  FeedInv' /\ [Feed!FeedNext]_Feed!feedVars
  BY <1>5, FeedSniffer
<1>6. CASE (\E c \in Conns : PeerCloses(c)) \/ UNCHANGED vars
  <2>1. /\ UNCHANGED <<stream, queue, rx, made, overrun, tpc, item, apc, accepted>>
        /\ \A t \in Conns : peer'[t] = "up" => peer[t] = "up"
    BY <1>6 DEF PeerCloses, vars, accVars, taskVars, radioVars, netVars, TypeOK
  <2>2. \A t \in Conns : /\ Holds(t)' <=> Holds(t)
                         /\ tpc[t] = "init" => stream[t] = <<>>
                         /\ peer[t] = "up" => t = accepted
    BY <2>1 DEF Holds, FeedInv, FeedOf
  <2>3. apc' # "accept" => stream[accepted'] = <<>>
    BY <2>1 DEF FeedInv
  <2>4. FeedInv'
    BY <2>1, <2>2, <2>3, FeedQuiet
  <2> QED
    BY <2>1, <2>4 DEF Feed!feedVars
<1> QED
  BY <1>1, <1>2, <1>3, <1>4, <1>5, <1>6 DEF Next, Acceptor

(* FeedSpec: with one client at a time, and a write() that sends an item   *)
(* in full or fails, every connection carries the stream that PcapFeed     *)
(* promises (main.c, wifi_sniffer.c:463-551, capture_lib.c, tcp_server.c). *)
THEOREM FeedImplemented ==
    ASSUME OneClient, ~ ShortWrites
    PROVE  Spec => FeedSpec
<1>1. Init => FeedInv
  <2> SUFFICES ASSUME Init PROVE FeedInv
    OBVIOUS
  <2>1. \A t \in Conns : /\ tpc[t] = "none" /\ stream[t] = <<>> /\ peer[t] = "none"
                         /\ ~ Holds(t)
    BY DEF Init, Holds
  <2>2. overrun = {} /\ Contents(queue) = {} /\ rx = 0 /\ apc = "accept"
    BY DEF Init, Contents
  <2> QED
    BY <2>1, <2>2 DEF FeedInv, FeedOf, QueueKnown
<1>2. Init => Feed!FeedInit
  BY DEF Init, Feed!FeedInit
<1>3. TypeOK /\ SessionInv /\ DeliveryInv /\ FeedInv /\ [Next]_vars
        => FeedInv' /\ [Feed!FeedNext]_Feed!feedVars
  BY FeedNextStep
<1> QED
  BY <1>1, <1>2, <1>3, TypeCorrect, Sessions, DeliveryInvariant, PTL
     DEF Spec, FeedSpec, Feed!FeedSpec

-----------------------------------------------------------------------------
(* What follows from PcapFeed alone: every stream is a pcap file, and none *)
(* has a gap that an overrun of the queue does not explain.                *)

(* PcapFormat, for one stream. *)
Format(s) ==
    \A i \in DOMAIN s :
        /\ s[i] = Hdr => i = 1
        /\ i = 1 => s[i] \in {Hdr, Frag}
        /\ s[i] = Frag => i = Len(s)
        /\ \A j \in DOMAIN s : j < i /\ s[i] # Frag => s[j] < s[i]

LEMMA FormatAppend ==
    ASSUME NEW s \in Seq(Recs \cup {Hdr, Frag}), Format(s), ~ Feed!Ended(s),
           NEW e \in Recs \cup {Hdr, Frag},
           e = Hdr => s = <<>>,
           s = <<>> => e \in {Hdr, Frag},
           e \in Recs => \A q \in Contents(s) : q < e
    PROVE  Format(Append(s, e))
<1>1. /\ DOMAIN Append(s, e) = 1 .. Len(s) + 1
      /\ Len(Append(s, e)) = Len(s) + 1
      /\ \A i \in 1 .. Len(s) : Append(s, e)[i] = s[i]
      /\ Append(s, e)[Len(s) + 1] = e
      /\ DOMAIN s = 1 .. Len(s)
      /\ Len(s) \in Nat
  BY AppendElements
<1>2. \A i \in 1 .. Len(s) : s[i] # Frag
  BY <1>1 DEF Format, Feed!Ended, Feed!Frag
<1>3. Len(s) = 0 => e \in {Hdr, Frag}
  BY EmptySeq
<1>4. e \in Recs => \A j \in 1 .. Len(s) : s[j] < e
  BY <1>1 DEF Contents
<1>5. e = Hdr => Len(s) = 0
  BY EmptySeq
<1> DEFINE a == Append(s, e)
<1> HIDE DEF a
<1>6. ASSUME NEW i \in DOMAIN a
      PROVE  /\ a[i] = Hdr => i = 1
             /\ i = 1 => a[i] \in {Hdr, Frag}
             /\ a[i] = Frag => i = Len(a)
             /\ \A j \in DOMAIN a : j < i /\ a[i] # Frag => a[j] < a[i]
  <2>1. CASE i \in 1 .. Len(s)
    BY <1>1, <1>2, <2>1 DEF a, Format
  <2>2. CASE i = Len(s) + 1
    <3>1. a[i] = e /\ Len(a) = Len(s) + 1 /\ DOMAIN a = 1 .. Len(s) + 1
      BY <1>1, <2>2 DEF a
    <3>2. \A j \in DOMAIN a : j < i => j \in 1 .. Len(s) /\ a[j] = s[j]
      BY <1>1, <2>2, <3>1 DEF a
    <3>3. \A j \in DOMAIN a : j < i /\ a[i] # Frag => a[j] < a[i]
      BY <1>4, <1>5, <3>1, <3>2
    <3> QED
      BY <1>1, <1>3, <1>5, <2>2, <3>1, <3>3
  <2> QED
    BY <1>1, <2>1, <2>2 DEF a
<1> QED
  BY <1>6 DEF Format, a

(* PcapFormat: with one client at a time, and writes that are whole or     *)
(* fail, every connection carries a well-formed pcap stream: the header    *)
(* first and once, records in capture order, a broken item only as the     *)
(* last (capture_lib.c:7-40, wifi_sniffer.c:463-485, README.md:14).        *)
THEOREM StreamsWellFormed ==
    ASSUME OneClient, ~ ShortWrites
    PROVE  Spec => []PcapFormat
<1>1. Feed!FeedInit => PcapFormat
  BY DEF Feed!FeedInit, PcapFormat
<1>2. TypeOK /\ PcapFormat /\ [Feed!FeedNext]_Feed!feedVars => PcapFormat'
  <2> SUFFICES ASSUME TypeOK, PcapFormat, [Feed!FeedNext]_Feed!feedVars
               PROVE  PcapFormat'
    OBVIOUS
  <2>1. CASE UNCHANGED stream
    BY <2>1 DEF PcapFormat
  <2>2. ASSUME NEW c \in Conns, NEW e \in Recs \cup {Hdr, Frag}, ~ Feed!Ended(stream[c]),
               stream' = [stream EXCEPT ![c] = Append(@, e)],
               e = Hdr => stream[c] = <<>>,
               stream[c] = <<>> => e \in {Hdr, Frag},
               e \in Recs => \A q \in Contents(stream[c]) : q < e
        PROVE  PcapFormat'
    <3>1. \A d \in Conns : Format(stream[d])
      BY DEF PcapFormat, Format
    <3>2. stream[c] \in Seq(Recs \cup {Hdr, Frag})
      BY DEF TypeOK
    <3>3. Format(Append(stream[c], e))
      BY <2>2, <3>1, <3>2, FormatAppend
    <3>4. \A d \in Conns : Format(stream'[d])
      BY <2>2, <3>1, <3>3 DEF TypeOK
    <3> QED
      BY <3>4 DEF PcapFormat, Format
  <2>3. ASSUME NEW c \in Conns, Feed!Open(c)
        PROVE  PcapFormat'
    <3>1. stream[c] = <<>> /\ ~ Feed!Ended(stream[c])
      BY <2>3 DEF Feed!Open, Feed!Ended
    <3>2. stream' = [stream EXCEPT ![c] = Append(@, Hdr)]
      BY <2>3, <3>1 DEF Feed!Open, Feed!Hdr
    <3>3. Hdr \notin Recs
      BY DEF Recs
    <3> QED
      BY <2>2, <3>1, <3>2, <3>3
  <2>4. ASSUME NEW c \in Conns, NEW r \in 1 .. made, Feed!Deliver(c, r)
        PROVE  PcapFormat'
    <3>1. r \in Recs /\ r # Hdr
      BY ConstantsAssumption DEF TypeOK, Recs
    <3>2. /\ stream[c] # <<>> /\ ~ Feed!Ended(stream[c])
          /\ \A q \in Contents(stream[c]) : q < r
          /\ stream' = [stream EXCEPT ![c] = Append(@, r)]
      BY <2>4 DEF Feed!Deliver, Feed!Contents, Contents
    <3> QED
      BY <2>2, <3>1, <3>2
  <2>5. ASSUME NEW c \in Conns, Feed!BreakOff(c)
        PROVE  PcapFormat'
    <3>1. ~ Feed!Ended(stream[c]) /\ stream' = [stream EXCEPT ![c] = Append(@, Frag)]
      BY <2>5 DEF Feed!BreakOff, Feed!Frag
    <3>2. Frag \notin Recs /\ Frag # Hdr
      BY DEF Recs
    <3> QED
      BY <2>2, <3>1, <3>2
  <2> QED
    BY <2>1, <2>3, <2>4, <2>5
       DEF Feed!FeedNext, Feed!feedVars, Feed!Capture, Feed!Overrun
<1> QED
  BY <1>1, <1>2, TypeCorrect, FeedImplemented, PTL DEF FeedSpec, Feed!FeedSpec

(* All records between two that a connection received it received too, or  *)
(* the full queue dropped them. *)
NoGaps ==
    \A c \in Conns : \A q, r \in Contents(stream[c]) \cap Recs :
        \A m \in q + 1 .. r - 1 : m \in Contents(stream[c]) \cup overrun

(* Within a session a record is missing only because the queue was full:   *)
(* none is lost between the queue and the client                           *)
(* (wifi_sniffer.c:163-194, 474-485).                                      *)
THEOREM NothingLostWithin ==
    ASSUME OneClient, ~ ShortWrites
    PROVE  Spec => []NoGaps
<1>1. Feed!FeedInit => NoGaps
  BY DEF Feed!FeedInit, NoGaps, Contents
<1>2. TypeOK /\ NoGaps /\ [Feed!FeedNext]_Feed!feedVars => NoGaps'
  <2> SUFFICES ASSUME TypeOK, NoGaps, [Feed!FeedNext]_Feed!feedVars
               PROVE  NoGaps'
    OBVIOUS
  <2>1. CASE UNCHANGED stream
    <3>1. overrun \subseteq overrun'
      BY <2>1 DEF Feed!FeedNext, Feed!feedVars, Feed!Capture, Feed!Overrun, Feed!Open,
             Feed!Deliver, Feed!BreakOff
    <3> QED
      BY <2>1, <3>1 DEF NoGaps
  <2>2. ASSUME NEW c \in Conns, NEW e \in Recs \cup {Hdr, Frag}, overrun' = overrun,
               stream' = [stream EXCEPT ![c] = Append(@, e)],
               e \in Recs => /\ \A q \in Contents(stream[c]) : q < e
                             /\ \A q \in Contents(stream[c]) \cap Recs :
                                  \A m \in q + 1 .. e - 1 : m \in Contents(stream[c]) \cup overrun
        PROVE  NoGaps'
    <3>1. /\ stream[c] \in Seq(Recs \cup {Hdr, Frag})
          /\ stream'[c] = Append(stream[c], e)
          /\ \A d \in Conns \ {c} : stream'[d] = stream[d]
      BY <2>2 DEF TypeOK
    <3>2. Contents(stream'[c]) = Contents(stream[c]) \cup {e}
      BY <3>1, AppendElements
    <3>3. ASSUME NEW q \in Contents(stream'[c]) \cap Recs,
                 NEW r \in Contents(stream'[c]) \cap Recs,
                 NEW m \in q + 1 .. r - 1
          PROVE  m \in Contents(stream'[c]) \cup overrun
      <4>1. q < r /\ q \in Nat /\ r \in Nat
        BY DEF Recs
      <4>2. CASE q \in Contents(stream[c]) /\ r \in Contents(stream[c])
        BY <3>2, <4>2 DEF NoGaps
      <4>3. CASE r = e
        <5>1. q \in Contents(stream[c])
          BY <3>2, <4>1, <4>3
        <5> QED
          BY <2>2, <3>2, <4>3, <5>1
      <4>4. CASE q = e /\ r # e
        <5>1. r < q
          BY <2>2, <3>2, <4>4
        <5> QED
          BY <4>1, <5>1
      <4> QED
        BY <3>2, <4>2, <4>3, <4>4
    <3> QED
      BY <2>2, <3>1, <3>3 DEF NoGaps
  <2>3. Hdr \notin Recs /\ Frag \notin Recs
    BY DEF Recs
  <2>4. ASSUME NEW c \in Conns, Feed!Open(c)
        PROVE  NoGaps'
    <3>1. stream' = [stream EXCEPT ![c] = Append(@, Hdr)] /\ overrun' = overrun
      BY <2>4 DEF Feed!Open, Feed!Hdr
    <3> QED
      BY <2>2, <2>3, <3>1
  <2>5. ASSUME NEW c \in Conns, NEW r \in 1 .. made, Feed!Deliver(c, r)
        PROVE  NoGaps'
    <3>1. r \in Recs
      BY ConstantsAssumption DEF TypeOK, Recs
    <3>2. /\ \A q \in Contents(stream[c]) : q < r
          /\ stream' = [stream EXCEPT ![c] = Append(@, r)] /\ overrun' = overrun
      BY <2>5 DEF Feed!Deliver, Feed!Contents, Contents
    <3>3. \A q \in Contents(stream[c]) \cap Recs :
            \A m \in q + 1 .. r - 1 : m \in Contents(stream[c]) \cup overrun
      BY <2>3, <2>5 DEF Feed!Deliver, Feed!Continues, Feed!Contents, Contents, Feed!Hdr
    <3> QED
      BY <2>2, <3>1, <3>2, <3>3
  <2>6. ASSUME NEW c \in Conns, Feed!BreakOff(c)
        PROVE  NoGaps'
    <3>1. stream' = [stream EXCEPT ![c] = Append(@, Frag)] /\ overrun' = overrun
      BY <2>6 DEF Feed!BreakOff, Feed!Frag
    <3> QED
      BY <2>2, <2>3, <3>1
  <2> QED
    BY <2>1, <2>4, <2>5, <2>6
       DEF Feed!FeedNext, Feed!feedVars, Feed!Capture, Feed!Overrun
<1> QED
  BY <1>1, <1>2, TypeCorrect, FeedImplemented, PTL DEF FeedSpec, Feed!FeedSpec

-----------------------------------------------------------------------------
(* StaleBounded counts places of a stream.  The sets of records below only *)
(* shrink while a connection lasts, and are small when it begins.          *)

(* The records that connection c has, or may yet get. *)
Reachable(c) ==
    Contents(stream[c]) \cup Contents(queue) \cup {rx}
        \cup {item[t] : t \in {u \in Conns : Holds(u)}}

(* Those that were captured before c was accepted. *)
Stale(c) == Reachable(c) \cap 1 .. before[c]

StaleInv ==
    \A c \in Conns :
        /\ c > accepted => stream[c] = <<>>
        /\ before[c] <= made
        /\ Cardinality(Stale(c)) <= QueueSize + 1

(* A set of records captured before c was accepted is finite. *)
LEMMA StaleFinite ==
    ASSUME TypeOK, NEW c \in Conns
    PROVE  IsFiniteSet(Stale(c)) /\ Cardinality(Stale(c)) \in Nat
<1>1. IsFiniteSet(1 .. before[c])
  BY FS_Interval DEF TypeOK
<1>2. Stale(c) \in SUBSET (1 .. before[c])
  BY DEF Stale
<1> QED
  BY <1>1, <1>2, FS_Subset, FS_CardinalityType

(* A step that accepts nobody adds nothing from before. *)
LEMMA StaleShrinks ==
    ASSUME TypeOK, StaleInv, UNCHANGED <<before, accepted>>, made' \in {made, made + 1},
           \A c \in Conns : c > accepted => stream'[c] = <<>>,
           \A c \in Conns : Reachable(c)' \subseteq Reachable(c) \cup {Hdr, Frag, made + 1}
    PROVE  StaleInv'
<1> SUFFICES ASSUME NEW c \in Conns
             PROVE  /\ c > accepted => stream'[c] = <<>>
                    /\ before[c] <= made'
                    /\ Cardinality(Stale(c)') <= QueueSize + 1
  BY DEF StaleInv
<1>1. before[c] \in Nat /\ made \in Nat /\ before[c] <= made
  BY DEF TypeOK, StaleInv
<1>2. Stale(c)' \in SUBSET Stale(c)
  <2>1. \A x \in 1 .. before[c] : x \notin {Hdr, Frag, made + 1}
    BY <1>1
  <2> QED
    BY <2>1 DEF Stale
<1>3. /\ IsFiniteSet(Stale(c))
      /\ Cardinality(Stale(c)) \in Nat
      /\ Cardinality(Stale(c)) <= QueueSize + 1
  BY StaleFinite DEF StaleInv
<1>4. /\ IsFiniteSet(Stale(c)')
      /\ Cardinality(Stale(c)') <= Cardinality(Stale(c))
  BY <1>2, <1>3, FS_Subset
<1>5. Cardinality(Stale(c)') \in Nat
  BY <1>4, FS_CardinalityType
<1> QED
  BY <1>1, <1>3, <1>4, <1>5, ConstantsAssumption

(* A new connection meets a full queue and the record in the callback's    *)
(* hands at most, since no task holds anything then.                       *)
LEMMA StaleAccept ==
    ASSUME TypeOK, QueueInOrder, StaleInv, OneClient, Accept
    PROVE  StaleInv'
<1>1. /\ accepted' = accepted + 1 /\ accepted \in Nat /\ accepted + 1 \in Conns
      /\ before' = [before EXCEPT ![accepted + 1] = made]
      /\ UNCHANGED <<stream, queue, rx, made, tpc, item>>
  BY ConstantsAssumption DEF Accept, taskVars, radioVars, TypeOK, Conns
<1>a. PICK a \in Conns : a = accepted + 1
  BY <1>1
<1>2. \A t \in Conns : ~ Holds(t)
  BY DEF Accept, SessionOver, Live, Holds
<1>3. \A c \in Conns : Reachable(c)' = Reachable(c)
  BY <1>1 DEF Reachable, Holds
<1>4. Cardinality(Stale(a)') <= QueueSize + 1
  <2> DEFINE S == Contents(queue) \cup {rx}
             D == 1 .. Len(queue)
  <2>1. queue \in Seq(Recs) /\ Len(queue) \in Nat /\ DOMAIN queue = D
        /\ Len(queue) <= QueueSize
    BY LenProperties DEF TypeOK, QueueInOrder
  <2>2. IsFiniteSet(Contents(queue)) /\ Cardinality(Contents(queue)) <= Len(queue)
    <3>1. queue \in Surjection(D, Contents(queue))
      <4>1. queue \in [D -> Contents(queue)]
        BY <2>1, SeqDef DEF Contents
      <4> QED
        BY <2>1, <4>1 DEF Surjection, Contents
    <3>2. IsFiniteSet(D) /\ Cardinality(D) = Len(queue)
      BY <2>1, FS_Interval, SMTT(30)
    <3> QED
      BY <3>1, <3>2, FS_Surjection
  <2>3. IsFiniteSet(S) /\ Cardinality(S) <= QueueSize + 1 /\ Cardinality(S) \in Nat
    <3>1. /\ IsFiniteSet(S)
          /\ \/ Cardinality(S) = Cardinality(Contents(queue))
             \/ Cardinality(S) = Cardinality(Contents(queue)) + 1
      BY <2>2, FS_AddElement
    <3>2. Cardinality(Contents(queue)) \in Nat /\ Cardinality(S) \in Nat
      BY <2>2, <3>1, FS_CardinalityType
    <3> QED
      BY <2>1, <2>2, <3>1, <3>2, ConstantsAssumption
  <2>4. Contents(stream[a]) = {}
    BY <1>1, <1>a DEF StaleInv, Contents
  <2>5. Stale(a)' \in SUBSET S
    <3>1. Reachable(a) = S
      BY <1>2, <2>4 DEF Reachable
    <3> QED
      BY <1>1, <1>3, <3>1 DEF Stale
  <2>6. /\ IsFiniteSet(Stale(a)')
        /\ Cardinality(Stale(a)') <= Cardinality(S)
    BY <2>3, <2>5, FS_Subset
  <2>7. Cardinality(Stale(a)') \in Nat
    BY <2>6, FS_CardinalityType
  <2> QED
    BY <2>3, <2>6, <2>7, ConstantsAssumption
<1>5. ASSUME NEW c \in Conns
      PROVE  /\ c > accepted' => stream'[c] = <<>>
             /\ before'[c] <= made'
             /\ Cardinality(Stale(c)') <= QueueSize + 1
  <2>1. CASE c = a
    BY <1>1, <1>a, <1>4, <2>1 DEF TypeOK
  <2>2. CASE c # a
    <3>1. before'[c] = before[c]
      BY <1>1, <1>a, <2>2 DEF TypeOK
    <3>2. Stale(c)' = Stale(c)
      BY <1>3, <3>1 DEF Stale
    <3> QED
      BY <1>1, <3>1, <3>2 DEF StaleInv, Conns
  <2> QED
    BY <2>1, <2>2
<1> QED
  BY <1>5 DEF StaleInv

(* What the hands of the tasks hold after a step comes from before it. *)
LEMMA StaleHands ==
    ASSUME TypeOK, StaleInv, UNCHANGED <<before, accepted>>, made' \in {made, made + 1},
           \A c \in Conns : c > accepted => stream'[c] = <<>>,
           NEW F, F = Hdr \/ F = Frag \/ F = made + 1 \/
                    (F \in Contents(queue) \cup {rx} \cup {item[t] : t \in {u \in Conns : Holds(u)}}),
           \A c \in Conns : Contents(stream'[c]) \subseteq Contents(stream[c]) \cup {F},
           Contents(queue') \subseteq Contents(queue) \cup {F},
           rx' \in {rx, Hdr, F},
           \A t \in Conns : Holds(t)' =>
               (Holds(t) /\ item'[t] = item[t]) \/ item'[t] = F
    PROVE  StaleInv'
<1>1. ASSUME NEW c \in Conns
      PROVE  Reachable(c)' \subseteq Reachable(c) \cup {Hdr, Frag, made + 1}
  <2> SUFFICES ASSUME NEW x \in Reachable(c)'
               PROVE  x \in Reachable(c) \cup {Hdr, Frag, made + 1}
    OBVIOUS
  <2>1. F \in Reachable(c) \cup {Hdr, Frag, made + 1}
    BY DEF Reachable
  <2>2. CASE x \in Contents(stream'[c]) \cup Contents(queue') \cup {rx'}
    BY <2>1, <2>2 DEF Reachable
  <2>3. ASSUME NEW t \in Conns, Holds(t)', x = item'[t]
        PROVE  x \in Reachable(c) \cup {Hdr, Frag, made + 1}
    BY <2>1, <2>3 DEF Reachable
  <2> QED
    BY <2>2, <2>3 DEF Reachable, Contents
<1> QED
  BY <1>1, StaleShrinks

(* A write adds what the task holds to the stream of the connection that   *)
(* was accepted last.                                                      *)
LEMMA StaleSend ==
    ASSUME TypeOK, SessionInv, StaleInv, NEW t \in Conns, tpc[t] = "send",
           NEW e, e = item[t] \/ e = Frag, Sent(Target(t), e),
           UNCHANGED <<before, accepted, made, queue, rx, item>>,
           \A u \in Conns : Holds(u)' => Holds(u)
    PROVE  StaleInv'
<1>1. t = accepted /\ Target(t) = t
  <2>1. Live(t)
    BY DEF Live
  <2> QED
    BY <2>1, TheTask
<1>2. e \in Recs \cup {Hdr, Frag} /\ stream[t] \in Seq(Recs \cup {Hdr, Frag})
  BY DEF TypeOK
<1>3. /\ stream' = [stream EXCEPT ![t] = Append(stream[t], e)]
      /\ Contents(Append(stream[t], e)) = Contents(stream[t]) \cup {e}
  BY <1>1, <1>2, AppendElements DEF Sent
<1>4. /\ Contents(stream'[t]) = Contents(stream[t]) \cup {e}
      /\ \A c \in Conns \ {t} : stream'[c] = stream[c]
  BY <1>3 DEF TypeOK
<1>5. \A c \in Conns : Contents(stream'[c]) \subseteq Contents(stream[c]) \cup {e}
  BY <1>4
<1>6. \A c \in Conns : c > accepted => stream'[c] = <<>>
  BY <1>1, <1>4 DEF StaleInv, Conns
<1>7. e = Frag \/ e \in {item[u] : u \in {v \in Conns : Holds(v)}}
  BY DEF Holds
<1> QED
  BY <1>5, <1>6, <1>7, StaleHands

(* The steps of a sniffer task. *)
LEMMA StaleSniffer ==
    ASSUME TypeOK, SessionInv, QueueInOrder, StaleInv, NEW t \in Conns, Sniffer(t)
    PROVE  StaleInv'
<1>1. CASE \/ InitSniffer(t) \/ CheckSock(t) \/ LoadSock(t) \/ SendLost(t)
           \/ SendFails(t) /\ UNCHANGED stream
           \/ CloseSock(t) \/ ClearSock(t) \/ DeinitSniffer(t) \/ DeleteTask(t)
  <2>1. UNCHANGED <<before, accepted, made, stream, queue, rx>>
    BY <1>1 DEF InitSniffer, CheckSock, LoadSock, SendLost, SendFails, CloseSock,
                ClearSock, DeinitSniffer, DeleteTask, accVars, radioVars, netVars
  <2>2. \A u \in Conns : Holds(u)' => (Holds(u) /\ item'[u] = item[u]) \/ item'[u] = Hdr
    <3>1. CASE InitSniffer(t)
      BY <3>1 DEF InitSniffer, Goto, Holds, TypeOK
    <3>2. CASE \/ CheckSock(t) \/ LoadSock(t) \/ SendLost(t)
               \/ SendFails(t) \/ CloseSock(t) \/ ClearSock(t) \/ DeinitSniffer(t)
      BY <3>2 DEF CheckSock, LoadSock, SendLost, SendFails, CloseSock,
                  ClearSock, DeinitSniffer, Goto, Holds, TypeOK
    <3>3. CASE DeleteTask(t)
      BY <3>3 DEF DeleteTask, Holds, TypeOK
    <3> QED
      BY <1>1, <3>1, <3>2, <3>3
  <2> QED
    BY <2>1, <2>2, StaleHands DEF StaleInv
<1>2. CASE SendWhole(t)
  <2>1. /\ tpc[t] = "send" /\ Sent(Target(t), item[t]) /\ Goto(t, "loop")
        /\ UNCHANGED <<before, accepted, made, queue, rx, item>>
    BY <1>2 DEF SendWhole, accVars, radioVars
  <2>2. \A u \in Conns : Holds(u)' => Holds(u)
    BY <2>1 DEF Goto, Holds, TypeOK
  <2> QED
    BY <2>1, <2>2, StaleSend
<1>3. CASE SendShort(t) \/ (SendFails(t) /\ ~ UNCHANGED stream)
  <2>1. /\ tpc[t] = "send" /\ Sent(Target(t), Frag) /\ (Goto(t, "loop") \/ Goto(t, "close"))
        /\ UNCHANGED <<before, accepted, made, queue, rx, item>>
    BY <1>3 DEF SendShort, SendFails, accVars, radioVars
  <2>2. \A u \in Conns : Holds(u)' => Holds(u)
    BY <2>1 DEF Goto, Holds, TypeOK
  <2> QED
    BY <2>1, <2>2, StaleSend
<1>4. CASE Receive(t)
  <2>1. /\ queue # <<>> /\ queue' = Tail(queue) /\ Goto(t, "check")
        /\ item' = [item EXCEPT ![t] = Head(queue)]
        /\ UNCHANGED <<before, accepted, made, stream, rx>>
    BY <1>4 DEF Receive, accVars, radioVars, netVars
  <2>2. Contents(queue) = Contents(queue') \cup {Head(queue)}
    BY <2>1, QueueTail
  <2>3. \A u \in Conns : Holds(u)' =>
            (Holds(u) /\ item'[u] = item[u]) \/ item'[u] = Head(queue)
    BY <2>1 DEF Goto, Holds, TypeOK
  <2> QED
    BY <2>1, <2>2, <2>3, StaleHands DEF StaleInv
<1> QED
  BY <1>1, <1>2, <1>3, <1>4 DEF Sniffer

(* With one client at a time, the records of the time before a client that *)
(* have reached it or still can are few (wifi_sniffer.c:177-194, 478).     *)
THEOREM FewStale == ASSUME OneClient PROVE Spec => []StaleInv
<1>1. Init => StaleInv
  <2> SUFFICES ASSUME Init PROVE StaleInv
    OBVIOUS
  <2>1. \A c \in Conns : before[c] = 0 /\ made = 0 /\ stream[c] = <<>>
    BY DEF Init
  <2>2. \A c \in Conns : Stale(c) = {}
    BY <2>1 DEF Stale
  <2>3. Cardinality({}) = 0 /\ 0 <= QueueSize + 1 /\ 0 <= 0
    BY FS_EmptySet, ConstantsAssumption
  <2> QED
    BY <2>1, <2>2, <2>3 DEF StaleInv
<1>2. TypeOK /\ SessionInv /\ DeliveryInv /\ StaleInv /\ [Next]_vars => StaleInv'
  <2> SUFFICES ASSUME TypeOK, SessionInv, DeliveryInv, StaleInv, [Next]_vars
               PROVE  StaleInv'
    OBVIOUS
  <2>0. QueueInOrder
    BY DEF DeliveryInv
  <2>1. CASE Accept
    BY <2>0, <2>1, StaleAccept
  <2>2. CASE \/ DisconnectOld \/ SetSock \/ CreateTask
             \/ (\E c \in Conns : PeerCloses(c)) \/ UNCHANGED vars
    <3>1. /\ UNCHANGED <<before, accepted, made, stream, queue, rx, item>>
          /\ \/ tpc' = tpc
             \/ tpc' = [tpc EXCEPT ![accepted] = "init"]
      BY <2>2 DEF DisconnectOld, SetSock, CreateTask, PeerCloses, vars, accVars,
                  taskVars, radioVars, netVars
    <3>2. \A u \in Conns : Holds(u)' => Holds(u)
      BY <3>1 DEF Holds, TypeOK
    <3> QED
      BY <3>1, <3>2, StaleHands DEF StaleInv
  <2>3. CASE CaptureRecord
    BY <2>3, StaleHands DEF CaptureRecord, StaleInv, Holds, accVars, taskVars, netVars
  <2>4. CASE AddQueue
    <3>1. /\ rx' = 0 /\ rx # 0 /\ queue' \in {queue, Append(queue, rx)}
          /\ UNCHANGED <<before, accepted, made, stream, item, tpc>>
      BY <2>4 DEF AddQueue, accVars, taskVars, netVars
    <3>2. Contents(Append(queue, rx)) = Contents(queue) \cup {rx}
      BY <3>1, AppendElements DEF TypeOK
    <3> QED
      BY <3>1, <3>2, StaleHands DEF StaleInv, Holds
  <2>5. ASSUME NEW t \in Conns, Sniffer(t)
        PROVE  StaleInv'
    BY <2>0, <2>5, StaleSniffer
  <2> QED
    BY <2>1, <2>2, <2>3, <2>4, <2>5 DEF Next, Acceptor
<1> QED
  BY <1>1, <1>2, TypeCorrect, Sessions, DeliveryInvariant, PTL DEF Spec

(* StaleBounded: with one client at a time a new one gets at most a queue  *)
(* full of records of the time before it connected, and the one that the   *)
(* callback had in hand (wifi_sniffer.c:177-194, 478, 510).                *)
THEOREM StaleRecordsBounded == ASSUME OneClient PROVE Spec => []StaleBounded
<1>1. TypeOK /\ AtMostOnce /\ StaleInv => StaleBounded
  <2> SUFFICES ASSUME TypeOK, AtMostOnce, StaleInv, NEW c \in Conns
               PROVE  Cardinality({i \in DOMAIN stream[c] : stream[c][i] \in 1 .. before[c]})
                        <= QueueSize + 1
    BY DEF StaleBounded
  <2> DEFINE I == {i \in DOMAIN stream[c] : stream[c][i] \in 1 .. before[c]}
             f == [i \in I |-> stream[c][i]]
  <2>1. \A i \in I : stream[c][i] \in Recs
    <3>1. before[c] \in 0 .. MaxRecs
      BY DEF TypeOK
    <3> QED
      BY <3>1, ConstantsAssumption DEF Recs
  <2>2. f \in Injection(I, Stale(c))
    <3>1. \A i \in I : stream[c][i] \in Stale(c)
      BY DEF Stale, Reachable, Contents
    <3>2. \A i, j \in I : stream[c][i] = stream[c][j] => i = j
      BY <2>1 DEF AtMostOnce
    <3> QED
      BY <3>1, <3>2 DEF Injection, IsInjective
  <2>3. IsFiniteSet(Stale(c)) /\ Cardinality(Stale(c)) \in Nat
        /\ Cardinality(Stale(c)) <= QueueSize + 1
    BY StaleFinite DEF StaleInv
  <2>4. IsFiniteSet(I) /\ Cardinality(I) <= Cardinality(Stale(c))
    BY <2>2, <2>3, FS_Injection
  <2>5. Cardinality(I) \in Nat
    BY <2>4, FS_CardinalityType
  <2> QED
    BY <2>3, <2>4, <2>5, ConstantsAssumption
<1> QED
  BY <1>1, TypeCorrect, Delivery, FewStale, PTL

-----------------------------------------------------------------------------
(* The safety half of FailureEndsSession.  A descriptor is that of the     *)
(* last connection accepted, or the old one which the accept task is about *)
(* to close; connections to come have no task.                             *)
OwnerInv ==
    /\ \A f \in Fds : owner[f] # 0 =>
         owner[f] = accepted \/ (apc = "disconnect" /\ f = sock)
    /\ \A t \in Conns : tpc[t] = "dead" => \A f \in Fds : owner[f] # t
    /\ \A t \in Conns : t > accepted => tpc[t] = "none"

LEMMA OwnerNext ==
    ASSUME OneClient, TypeOK, SessionInv, OwnerInv, [Next]_vars
    PROVE  OwnerInv'
<1>a. accepted \in Nat /\ Conns \subseteq Nat \ {0} /\ 0 \notin Fds
  BY ConstantsAssumption DEF TypeOK, Conns
<1>1. CASE Accept
  <2>1. PICK f \in Fds : owner' = [owner EXCEPT ![f] = accepted + 1]
    BY <1>1 DEF Accept
  <2>2. /\ apc = "accept" /\ apc' = "disconnect" /\ accepted' = accepted + 1
        /\ accepted + 1 \in Conns
        /\ UNCHANGED <<sock, tpc>>
    BY <1>1, <1>a, ConstantsAssumption DEF Accept, taskVars, Conns
  <2>3. \A g \in Fds : owner'[g] = accepted' \/ owner'[g] = owner[g]
    BY <2>1, <2>2 DEF TypeOK
  <2>4. \A g \in Fds : owner[g] # 0 => g = sock
    BY <2>2 DEF SessionInv, NoFdLeak
  <2>5. tpc[accepted'] = "none"
    BY <1>a, <2>2 DEF OwnerInv
  <2>6. \A t \in Conns : tpc'[t] = "dead" => \A g \in Fds : owner'[g] # t
    BY <2>2, <2>3, <2>5 DEF OwnerInv
  <2>7. \A t \in Conns : t > accepted' => tpc'[t] = "none"
    BY <1>a, <2>2 DEF OwnerInv
  <2> QED
    BY <2>2, <2>3, <2>4, <2>6, <2>7 DEF OwnerInv
<1>2. CASE DisconnectOld
  <2>1. /\ apc = "disconnect" /\ UNCHANGED <<accepted, sock, tpc>>
        /\ sock # 0 => owner' = [owner EXCEPT ![sock] = 0]
        /\ sock = 0 => owner' = owner
    BY <1>2 DEF DisconnectOld, Closed, taskVars
  <2>2. \A f \in Fds : owner'[f] = 0 \/ (owner'[f] = owner[f] /\ f # sock)
    BY <1>a, <2>1 DEF TypeOK
  <2>3. \A t \in Conns : tpc'[t] = "dead" => \A f \in Fds : owner'[f] # t
    BY <1>a, <2>1, <2>2 DEF OwnerInv
  <2> QED
    BY <2>1, <2>2, <2>3 DEF OwnerInv
<1>3. CASE SetSock
  BY <1>3 DEF SetSock, OwnerInv, taskVars, netVars
<1>4. CASE CreateTask
  <2>1. /\ apc = "create" /\ UNCHANGED <<accepted, sock, owner>>
        /\ tpc' = [tpc EXCEPT ![accepted] = "init"] \/ tpc' = tpc
    BY <1>4 DEF CreateTask, netVars
  <2>2. accepted \in Conns
    BY <2>1 DEF SessionInv
  <2>3. \A t \in Conns : /\ tpc'[t] = "dead" => tpc[t] = "dead"
                         /\ t > accepted => tpc'[t] = tpc[t]
    BY <1>a, <2>1, <2>2 DEF TypeOK
  <2> QED
    BY <2>1, <2>3 DEF OwnerInv
<1>5. CASE CaptureRecord \/ AddQueue \/ (\E c \in Conns : PeerCloses(c)) \/ UNCHANGED vars
  BY <1>5 DEF CaptureRecord, AddQueue, PeerCloses, vars, accVars, taskVars, netVars, OwnerInv
<1>6. ASSUME NEW t \in Conns, Sniffer(t)
      PROVE  OwnerInv'
  <2>1. Live(t)
    BY <1>6 DEF Sniffer, InitSniffer, CheckSock, LoadSock, SendWhole, SendLost, SendShort,
           SendFails, CloseSock, ClearSock, DeinitSniffer, DeleteTask, Receive, Live
  <2>2. apc = "accept" /\ t = handle /\ t = accepted
    BY <2>1 DEF SessionInv
  <2>3. UNCHANGED <<apc, accepted>>
    BY <1>6 DEF Sniffer, InitSniffer, CheckSock, LoadSock, SendWhole, SendLost, SendShort,
           SendFails, CloseSock, ClearSock, DeinitSniffer, DeleteTask, Receive, accVars
  <2>4. \A f \in Fds : owner'[f] \in {0, owner[f]}
    BY <1>6 DEF Sniffer, InitSniffer, CheckSock, LoadSock, SendWhole, SendLost, SendShort,
           SendFails, CloseSock, ClearSock, DeinitSniffer, DeleteTask, Receive, netVars,
           Closed, TypeOK
  <2>5. \A u \in Conns \ {t} : tpc'[u] = tpc[u]
    BY <1>6, <2>2 DEF Sniffer, InitSniffer, CheckSock, LoadSock, SendWhole, SendLost,
           SendShort, SendFails, CloseSock, ClearSock, DeinitSniffer, DeleteTask, Receive,
           Goto, TypeOK
  <2>6. ASSUME tpc'[t] = "dead"
        PROVE  \A f \in Fds : owner[f] = 0
    <3>1. DeleteTask(t)
      BY <1>6, <2>6 DEF Sniffer, InitSniffer, CheckSock, LoadSock, SendWhole, SendLost,
             SendShort, SendFails, CloseSock, ClearSock, DeinitSniffer, Receive, Goto, TypeOK
    <3>2. sock = 0
      BY <3>1 DEF DeleteTask, SessionInv
    <3> QED
      BY <1>a, <2>2, <3>2 DEF SessionInv, NoFdLeak
  <2>7. \A f \in Fds : owner'[f] # 0 => owner'[f] = accepted
    BY <2>2, <2>4 DEF OwnerInv
  <2>8. ASSUME NEW u \in Conns, tpc'[u] = "dead", NEW f \in Fds
        PROVE  owner'[f] # u
    <3>1. CASE u = t
      BY <1>a, <2>4, <2>6, <2>8, <3>1
    <3>2. CASE u # t
      BY <1>a, <2>4, <2>5, <2>8, <3>2 DEF OwnerInv
    <3> QED
      BY <3>1, <3>2
  <2>9. \A u \in Conns : u > accepted => tpc'[u] = "none"
    BY <1>a, <2>2, <2>5 DEF OwnerInv
  <2> QED
    BY <2>3, <2>7, <2>8, <2>9 DEF OwnerInv
<1> QED
  BY <1>1, <1>2, <1>3, <1>4, <1>5, <1>6 DEF Next, Acceptor

(* The safety half of FailureEndsSession, whatever write() does: a task    *)
(* that is deleted leaves no descriptor of its client open, and unless a   *)
(* later client has come, _sock is 0 and the radio is out of promiscuous   *)
(* mode (main.c:62-80, tcp_server.c:51-60, wifi_sniffer.c:546-551).        *)
THEOREM FailureLeavesNothing ==
    ASSUME OneClient
    PROVE  Spec => [](\A t \in Conns : tpc[t] = "dead" =>
                        /\ \A f \in Fds : owner[f] # t
                        /\ accepted = t /\ apc = "accept" => sock = 0 /\ ~ promisc)
<1> DEFINE Left(t) == /\ \A f \in Fds : owner[f] # t
                      /\ accepted = t /\ apc = "accept" => sock = 0 /\ ~ promisc
<1>1. Init => OwnerInv
  BY DEF Init, OwnerInv
<1>2. TypeOK /\ SessionInv /\ OwnerInv /\ [Next]_vars => OwnerInv'
  BY OwnerNext
<1>3. TypeOK /\ SessionInv /\ OwnerInv /\ IdleRadioOff =>
        \A t \in Conns : tpc[t] = "dead" => Left(t)
  <2> SUFFICES ASSUME TypeOK, SessionInv, OwnerInv, IdleRadioOff,
                      NEW t \in Conns, tpc[t] = "dead"
               PROVE  Left(t)
    OBVIOUS
  <2>1. \A f \in Fds : owner[f] # t
    BY DEF OwnerInv
  <2>2. ASSUME accepted = t, apc = "accept"
        PROVE  sock = 0 /\ ~ promisc
    <3>1. \A u \in Conns : ~ Live(u)
      BY <2>2 DEF SessionInv, Live
    <3>2. \A f \in Fds : owner[f] = 0
      BY <2>1, <2>2 DEF OwnerInv
    <3>3. \A u \in Conns : tpc[u] # "clear"
      BY <3>1 DEF Live
    <3>4. sock = 0
      BY <2>2, <3>2, <3>3 DEF SessionInv, TypeOK
    <3> QED
      BY <3>1, <3>4 DEF IdleRadioOff
  <2> QED
    BY <2>1, <2>2
<1> QED
  BY <1>1, <1>2, <1>3, TypeCorrect, Sessions, RadioOff, PTL DEF Spec
=============================================================================
