------------------------ MODULE CaptureSessionProofs ------------------------
(* Theorems about CaptureSession, for every value of its constants. *)
EXTENDS CaptureSession, TLAPS, SequenceTheorems

USE DEF Hdr, Frag

(* The record at the head of a non-empty queue and the rest of the queue   *)
(* are of the queue's type (Receive).                                      *)
LEMMA HeadTailType ==
    ASSUME NEW S, NEW q \in Seq(S), q # <<>>
    PROVE  Head(q) \in S /\ Tail(q) \in Seq(S)
  BY HeadTailProperties

(* TypeOK: whatever the tasks do, every global, local and stream keeps its *)
(* type.                                                                   *)
THEOREM TypeCorrect == Spec => []TypeOK
<1>1. Init => TypeOK
  <2> SUFFICES ASSUME Init PROVE TypeOK
    OBVIOUS
  <2>1. queue \in Seq(Recs) /\ overrun \subseteq Recs
    BY DEF Init
  <2>2. stream \in [Conns -> Seq(Recs \cup {Hdr, Frag})]
    BY DEF Init
  <2>3. /\ apc \in AccSteps
        /\ tpc \in [Conns -> TaskSteps]
        /\ item \in [Conns -> Recs \cup {Hdr}]
        /\ tfd \in [Conns -> Fds \cup {0}]
        /\ owner \in [Fds -> Conns \cup {0}]
        /\ peer \in [Conns -> {"none", "up", "down"}]
    BY DEF Init, AccSteps, TaskSteps
  <2>4. /\ accepted \in 0 .. MaxConns
        /\ handle \in 0 .. MaxConns
        /\ made \in 0 .. MaxRecs
        /\ before \in [Conns -> 0 .. MaxRecs]
    BY ConstantsAssumption DEF Init
  <2> QED
    BY <2>1, <2>2, <2>3, <2>4 DEF Init, TypeOK
<1>2. TypeOK /\ [Next]_vars => TypeOK'
  <2> SUFFICES ASSUME TypeOK, [Next]_vars
               PROVE  TypeOK'
    OBVIOUS
  <2> USE ConstantsAssumption
  <2>1. CASE Accept
    <3>1. accepted + 1 \in Conns
      BY <2>1 DEF TypeOK, Accept, Conns
    <3>2. /\ apc' \in AccSteps
          /\ accepted' \in 0 .. MaxConns
          /\ newSock' \in Fds \cup {0}
      BY <2>1, <3>1 DEF TypeOK, Accept, AccSteps, Conns
    <3>3. /\ owner' \in [Fds -> Conns \cup {0}]
          /\ peer' \in [Conns -> {"none", "up", "down"}]
          /\ before' \in [Conns -> 0 .. MaxRecs]
      BY <2>1, <3>1 DEF TypeOK, Accept
    <3> QED
      BY <2>1, <3>2, <3>3 DEF TypeOK, Accept, taskVars, radioVars
  <2>2. CASE DisconnectOld
    BY <2>2 DEF TypeOK, DisconnectOld, Closed, AccSteps, taskVars, radioVars
  <2>3. CASE SetSock
    BY <2>3 DEF TypeOK, SetSock, AccSteps, taskVars, radioVars, netVars
  <2>4. CASE CreateTask
    BY <2>4 DEF TypeOK, CreateTask, AccSteps, TaskSteps, radioVars, netVars
  <2>5. CASE CaptureRecord
    BY <2>5 DEF TypeOK, CaptureRecord, accVars, taskVars, netVars, Recs
  <2>6. CASE AddQueue
    <3>1. rx \in Recs
      BY <2>6 DEF AddQueue, TypeOK
    <3>2. Append(queue, rx) \in Seq(Recs)
      BY <3>1, AppendProperties DEF TypeOK
    <3> QED
      BY <2>6, <3>1, <3>2 DEF TypeOK, AddQueue, accVars, taskVars, netVars
  <2>7. ASSUME NEW t \in Conns, Sniffer(t)
        PROVE  TypeOK'
    <3>1. CASE InitSniffer(t)
      BY <3>1 DEF TypeOK, InitSniffer, Goto, TaskSteps, accVars, radioVars, netVars
    <3>2. CASE CheckSock(t)
      BY <3>2 DEF TypeOK, CheckSock, Goto, TaskSteps, accVars, radioVars, netVars
    <3>3. CASE LoadSock(t)
      BY <3>3 DEF TypeOK, LoadSock, Goto, TaskSteps, accVars, radioVars, netVars
    <3>4. ASSUME NEW i \in Recs \cup {Hdr, Frag}, NEW c \in Conns, Sent(c, i)
          PROVE  stream' \in [Conns -> Seq(Recs \cup {Hdr, Frag})]
      <4>1. Append(stream[c], i) \in Seq(Recs \cup {Hdr, Frag})
        BY <3>4, AppendProperties DEF TypeOK
      <4> QED
        BY <3>4, <4>1 DEF Sent, TypeOK
    <3>5. CASE SendWhole(t)
      <4>1. Target(t) \in Conns
        BY <3>5 DEF SendWhole, Target, TypeOK
      <4>2. stream' \in [Conns -> Seq(Recs \cup {Hdr, Frag})]
        BY <3>5, <3>4, <4>1 DEF SendWhole, TypeOK
      <4> QED
        BY <3>5, <4>2 DEF TypeOK, SendWhole, Goto, TaskSteps, accVars, radioVars
    <3>6. CASE SendLost(t)
      BY <3>6 DEF TypeOK, SendLost, Goto, TaskSteps, accVars, radioVars, netVars
    <3>7. CASE SendShort(t)
      <4>1. Target(t) \in Conns
        BY <3>7 DEF SendShort, Target, TypeOK
      <4>2. stream' \in [Conns -> Seq(Recs \cup {Hdr, Frag})]
        BY <3>7, <3>4, <4>1 DEF SendShort, TypeOK
      <4> QED
        BY <3>7, <4>2 DEF TypeOK, SendShort, Goto, TaskSteps, accVars, radioVars
    <3>8. CASE SendFails(t)
      <4>1. stream' \in [Conns -> Seq(Recs \cup {Hdr, Frag})]
        <5>1. CASE UNCHANGED stream
          BY <5>1 DEF TypeOK
        <5>2. CASE Target(t) # 0 /\ Sent(Target(t), Frag)
          <6>1. Target(t) \in Conns
            BY <5>2 DEF Target, TypeOK
          <6> QED
            BY <5>2, <3>4, <6>1
        <5> QED
          BY <3>8, <5>1, <5>2 DEF SendFails
      <4>2. peer' \in [Conns -> {"none", "up", "down"}]
        BY <3>8 DEF SendFails, TypeOK
      <4> QED
        BY <3>8, <4>1, <4>2 DEF TypeOK, SendFails, Goto, TaskSteps, accVars, radioVars
    <3>9. CASE CloseSock(t)
      BY <3>9 DEF TypeOK, CloseSock, Closed, Goto, TaskSteps, accVars, radioVars
    <3>10. CASE ClearSock(t)
      BY <3>10 DEF TypeOK, ClearSock, Goto, TaskSteps, accVars, radioVars, netVars
    <3>11. CASE DeinitSniffer(t)
      BY <3>11 DEF TypeOK, DeinitSniffer, Goto, TaskSteps, accVars, radioVars, netVars
    <3>12. CASE DeleteTask(t)
      BY <3>12 DEF TypeOK, DeleteTask, TaskSteps, accVars, radioVars, netVars
    <3>13. CASE Receive(t)
      <4>1. Head(queue) \in Recs /\ Tail(queue) \in Seq(Recs)
        BY <3>13, HeadTailType DEF Receive, TypeOK
      <4> QED
        BY <3>13, <4>1 DEF TypeOK, Receive, Goto, TaskSteps, accVars, radioVars, netVars
    <3> QED
      BY <2>7, <3>1, <3>2, <3>3, <3>5, <3>6, <3>7, <3>8, <3>9, <3>10, <3>11,
         <3>12, <3>13 DEF Sniffer
  <2>8. ASSUME NEW c \in Conns, PeerCloses(c)
        PROVE  TypeOK'
    BY <2>8 DEF TypeOK, PeerCloses, accVars, taskVars, radioVars
  <2>9. CASE UNCHANGED vars
    BY <2>9 DEF TypeOK, vars, accVars, taskVars, radioVars, netVars
  <2> QED
    BY <2>1, <2>2, <2>3, <2>4, <2>5, <2>6, <2>7, <2>8, <2>9 DEF Next, Acceptor
<1> QED
  BY <1>1, <1>2, PTL DEF Spec

-----------------------------------------------------------------------------
(* IdleRadioOff is not inductive: a task may end while the radio is on.    *)
(* It then ends itself, and what has to be known is that somebody else     *)
(* turned the radio on after it and still lives: only the task that the    *)
(* handle names can be deleted.                                            *)
RadioInv ==
    /\ promisc => \E t \in Conns : Live(t)
    /\ \A t \in Conns : tpc[t] = "delete" /\ handle = t /\ promisc
          => \E u \in Conns \ {t} : Live(u)

(* A task that steps from one place in its code to another, and is not     *)
(* about to delete, keeps RadioInv when the radio is not turned on.        *)
LEMMA RadioGoto ==
    ASSUME TypeOK, RadioInv, NEW t \in Conns, NEW l \in TaskSteps,
           l \notin {"none", "dead", "delete"}, Live(t),
           Goto(t, l), UNCHANGED <<promisc, handle>>
    PROVE  RadioInv'
<1>1. /\ tpc'[t] = l
      /\ \A u \in Conns \ {t} : tpc'[u] = tpc[u]
  BY DEF Goto, TypeOK
<1>2. \A u \in Conns : Live(u)' <=> Live(u)
  BY <1>1 DEF Live
<1> QED
  BY <1>1, <1>2 DEF RadioInv

(* A step that leaves the tasks, the handle and the radio alone. *)
LEMMA RadioStutter ==
    ASSUME RadioInv, UNCHANGED <<promisc, handle, tpc>>
    PROVE  RadioInv'
  BY DEF RadioInv, Live

(* IdleRadioOff: when no sniffer task is left the radio is out of          *)
(* promiscuous mode, also when clients take over from each other.          *)
THEOREM RadioOff == Spec => []IdleRadioOff
<1>1. Init => RadioInv
  BY DEF Init, RadioInv
<1>2. TypeOK /\ RadioInv /\ [Next]_vars => RadioInv'
  <2> SUFFICES ASSUME TypeOK, RadioInv, [Next]_vars
               PROVE  RadioInv'
    OBVIOUS
  <2>1. CASE Accept \/ DisconnectOld \/ SetSock \/ CaptureRecord \/ AddQueue
    BY <2>1, RadioStutter DEF Accept, DisconnectOld, SetSock, CaptureRecord,
       AddQueue, taskVars
  <2>2. CASE CreateTask
    <3>1. CASE UNCHANGED <<tpc, handle>>
      BY <2>2, <3>1, RadioStutter DEF CreateTask
    <3>2. CASE tpc' = [tpc EXCEPT ![accepted] = "init"] /\ handle' = accepted
      <4>1. \A u \in Conns : Live(u) => Live(u)'
        BY <3>2 DEF TypeOK, Live
      <4>2. \A t \in Conns : ~ (tpc'[t] = "delete" /\ handle' = t)
        BY <3>2 DEF TypeOK
      <4> QED
        BY <2>2, <4>1, <4>2 DEF CreateTask, RadioInv
    <3> QED
      BY <2>2, <3>1, <3>2 DEF CreateTask
  <2>3. ASSUME NEW t \in Conns, Sniffer(t)
        PROVE  RadioInv'
    <3>1. CASE InitSniffer(t)
      <4>1. Live(t)' /\ tpc'[t] = "check"
        BY <3>1 DEF InitSniffer, Goto, Live, TypeOK
      <4> QED
        BY <3>1, <4>1 DEF InitSniffer, RadioInv
    <3>2. CASE CheckSock(t)
      BY <3>2, RadioGoto DEF CheckSock, Live, TaskSteps
    <3>3. CASE LoadSock(t)
      BY <3>3, RadioGoto DEF LoadSock, Live, TaskSteps
    <3>4. CASE SendWhole(t) \/ SendLost(t) \/ SendShort(t)
      BY <3>4, RadioGoto DEF SendWhole, SendLost, SendShort, Live, TaskSteps
    <3>5. CASE SendFails(t)
      BY <3>5, RadioGoto DEF SendFails, Live, TaskSteps
    <3>6. CASE CloseSock(t)
      BY <3>6, RadioGoto DEF CloseSock, Live, TaskSteps
    <3>7. CASE ClearSock(t)
      BY <3>7, RadioGoto DEF ClearSock, Live, TaskSteps
    <3>8. CASE DeinitSniffer(t)
      BY <3>8 DEF DeinitSniffer, RadioInv
    <3>9. CASE DeleteTask(t)
      <4>1. CASE UNCHANGED tpc
        BY <3>9, <4>1, RadioStutter DEF DeleteTask
      <4>2. CASE tpc' = [tpc EXCEPT ![t] = "loop", ![handle] = "dead"]
        <5>1. \A u \in Conns : ~ (tpc'[u] = "delete" /\ handle' = u)
          BY <3>9, <4>2 DEF DeleteTask, TypeOK
        <5>2. promisc' => \E u \in Conns : Live(u)'
          <6>1. CASE handle # t
            BY <4>2, <6>1 DEF Live, TypeOK
          <6>2. CASE handle = t
            <7>1. promisc => \E u \in Conns \ {t} : Live(u)
              BY <3>9, <6>2 DEF DeleteTask, RadioInv
            <7>2. \A u \in Conns \ {t} : tpc'[u] = tpc[u]
              BY <4>2, <6>2 DEF TypeOK
            <7> QED
              BY <3>9, <7>1, <7>2 DEF DeleteTask, Live
          <6> QED
            BY <6>1, <6>2
        <5> QED
          BY <5>1, <5>2 DEF RadioInv
      <4> QED
        BY <3>9, <4>1, <4>2 DEF DeleteTask
    <3>10. CASE Receive(t)
      BY <3>10, RadioGoto DEF Receive, Live, TaskSteps
    <3> QED
      BY <2>3, <3>1, <3>2, <3>3, <3>4, <3>5, <3>6, <3>7, <3>8, <3>9, <3>10 DEF Sniffer
  <2>4. ASSUME NEW c \in Conns, PeerCloses(c)
        PROVE  RadioInv'
    BY <2>4, RadioStutter DEF PeerCloses, taskVars
  <2>5. CASE UNCHANGED vars
    BY <2>5, RadioStutter DEF vars, taskVars
  <2> QED
    BY <2>1, <2>2, <2>3, <2>4, <2>5 DEF Next, Acceptor
<1>3. RadioInv => IdleRadioOff
  BY DEF RadioInv, IdleRadioOff
<1> QED
  BY <1>1, <1>2, <1>3, TypeCorrect, PTL DEF Spec

-----------------------------------------------------------------------------
(* AtMostOnce and QueueInOrder are two parts of one argument: a record     *)
(* moves from the driver's callback to the queue, from the queue to the    *)
(* hands of one task and from there to one stream, and the order of        *)
(* capture separates the four places.                                      *)

(* Task t has taken an item and has not yet got rid of it. *)
Holds(t) == tpc[t] \in {"check", "load", "send"}

(* The first record that is neither queued nor past the queue. *)
Limit == IF rx = 0 THEN made + 1 ELSE rx

HeldInv ==
    \A t \in Conns : Holds(t) =>
        /\ item[t] < Limit
        /\ \A i \in DOMAIN queue : item[t] < queue[i]
        /\ item[t] \in Recs =>
             /\ \A c \in Conns : item[t] \notin Contents(stream[c])
             /\ \A u \in Conns \ {t} : Holds(u) => item[u] # item[t]

DeliveryInv ==
    /\ AtMostOnce
    /\ QueueInOrder
    /\ rx <= made
    /\ \A i \in DOMAIN queue : queue[i] < Limit
    /\ \A c \in Conns : \A r \in Contents(stream[c]) : r < Limit
    /\ HeldInv

(* What Append does to the elements of a sequence. *)
LEMMA AppendElements ==
    ASSUME NEW S, NEW s \in Seq(S), NEW e \in S
    PROVE  /\ DOMAIN Append(s, e) = 1 .. Len(s) + 1
           /\ Len(Append(s, e)) = Len(s) + 1
           /\ \A i \in 1 .. Len(s) : Append(s, e)[i] = s[i]
           /\ Append(s, e)[Len(s) + 1] = e
           /\ DOMAIN s = 1 .. Len(s)
           /\ Len(s) \in Nat
           /\ Contents(Append(s, e)) = Contents(s) \cup {e}
<1>1. /\ DOMAIN Append(s, e) = 1 .. Len(s) + 1
      /\ Len(Append(s, e)) = Len(s) + 1
      /\ \A i \in 1 .. Len(s) : Append(s, e)[i] = s[i]
      /\ Append(s, e)[Len(s) + 1] = e
      /\ DOMAIN s = 1 .. Len(s)
      /\ Len(s) \in Nat
  BY AppendProperties
<1>2. Contents(Append(s, e)) = Contents(s) \cup {e}
  BY <1>1 DEF Contents
<1> QED
  BY <1>1, <1>2

(* What taking the head does to the elements of a sequence. *)
LEMMA TailElements ==
    ASSUME NEW S, NEW q \in Seq(S), q # <<>>
    PROVE  /\ 1 \in DOMAIN q
           /\ Head(q) = q[1]
           /\ Len(Tail(q)) = Len(q) - 1
           /\ \A i \in DOMAIN Tail(q) : i \in Nat /\ i >= 1 /\ i + 1 \in DOMAIN q
                                       /\ Tail(q)[i] = q[i + 1]
<1>1. /\ Len(q) \in Nat
      /\ Len(q) >= 1
      /\ DOMAIN q = 1 .. Len(q)
  BY EmptySeq, LenProperties
<1>2. /\ Tail(q) \in Seq(S)
      /\ Len(Tail(q)) = Len(q) - 1
      /\ \A i \in 1 .. Len(Tail(q)) : Tail(q)[i] = q[i + 1]
  BY HeadTailProperties
<1>3. DOMAIN Tail(q) = 1 .. Len(q) - 1
  BY <1>2, LenProperties
<1> QED
  BY <1>1, <1>2, <1>3

(* The limit is a positive number. *)
LEMMA LimitType ==
    ASSUME TypeOK
    PROVE  Limit \in Nat /\ Limit > 0
  BY ConstantsAssumption DEF TypeOK, Limit, Recs

(* A step in which no record moves: tasks only let go of what they hold,   *)
(* or take up the header.                                                  *)
LEMMA NothingMoves ==
    ASSUME TypeOK, DeliveryInv, UNCHANGED <<stream, queue, rx, made>>,
           \A t \in Conns : Holds(t)' =>
               (Holds(t) /\ item'[t] = item[t]) \/ item'[t] = Hdr
    PROVE  DeliveryInv'
<1>1. /\ AtMostOnce'
      /\ QueueInOrder'
      /\ Limit' = Limit
  BY DEF DeliveryInv, AtMostOnce, QueueInOrder, Limit
<1>2. HeldInv'
  <2> SUFFICES ASSUME NEW t \in Conns, Holds(t)'
               PROVE  /\ item'[t] < Limit
                      /\ \A i \in DOMAIN queue : item'[t] < queue[i]
                      /\ item'[t] \in Recs =>
                           /\ \A c \in Conns : item'[t] \notin Contents(stream[c])
                           /\ \A u \in Conns \ {t} : Holds(u)' => item'[u] # item'[t]
    BY <1>1 DEF HeldInv
  <2>1. CASE Holds(t) /\ item'[t] = item[t]
    <3>1. ASSUME item[t] \in Recs, NEW u \in Conns \ {t}, Holds(u)'
          PROVE  item'[u] # item'[t]
      <4>1. CASE item'[u] = Hdr
        BY <2>1, <3>1, <4>1, ConstantsAssumption DEF Recs
      <4>2. CASE Holds(u) /\ item'[u] = item[u]
        BY <2>1, <3>1, <4>2 DEF DeliveryInv, HeldInv
      <4> QED
        BY <3>1, <4>1, <4>2
    <3> QED
      BY <2>1, <3>1 DEF DeliveryInv, HeldInv
  <2>2. CASE item'[t] = Hdr
    <3>1. \A i \in DOMAIN queue : queue[i] \in Recs
      BY ElementOfSeq, LenProperties DEF TypeOK
    <3> QED
      BY <2>2, <3>1, LimitType, ConstantsAssumption DEF Recs
  <2> QED
    BY <2>1, <2>2
<1> QED
  BY <1>1, <1>2 DEF DeliveryInv

(* A step that sends i to connection c: what is sent is older than what is *)
(* queued, and if it is a record nobody has it any more.                   *)
LEMMA OneMoves ==
    ASSUME TypeOK, DeliveryInv, UNCHANGED <<item, queue, rx, made>>,
           NEW c \in Conns, NEW i \in Recs \cup {Hdr, Frag}, Sent(c, i),
           i < Limit,
           \A k \in DOMAIN queue : i < queue[k],
           i \in Recs => \A d \in Conns : i \notin Contents(stream[d]),
           \A t \in Conns : Holds(t)' =>
               Holds(t) /\ (i \in Recs => item[t] # i)
    PROVE  DeliveryInv'
<1> DEFINE S == Recs \cup {Hdr, Frag}
<1>1. /\ stream[c] \in Seq(S)
      /\ stream'[c] = Append(stream[c], i)
      /\ \A d \in Conns \ {c} : stream'[d] = stream[d]
  BY DEF TypeOK, Sent
<1>2. Contents(stream'[c]) = Contents(stream[c]) \cup {i}
  BY <1>1, AppendElements
<1>3. Limit' = Limit
  BY DEF Limit
<1>4. \A d \in Conns : \A j, k \in DOMAIN stream'[d] :
        stream'[d][j] \in Recs /\ stream'[d][j] = stream'[d][k] => j = k
  <2>1. ASSUME NEW j \in DOMAIN stream'[c], NEW k \in DOMAIN stream'[c],
               stream'[c][j] \in Recs, stream'[c][j] = stream'[c][k]
        PROVE  j = k
    <3> DEFINE n == Len(stream[c])
    <3>1. /\ n \in Nat
          /\ DOMAIN stream[c] = 1 .. n
          /\ j \in 1 .. n + 1
          /\ k \in 1 .. n + 1
          /\ \A m \in 1 .. n : stream'[c][m] = stream[c][m]
          /\ stream'[c][n + 1] = i
      BY <1>1, <2>1, AppendElements
    <3>2. \A m \in 1 .. n : stream[c][m] \in Contents(stream[c])
      BY <3>1 DEF Contents
    <3>3. CASE j \in 1 .. n /\ k \in 1 .. n
      <4>1. stream[c][j] \in Recs /\ stream[c][j] = stream[c][k]
        BY <2>1, <3>1, <3>3
      <4> QED
        BY <3>1, <3>3, <4>1 DEF DeliveryInv, AtMostOnce
    <3>4. CASE j = n + 1 /\ k \in 1 .. n
      BY <2>1, <3>1, <3>2, <3>4
    <3>5. CASE j \in 1 .. n /\ k = n + 1
      BY <2>1, <3>1, <3>2, <3>5
    <3> QED
      BY <3>1, <3>3, <3>4, <3>5
  <2>2. ASSUME NEW d \in Conns \ {c}
        PROVE  \A j, k \in DOMAIN stream'[d] :
                 stream'[d][j] \in Recs /\ stream'[d][j] = stream'[d][k] => j = k
    BY <1>1 DEF DeliveryInv, AtMostOnce
  <2> QED
    BY <2>1, <2>2
<1>5. \A d, e \in Conns :
        d # e => Contents(stream'[d]) \cap Contents(stream'[e]) \cap Recs = {}
  <2>1. \A d, e \in Conns :
          d # e => Contents(stream[d]) \cap Contents(stream[e]) \cap Recs = {}
    BY DEF DeliveryInv, AtMostOnce
  <2>2. \A d \in Conns \ {c} : Contents(stream'[d]) = Contents(stream[d])
    BY <1>1
  <2>3. \A d \in Conns \ {c} :
          Contents(stream'[c]) \cap Contents(stream'[d]) \cap Recs = {}
    BY <1>2, <2>1, <2>2
  <2> QED
    BY <2>1, <2>2, <2>3
<1>6. AtMostOnce'
  BY <1>4, <1>5 DEF AtMostOnce
<1>7. \A d \in Conns : \A r \in Contents(stream'[d]) :
        r < Limit /\ \A k \in DOMAIN queue : r < queue[k]
  BY <1>1, <1>2, ZenonT(30) DEF DeliveryInv, QueueInOrder
<1>8. QueueInOrder'
  BY <1>7 DEF DeliveryInv, QueueInOrder
<1>9. HeldInv'
  <2> SUFFICES ASSUME NEW t \in Conns, Holds(t)'
               PROVE  /\ item[t] < Limit
                      /\ \A k \in DOMAIN queue : item[t] < queue[k]
                      /\ item[t] \in Recs =>
                           /\ \A d \in Conns : item[t] \notin Contents(stream'[d])
                           /\ \A u \in Conns \ {t} : Holds(u)' => item[u] # item[t]
    BY <1>3 DEF HeldInv
  <2>1. Holds(t) /\ (i \in Recs => item[t] # i)
    OBVIOUS
  <2>2. ASSUME item[t] \in Recs, NEW d \in Conns
        PROVE  item[t] \notin Contents(stream'[d])
    BY <1>1, <1>2, <2>1, <2>2 DEF DeliveryInv, HeldInv
  <2> QED
    BY <2>1, <2>2 DEF DeliveryInv, HeldInv
<1> QED
  BY <1>3, <1>6, <1>7, <1>8, <1>9 DEF DeliveryInv

(* The driver's callback takes up a new record. *)
LEMMA NewRecord ==
    ASSUME TypeOK, DeliveryInv, CaptureRecord
    PROVE  DeliveryInv'
<1>1. /\ UNCHANGED <<stream, queue, item, tpc>>
      /\ Limit' = Limit
      /\ rx' <= made'
  BY ConstantsAssumption DEF CaptureRecord, Limit, TypeOK, taskVars, netVars, Recs
<1>2. AtMostOnce' /\ QueueInOrder' /\ HeldInv'
  BY <1>1 DEF DeliveryInv, AtMostOnce, QueueInOrder, HeldInv, Holds
<1> QED
  BY <1>1, <1>2 DEF DeliveryInv

(* The record is queued behind all others, or dropped. *)
LEMMA QueueRecord ==
    ASSUME TypeOK, DeliveryInv, AddQueue
    PROVE  DeliveryInv'
<1>1. /\ rx \in Recs
      /\ Limit = rx
      /\ Limit' = made + 1
      /\ rx <= made
      /\ made \in Nat
      /\ rx' = 0 /\ made' = made
      /\ UNCHANGED <<stream, item, tpc>>
  BY DEF AddQueue, Limit, TypeOK, DeliveryInv, taskVars, netVars
<1>2. rx \in Nat
  BY <1>1 DEF Recs
<1>3. \A c \in Conns : \A r \in Contents(stream[c]) : r < rx /\ r \in Int
  <2>1. \A c \in Conns : \A k \in DOMAIN stream[c] : stream[c][k] \in Recs \cup {Hdr, Frag}
    BY LenProperties, ElementOfSeq DEF TypeOK
  <2> QED
    BY <1>1, <2>1 DEF DeliveryInv, Contents, Recs
<1>4. \A t \in Conns : Holds(t) => item[t] < rx /\ item[t] \in Int
  BY <1>1 DEF DeliveryInv, HeldInv, TypeOK, Recs
<1>5. \A k \in DOMAIN queue : queue[k] < rx /\ queue[k] \in Int
  <2>1. \A k \in DOMAIN queue : queue[k] \in Recs
    BY LenProperties, ElementOfSeq DEF TypeOK
  <2> QED
    BY <1>1, <2>1 DEF DeliveryInv, Recs
<1>6. CASE UNCHANGED queue
  <2>1. AtMostOnce' /\ QueueInOrder'
    BY <1>1, <1>6 DEF DeliveryInv, AtMostOnce, QueueInOrder
  <2>2. HeldInv'
    BY <1>1, <1>2, <1>4, <1>6 DEF DeliveryInv, HeldInv, Holds
  <2> QED
    BY <1>1, <1>2, <1>3, <1>5, <1>6, <2>1, <2>2 DEF DeliveryInv
<1>7. CASE Len(queue) < QueueSize /\ queue' = Append(queue, rx)
  <2> DEFINE n == Len(queue)
  <2>1. /\ n \in Nat
        /\ DOMAIN queue = 1 .. n
        /\ DOMAIN queue' = 1 .. n + 1
        /\ Len(queue') = n + 1
        /\ \A k \in 1 .. n : queue'[k] = queue[k]
        /\ queue'[n + 1] = rx
    BY <1>1, <1>7, AppendElements DEF TypeOK
  <2> HIDE DEF n
  <2>2. \A k \in DOMAIN queue' : queue'[k] = rx \/ (k \in DOMAIN queue /\ queue'[k] = queue[k])
    BY <2>1
  <2>3. \A j, k \in DOMAIN queue' : j < k => queue'[j] < queue'[k]
    <3> SUFFICES ASSUME NEW j \in 1 .. n + 1, NEW k \in 1 .. n + 1, j < k
                 PROVE  queue'[j] < queue'[k]
      BY <2>1
    <3>1. j \in 1 .. n /\ queue'[j] = queue[j]
      BY <2>1
    <3>2. CASE k \in 1 .. n
      BY <2>1, <3>1, <3>2 DEF DeliveryInv, QueueInOrder
    <3>3. CASE k = n + 1
      BY <1>5, <2>1, <3>1, <3>3
    <3> QED
      BY <2>1, <3>2, <3>3
  <2>4. QueueInOrder'
    <3>1. Len(queue') <= QueueSize
      BY <1>7, <2>1, ConstantsAssumption DEF n
    <3>2. \A c \in Conns : \A r \in Contents(stream[c]) :
            \A k \in DOMAIN queue' : r < queue'[k]
      BY <1>3, <2>2 DEF DeliveryInv, QueueInOrder
    <3> QED
      BY <1>1, <2>3, <3>1, <3>2 DEF QueueInOrder
  <2>5. HeldInv'
    <3>1. \A t \in Conns : Holds(t) => item[t] < Limit'
      BY <1>1, <1>2, <1>4
    <3>2. \A t \in Conns : Holds(t) => \A k \in DOMAIN queue' : item[t] < queue'[k]
      BY <1>4, <2>2 DEF DeliveryInv, HeldInv
    <3> QED
      BY <1>1, <3>1, <3>2 DEF DeliveryInv, HeldInv, Holds
  <2>6. \A k \in DOMAIN queue' : queue'[k] < Limit'
    BY <1>1, <1>2, <1>5, <2>2
  <2>7. \A c \in Conns : \A r \in Contents(stream[c]) : r < Limit'
    BY <1>1, <1>2, <1>3
  <2>8. AtMostOnce'
    BY <1>1 DEF DeliveryInv, AtMostOnce
  <2> QED
    BY <1>1, <2>4, <2>5, <2>6, <2>7, <2>8 DEF DeliveryInv
<1> QED
  BY <1>6, <1>7 DEF AddQueue

(* A task takes the oldest record from the queue into its hands. *)
LEMMA TakeRecord ==
    ASSUME TypeOK, DeliveryInv, NEW t \in Conns, Receive(t)
    PROVE  DeliveryInv'
<1>1. /\ UNCHANGED <<stream, rx, made>>
      /\ queue # <<>>
      /\ queue' = Tail(queue)
      /\ item'[t] = Head(queue)
      /\ \A u \in Conns \ {t} : item'[u] = item[u] /\ (Holds(u)' => Holds(u))
      /\ Limit' = Limit
  BY DEF Receive, Goto, Limit, TypeOK, radioVars, netVars, Holds
<1>2. /\ 1 \in DOMAIN queue
      /\ item'[t] = queue[1]
      /\ Len(queue') = Len(queue) - 1
      /\ Len(queue) \in Nat
      /\ \A k \in DOMAIN queue' : k \in Nat /\ k >= 1 /\ k + 1 \in DOMAIN queue
                                 /\ queue'[k] = queue[k + 1]
  BY <1>1, TailElements, LenProperties DEF TypeOK
<1>3. QueueInOrder'
  <2>1. \A j, k \in DOMAIN queue' : j < k => queue'[j] < queue'[k]
    BY <1>2 DEF DeliveryInv, QueueInOrder
  <2>2. Len(queue') <= QueueSize
    BY <1>2, ConstantsAssumption DEF DeliveryInv, QueueInOrder
  <2>3. \A c \in Conns : \A r \in Contents(stream[c]) :
          \A k \in DOMAIN queue' : r < queue'[k]
    BY <1>2 DEF DeliveryInv, QueueInOrder
  <2> QED
    BY <1>1, <2>1, <2>2, <2>3 DEF QueueInOrder
<1>4. HeldInv'
  <2>1. /\ queue[1] < Limit
        /\ queue[1] \in Recs
        /\ \A k \in DOMAIN queue' : queue[1] < queue'[k]
    BY <1>2, LenProperties, ElementOfSeq DEF DeliveryInv, QueueInOrder, TypeOK
  <2>2. \A c \in Conns : queue[1] \notin Contents(stream[c])
    BY <1>2, <2>1 DEF DeliveryInv, QueueInOrder, Recs
  <2>3. \A u \in Conns : Holds(u) => item[u] # queue[1]
    BY <1>2, <2>1 DEF DeliveryInv, HeldInv, Recs
  <2>4. \A u \in Conns : Holds(u) => \A k \in DOMAIN queue' : item[u] < queue'[k]
    BY <1>2 DEF DeliveryInv, HeldInv
  <2> SUFFICES ASSUME NEW u \in Conns, Holds(u)'
               PROVE  /\ item'[u] < Limit
                      /\ \A k \in DOMAIN queue' : item'[u] < queue'[k]
                      /\ item'[u] \in Recs =>
                           /\ \A c \in Conns : item'[u] \notin Contents(stream[c])
                           /\ \A v \in Conns \ {u} : Holds(v)' => item'[v] # item'[u]
    BY <1>1 DEF HeldInv
  <2>5. CASE u = t
    BY <1>1, <1>2, <2>1, <2>2, <2>3, <2>5
  <2>6. CASE u # t
    <3>1. Holds(u) /\ item'[u] = item[u]
      BY <1>1, <2>6
    <3>2. ASSUME item[u] \in Recs, NEW v \in Conns \ {u}, Holds(v)'
          PROVE  item'[v] # item[u]
      BY <1>1, <1>2, <2>3, <3>1, <3>2 DEF DeliveryInv, HeldInv
    <3> QED
      BY <2>4, <3>1, <3>2 DEF DeliveryInv, HeldInv
  <2> QED
    BY <2>5, <2>6
<1>5. \A k \in DOMAIN queue' : queue'[k] < Limit
  BY <1>2 DEF DeliveryInv
<1> QED
  BY <1>1, <1>3, <1>4, <1>5 DEF DeliveryInv, AtMostOnce

(* DeliveryInv holds however many clients take over from each other.       *)
THEOREM DeliveryInvariant == Spec => []DeliveryInv
<1>1. Init => DeliveryInv
  <2> SUFFICES ASSUME Init PROVE DeliveryInv
    OBVIOUS
  <2>1. /\ \A c \in Conns : DOMAIN stream[c] = {} /\ Contents(stream[c]) = {}
        /\ DOMAIN queue = {}
        /\ Len(queue) = 0
    BY DEF Init, Contents
  <2>2. \A t \in Conns : ~ Holds(t)
    BY DEF Init, Holds
  <2>3. rx <= made
    BY DEF Init
  <2>4. AtMostOnce
    BY <2>1 DEF AtMostOnce
  <2>5. QueueInOrder
    BY <2>1, ConstantsAssumption DEF QueueInOrder
  <2> QED
    BY <2>1, <2>2, <2>3, <2>4, <2>5 DEF DeliveryInv, HeldInv
<1>2. TypeOK /\ DeliveryInv /\ [Next]_vars => DeliveryInv'
  <2> SUFFICES ASSUME TypeOK, DeliveryInv, [Next]_vars
               PROVE  DeliveryInv'
    OBVIOUS
  <2>1. CASE Accept \/ DisconnectOld \/ SetSock
    BY <2>1, NothingMoves DEF Accept, DisconnectOld, SetSock, Holds,
       taskVars, radioVars, netVars
  <2>2. CASE CreateTask
    <3>1. \A t \in Conns : Holds(t)' => Holds(t)
      BY <2>2 DEF CreateTask, Holds, TypeOK
    <3> QED
      BY <2>2, <3>1, NothingMoves DEF CreateTask, radioVars, netVars
  <2>3. CASE CaptureRecord
    BY <2>3, NewRecord
  <2>4. CASE AddQueue
    BY <2>4, QueueRecord
  <2>5. ASSUME NEW t \in Conns, Sniffer(t)
        PROVE  DeliveryInv'
    <3>1. CASE InitSniffer(t)
      <4>1. \A u \in Conns : Holds(u)' =>
              (Holds(u) /\ item'[u] = item[u]) \/ item'[u] = Hdr
        BY <3>1 DEF InitSniffer, Goto, Holds, TypeOK
      <4> QED
        BY <3>1, <4>1, NothingMoves DEF InitSniffer, radioVars, netVars
    <3>2. CASE CheckSock(t) \/ LoadSock(t) \/ SendLost(t)
      <4>1. \A u \in Conns : Holds(u)' => Holds(u)
        BY <3>2 DEF CheckSock, LoadSock, SendLost, Goto, Holds, TypeOK
      <4> QED
        BY <3>2, <4>1, NothingMoves
           DEF CheckSock, LoadSock, SendLost, radioVars, netVars
    <3>3. CASE CloseSock(t) \/ ClearSock(t) \/ DeinitSniffer(t) \/ DeleteTask(t)
      <4>1. \A u \in Conns : Holds(u)' => Holds(u)
        BY <3>3 DEF CloseSock, ClearSock, DeinitSniffer, DeleteTask, Goto, Holds, TypeOK
      <4> QED
        BY <3>3, <4>1, NothingMoves
           DEF CloseSock, ClearSock, DeinitSniffer, DeleteTask, radioVars, netVars
    <3>4. CASE SendWhole(t)
      <4>1. Target(t) \in Conns
        BY <3>4 DEF SendWhole, Target, TypeOK
      <4>2. /\ item[t] \in Recs \cup {Hdr, Frag}
            /\ item[t] < Limit
            /\ \A k \in DOMAIN queue : item[t] < queue[k]
            /\ item[t] \in Recs => \A d \in Conns : item[t] \notin Contents(stream[d])
        BY <3>4 DEF SendWhole, Holds, DeliveryInv, HeldInv, TypeOK
      <4>3. \A u \in Conns : Holds(u)' => Holds(u) /\ u # t
        BY <3>4 DEF SendWhole, Goto, Holds, TypeOK
      <4>4. \A u \in Conns : Holds(u)' => (item[t] \in Recs => item[u] # item[t])
        BY <3>4, <4>3 DEF SendWhole, Holds, DeliveryInv, HeldInv
      <4> QED
        BY <3>4, <4>1, <4>2, <4>3, <4>4, OneMoves DEF SendWhole, radioVars
    <3>5. ASSUME Frag < Limit, \A k \in DOMAIN queue : Frag < queue[k], Frag \notin Recs,
                 tpc[t] = "send", Goto(t, "loop") \/ Goto(t, "close"),
                 Target(t) # 0, Sent(Target(t), Frag),
                 UNCHANGED <<item, queue, rx, made>>
          PROVE  DeliveryInv'
      <4>1. Target(t) \in Conns
        BY <3>5 DEF Target, TypeOK
      <4>2. \A u \in Conns : Holds(u)' => Holds(u)
        BY <3>5 DEF Goto, Holds, TypeOK
      <4> QED
        BY <3>5, <4>1, <4>2, OneMoves
    <3>6. Frag < Limit /\ Frag \notin Recs /\ \A k \in DOMAIN queue : Frag < queue[k]
      <4>1. \A k \in DOMAIN queue : queue[k] \in Recs
        BY LenProperties, ElementOfSeq DEF TypeOK
      <4> QED
        BY <4>1, LimitType, ConstantsAssumption DEF Recs
    <3>7. CASE SendShort(t)
      BY <3>5, <3>6, <3>7 DEF SendShort, radioVars
    <3>8. CASE SendFails(t)
      <4>1. CASE UNCHANGED stream
        <5>1. \A u \in Conns : Holds(u)' => Holds(u)
          BY <3>8 DEF SendFails, Goto, Holds, TypeOK
        <5> QED
          BY <3>8, <4>1, <5>1, NothingMoves DEF SendFails, radioVars
      <4>2. CASE Target(t) # 0 /\ Sent(Target(t), Frag)
        BY <3>5, <3>6, <3>8, <4>2 DEF SendFails, radioVars
      <4> QED
        BY <3>8, <4>1, <4>2 DEF SendFails
    <3>9. CASE Receive(t)
      BY <3>9, TakeRecord
    <3> QED
      BY <2>5, <3>1, <3>2, <3>3, <3>4, <3>7, <3>8, <3>9 DEF Sniffer
  <2>6. ASSUME NEW c \in Conns, PeerCloses(c)
        PROVE  DeliveryInv'
    BY <2>6, NothingMoves DEF PeerCloses, Holds, taskVars, radioVars
  <2>7. CASE UNCHANGED vars
    BY <2>7, NothingMoves DEF vars, Holds, taskVars, radioVars, netVars
  <2> QED
    BY <2>1, <2>2, <2>3, <2>4, <2>5, <2>6, <2>7 DEF Next, Acceptor
<1> QED
  BY <1>1, <1>2, TypeCorrect, PTL DEF Spec

(* AtMostOnce: no captured record is delivered twice, although several     *)
(* sniffer tasks drain one queue and write to whatever _sock names         *)
(* (wifi_sniffer.c:478, main.c:74).                                        *)
THEOREM Delivery == Spec => []AtMostOnce
<1>1. DeliveryInv => AtMostOnce
  BY DEF DeliveryInv
<1> QED
  BY <1>1, DeliveryInvariant, PTL

(* QueueInOrder: the packet queue is bounded, in capture order and newer   *)
(* than all that was sent (wifi_sniffer.c:184).                            *)
THEOREM QueueOrder == Spec => []QueueInOrder
<1>1. DeliveryInv => QueueInOrder
  BY DEF DeliveryInv
<1> QED
  BY <1>1, DeliveryInvariant, PTL

-----------------------------------------------------------------------------
(* WholeItems fails when write() may send a part and report success; that  *)
(* is its only cause, whatever the number of clients and of tasks.         *)

(* A connection that does not exist yet has no descriptor and no stream.   *)
WholeInv ==
    /\ WholeItems
    /\ \A f \in Fds : owner[f] <= accepted
    /\ \A c \in Conns : c > accepted => peer[c] = "none" /\ stream[c] = <<>>

(* A whole item goes to a client that is there, or a part of one goes to a *)
(* client whose connection breaks with it.                                 *)
LEMMA WholeAppend ==
    ASSUME TypeOK, WholeItems, NEW c \in Conns, peer[c] = "up",
           NEW e \in Recs \cup {Hdr, Frag}, Sent(c, e),
           \/ e # Frag /\ peer' = peer
           \/ e = Frag /\ peer' = [peer EXCEPT ![c] = "down"]
    PROVE  WholeItems'
<1>1. /\ stream'[c] = Append(stream[c], e)
      /\ \A d \in Conns \ {c} : stream'[d] = stream[d] /\ peer'[d] = peer[d]
      /\ e = Frag => peer'[c] = "down"
  BY DEF Sent, TypeOK
<1>2. stream[c] \in Seq(Recs \cup {Hdr, Frag})
  BY DEF TypeOK
<1>3. \A i \in DOMAIN stream[c] : stream[c][i] # Frag
  BY DEF WholeItems
<1>4. ASSUME NEW i \in DOMAIN stream'[c], stream'[c][i] = Frag
      PROVE  i = Len(stream'[c]) /\ peer'[c] = "down"
  <2>1. /\ DOMAIN stream'[c] = 1 .. Len(stream[c]) + 1
        /\ Len(stream'[c]) = Len(stream[c]) + 1
        /\ \A j \in 1 .. Len(stream[c]) : stream'[c][j] = stream[c][j]
        /\ stream'[c][Len(stream[c]) + 1] = e
        /\ DOMAIN stream[c] = 1 .. Len(stream[c])
        /\ Len(stream[c]) \in Nat
    BY <1>1, <1>2, AppendElements
  <2>2. i \notin 1 .. Len(stream[c])
    BY <1>3, <1>4, <2>1
  <2>3. i = Len(stream[c]) + 1
    BY <2>1, <2>2
  <2> QED
    BY <1>1, <1>4, <2>1, <2>3
<1> QED
  BY <1>1, <1>4 DEF WholeItems

(* WholeItems: when write() sends an item in full or fails, a part of an   *)
(* item is only ever the last of a connection that broke, however many     *)
(* tasks write to it (tcp_server.c:51-60, capture_lib.c:7-40).             *)
THEOREM OnlyShortWritesTear ==
    ASSUME ~ ShortWrites
    PROVE  Spec => []WholeItems
<1>1. Init => WholeInv
  BY DEF Init, WholeInv, WholeItems
<1>2. TypeOK /\ WholeInv /\ [Next]_vars => WholeInv'
  <2> SUFFICES ASSUME TypeOK, WholeInv, [Next]_vars
               PROVE  WholeInv'
    OBVIOUS
  <2>a. ASSUME UNCHANGED <<stream, accepted>>,
               \A f \in Fds : owner'[f] \in {0, owner[f]},
               \A c \in Conns : peer'[c] = peer[c] \/ (peer[c] = "up" /\ peer'[c] = "down")
        PROVE  WholeInv'
    <3>1. accepted \in Nat
      BY ConstantsAssumption DEF TypeOK
    <3>2. WholeItems'
      BY <2>a DEF WholeInv, WholeItems
    <3>3. \A f \in Fds : owner'[f] <= accepted
      BY <2>a, <3>1 DEF WholeInv
    <3>4. \A c \in Conns : c > accepted => peer'[c] = "none"
      BY <2>a DEF WholeInv
    <3> QED
      BY <2>a, <3>2, <3>3, <3>4 DEF WholeInv
  <2>1. CASE Accept
    <3>1. PICK f \in Fds : owner' = [owner EXCEPT ![f] = accepted + 1]
      BY <2>1 DEF Accept
    <3>2. /\ accepted' = accepted + 1 /\ accepted \in Nat
          /\ peer' = [peer EXCEPT ![accepted + 1] = "up"]
          /\ stream' = stream
      BY <2>1, ConstantsAssumption DEF Accept, TypeOK
    <3>3. \A g \in Fds : owner[g] \in Nat /\ owner'[g] \in {owner[g], accepted + 1}
      BY <3>1 DEF TypeOK, Conns
    <3>4. \A c \in Conns : c # accepted + 1 => peer'[c] = peer[c]
      BY <3>2 DEF TypeOK
    <3>5. \A c \in Conns : c \in Nat /\ (c = accepted + 1 => stream[c] = <<>>)
      BY <3>2 DEF WholeInv, Conns
    <3>6. WholeItems'
      BY <3>2, <3>4, <3>5 DEF WholeInv, WholeItems
    <3>7. \A g \in Fds : owner'[g] <= accepted'
      BY <3>2, <3>3 DEF WholeInv
    <3>8. \A c \in Conns : c > accepted' => peer'[c] = "none" /\ stream'[c] = <<>>
      BY <3>2, <3>4, <3>5 DEF WholeInv
    <3> QED
      BY <3>6, <3>7, <3>8 DEF WholeInv
  <2>2. CASE DisconnectOld \/ SetSock \/ CreateTask \/ CaptureRecord \/ AddQueue
             \/ UNCHANGED vars
    BY <2>2, <2>a DEF DisconnectOld, SetSock, CreateTask, CaptureRecord, AddQueue, vars,
           accVars, taskVars, netVars, Closed, TypeOK
  <2>3. CASE \E c \in Conns : PeerCloses(c)
    BY <2>3, <2>a DEF PeerCloses, accVars, TypeOK
  <2>4. ASSUME NEW t \in Conns, Sniffer(t)
        PROVE  WholeInv'
    <3> DEFINE c == Target(t)
    <3>b. accepted' = accepted
      BY <2>4 DEF Sniffer, InitSniffer, CheckSock, LoadSock, SendWhole, SendLost, SendShort,
             SendFails, CloseSock, ClearSock, DeinitSniffer, DeleteTask, Receive, accVars
    <3>c. c # 0 => c \in Conns /\ c <= accepted
      BY DEF Target, TypeOK, WholeInv
    <3>d. accepted \in Nat /\ Conns \subseteq Nat
      BY ConstantsAssumption DEF TypeOK, Conns
    <3>e. ASSUME c # 0, NEW e, Sent(c, e)
          PROVE  \A d \in Conns : d > accepted => stream'[d] = stream[d]
      BY <3>c, <3>d, <3>e DEF Sent, TypeOK
    <3>1. CASE SendWhole(t)
      <4>1. /\ c # 0 /\ peer[c] = "up" /\ Sent(c, item[t]) /\ UNCHANGED <<peer, owner>>
            /\ item[t] \in Recs \cup {Hdr} /\ item[t] # Frag
        BY <3>1 DEF SendWhole, TypeOK, Recs, Hdr, Frag
      <4>2. WholeItems'
        BY <3>c, <4>1, WholeAppend DEF WholeInv
      <4> QED
        BY <3>b, <3>e, <4>1, <4>2 DEF WholeInv
    <3>2. CASE SendFails(t) /\ c # 0
      <4>1. /\ peer' = [peer EXCEPT ![c] = "down"] /\ owner' = owner
            /\ \/ UNCHANGED stream
               \/ peer[c] = "up" /\ Sent(c, Frag)
        BY <3>2 DEF SendFails
      <4>2. \A d \in Conns : d > accepted => peer'[d] = peer[d]
        BY <3>2, <3>c, <3>d, <4>1 DEF TypeOK
      <4>3. CASE UNCHANGED stream
        <5>1. \A d \in Conns : peer'[d] = peer[d] \/ peer'[d] = "down"
          BY <4>1 DEF TypeOK
        <5>2. WholeItems'
          BY <4>3, <5>1 DEF WholeInv, WholeItems
        <5> QED
          BY <3>b, <4>1, <4>2, <4>3, <5>2 DEF WholeInv
      <4>4. CASE peer[c] = "up" /\ Sent(c, Frag)
        <5>1. WholeItems'
          BY <3>2, <3>c, <4>1, <4>4, WholeAppend DEF WholeInv
        <5> QED
          BY <3>2, <3>b, <3>e, <4>1, <4>2, <4>4, <5>1 DEF WholeInv
      <4> QED
        BY <4>1, <4>3, <4>4
    <3>3. CASE SendShort(t)
      BY <3>3 DEF SendShort
    <3>4. CASE CloseSock(t)
      BY <3>4, <2>a DEF CloseSock, Closed, accVars, TypeOK
    <3>5. CASE \/ SendFails(t) /\ c = 0
               \/ InitSniffer(t) \/ CheckSock(t) \/ LoadSock(t) \/ SendLost(t)
               \/ ClearSock(t) \/ DeinitSniffer(t) \/ DeleteTask(t) \/ Receive(t)
      BY <3>5, <3>b, <2>a DEF SendFails, InitSniffer, CheckSock, LoadSock, SendLost, ClearSock,
             DeinitSniffer, DeleteTask, Receive, netVars
    <3> QED
      BY <2>4, <3>1, <3>2, <3>3, <3>4, <3>5 DEF Sniffer
  <2> QED
    BY <2>1, <2>2, <2>3, <2>4 DEF Next, Acceptor
<1>3. WholeInv => WholeItems
  BY DEF WholeInv
<1> QED
  BY <1>1, <1>2, <1>3, TypeCorrect, PTL DEF Spec
-----------------------------------------------------------------------------
(* OwnOrLater is about what a task has read from _sock, so the invariant   *)
(* is about _sock too.                                                     *)

(* Descriptor f is closed or that of a connection not before t.            *)
NotBefore(f, t) == f \in Fds => owner[f] = 0 \/ owner[f] >= t

ReachInv ==
    /\ \A f \in Fds : owner[f] <= accepted
    /\ \A t \in Conns : t > accepted => tpc[t] = "none"
    /\ apc # "accept" =>
         accepted \in Conns /\ tpc[accepted] = "none" /\ NotBefore(newSock, accepted)
    /\ apc = "create" => sock \in {0, newSock}
    /\ handle \in Conns => tpc[handle] # "none"
    /\ \A t \in Conns :
         /\ tpc[t] # "none" => NotBefore(sock, t)
         /\ tpc[t] \in {"send", "close"} => NotBefore(tfd[t], t)

(* A step in which nobody is accepted and no task created. *)
LEMMA ReachStep ==
    ASSUME TypeOK, ReachInv,
           UNCHANGED <<accepted, newSock, handle>>,
           \A f \in Fds : owner'[f] \in {0, owner[f]},
           apc' # "accept" => apc # "accept",
           apc' = "create" => sock' \in {0, newSock},
           sock' \in {0, sock} \/ (sock' = newSock /\ apc = "setSock"),
           \A t \in Conns :
              /\ tpc'[t] = "none" <=> tpc[t] = "none"
              /\ tpc'[t] \in {"send", "close"} =>
                   \/ tpc[t] \in {"send", "close"} /\ tfd'[t] = tfd[t]
                   \/ tpc[t] # "none" /\ tfd'[t] = sock
    PROVE  ReachInv'
<1>a. accepted \in Nat /\ 0 \notin Fds /\ Conns \subseteq Nat
      /\ \A f \in Fds : owner[f] \in Nat
  BY ConstantsAssumption DEF TypeOK, Conns
<1>1. \A f \in Fds \cup {0}, t \in Conns : NotBefore(f, t) => NotBefore(f, t)'
  BY DEF NotBefore
<1>b. newSock \in Fds \cup {0} /\ sock \in Fds \cup {0}
      /\ \A t \in Conns : tfd[t] \in Fds \cup {0}
  BY DEF TypeOK
<1>2. \A f \in Fds : owner'[f] <= accepted'
  BY <1>a DEF ReachInv
<1>3. \A t \in Conns : t > accepted' => tpc'[t] = "none"
  BY DEF ReachInv
<1>4. ASSUME apc' # "accept"
      PROVE  accepted' \in Conns /\ tpc'[accepted'] = "none" /\ NotBefore(newSock, accepted)'
  <2>1. /\ accepted \in Conns /\ tpc[accepted] = "none"
        /\ NotBefore(newSock, accepted)
    BY <1>4 DEF ReachInv
  <2>2. \A f \in Fds : owner'[f] = 0 \/ owner'[f] = owner[f]
    OBVIOUS
  <2>3. NotBefore(newSock, accepted)'
    BY <2>1, <2>2 DEF NotBefore
  <2> QED
    BY <2>1, <2>3
<1>5. ASSUME NEW t \in Conns, tpc'[t] # "none"
      PROVE  NotBefore(sock, t)'
  <2>1. tpc[t] # "none" /\ NotBefore(sock, t)
    BY <1>5 DEF ReachInv
  <2>2. CASE sock' = sock
    BY <1>1, <1>b, <2>1, <2>2 DEF NotBefore
  <2>3. CASE sock' = 0
    BY <1>a, <2>3 DEF NotBefore
  <2>4. CASE sock' = newSock /\ apc = "setSock"
    <3>1. NotBefore(newSock, accepted) /\ t <= accepted /\ accepted \in Conns
      BY <1>a, <2>1, <2>4 DEF ReachInv
    <3>2. NotBefore(newSock, t)
      BY <1>a, <3>1 DEF NotBefore
    <3> QED
      BY <1>1, <1>b, <2>4, <3>2 DEF NotBefore
  <2> QED
    BY <2>2, <2>3, <2>4
<1>6. ASSUME NEW t \in Conns, tpc'[t] \in {"send", "close"}
      PROVE  NotBefore(tfd[t], t)'
  <2>1. PICK f \in Fds \cup {0} : f = tfd'[t] /\ NotBefore(f, t)
    BY <1>6, <1>b DEF ReachInv
  <2>2. NotBefore(f, t)'
    BY <1>1, <2>1
  <2> QED
    BY <2>1, <2>2 DEF NotBefore
<1>7. handle' \in Conns => tpc'[handle'] # "none"
  BY DEF ReachInv
<1> QED
  BY <1>2, <1>3, <1>4, <1>5, <1>6, <1>7 DEF ReachInv

(* OwnOrLater: however many clients there are at a time and however their  *)
(* descriptors are reused, no task writes to, or closes, the connection of *)
(* a client that came before its own (main.c:47-50, 74-76,                 *)
(* tcp_server.c:18-27).                                                    *)
THEOREM NeverAnEarlierClient == Spec => []OwnOrLater
<1>1. Init => ReachInv
  BY ConstantsAssumption DEF Init, ReachInv, NotBefore
<1>2. TypeOK /\ ReachInv /\ [Next]_vars => ReachInv'
  <2> SUFFICES ASSUME TypeOK, ReachInv, [Next]_vars
               PROVE  ReachInv'
    OBVIOUS
  <2>a. accepted \in Nat /\ 0 \notin Fds /\ Conns \subseteq Nat \ {0}
    BY ConstantsAssumption DEF TypeOK, Conns
  <2>1. CASE Accept
    <3>1. PICK f \in Fds : /\ owner[f] = 0 /\ newSock' = f
                           /\ owner' = [owner EXCEPT ![f] = accepted + 1]
      BY <2>1 DEF Accept
    <3>2. /\ accepted' = accepted + 1 /\ accepted + 1 \in Conns
          /\ apc' = "disconnect"
          /\ UNCHANGED <<sock, handle, tpc, tfd>>
      BY <2>1, <2>a, ConstantsAssumption DEF Accept, taskVars, Conns
    <3>3. \A g \in Fds : owner[g] \in Nat /\ owner'[g] \in {owner[g], accepted'}
      BY <3>1, <3>2 DEF TypeOK, Conns
    <3>4. \A t \in Conns : tpc[t] # "none" => t <= accepted
      BY <2>a DEF ReachInv
    <3>5. \A g, t : tpc[t] # "none" /\ t \in Conns /\ NotBefore(g, t) => NotBefore(g, t)'
      BY <2>a, <3>2, <3>3, <3>4 DEF NotBefore
    <3>6. NotBefore(newSock, accepted)'
      BY <2>a, <3>1, <3>2 DEF NotBefore, TypeOK
    <3>7. \A g \in Fds : owner'[g] <= accepted'
      BY <2>a, <3>2, <3>3 DEF ReachInv
    <3>8. tpc'[accepted'] = "none" /\ \A t \in Conns : t > accepted' => tpc'[t] = "none"
      BY <2>a, <3>2 DEF ReachInv
    <3>9. \A t \in Conns : /\ tpc'[t] # "none" => NotBefore(sock, t)'
                           /\ tpc'[t] \in {"send", "close"} => NotBefore(tfd[t], t)'
      BY <3>2, <3>5 DEF ReachInv, NotBefore
    <3> QED
      BY <3>2, <3>6, <3>7, <3>8, <3>9 DEF ReachInv
  <2>2. CASE DisconnectOld
    <3>1. /\ apc = "disconnect" /\ apc' = "setSock"
          /\ UNCHANGED <<accepted, newSock, sock, handle, tpc, tfd>>
          /\ \A f \in Fds : owner'[f] \in {0, owner[f]}
      BY <2>2 DEF DisconnectOld, Closed, taskVars, TypeOK
    <3> QED
      BY <3>1, ReachStep
  <2>3. CASE SetSock
    <3>1. /\ apc = "setSock" /\ apc' = "create" /\ sock' = newSock
          /\ UNCHANGED <<accepted, newSock, handle, owner, tpc, tfd>>
      BY <2>3 DEF SetSock, taskVars, netVars
    <3> QED
      BY <3>1, ReachStep
  <2>4. CASE CreateTask
    <3>1. /\ apc = "create" /\ apc' = "accept"
          /\ UNCHANGED <<accepted, newSock, sock, owner, tfd>>
          /\ \/ tpc' = [tpc EXCEPT ![accepted] = "init"] /\ handle' = accepted
             \/ tpc' = tpc /\ handle' = handle
      BY <2>4 DEF CreateTask, netVars
    <3>2. /\ accepted \in Conns /\ NotBefore(newSock, accepted) /\ sock \in {0, newSock}
      BY <3>1 DEF ReachInv
    <3>3. NotBefore(sock, accepted)
      BY <2>a, <3>2 DEF NotBefore
    <3>4. \A t \in Conns : tpc'[t] = tpc[t] \/ (t = accepted /\ tpc'[t] = "init")
      BY <3>1, <3>2 DEF TypeOK
    <3>5. \A t \in Conns : tpc'[t] # "none" => NotBefore(sock, t)
      BY <3>3, <3>4 DEF ReachInv
    <3>6. \A t \in Conns : tpc'[t] \in {"send", "close"} => NotBefore(tfd[t], t)
      BY <3>4 DEF ReachInv
    <3>7. \A t \in Conns : t > accepted => tpc'[t] = "none"
      BY <2>a, <3>2, <3>4 DEF ReachInv
    <3>8. handle' \in Conns => tpc'[handle'] # "none"
      BY <3>1, <3>2, <3>4 DEF ReachInv, TypeOK
    <3> QED
      BY <3>1, <3>5, <3>6, <3>7, <3>8 DEF ReachInv, NotBefore
  <2>5. CASE CaptureRecord \/ AddQueue \/ (\E c \in Conns : PeerCloses(c)) \/ UNCHANGED vars
    BY <2>5 DEF CaptureRecord, AddQueue, PeerCloses, vars, accVars, taskVars, netVars,
                ReachInv, NotBefore
  <2>6. ASSUME NEW t \in Conns, Sniffer(t)
        PROVE  ReachInv'
    <3>1. UNCHANGED <<apc, accepted, newSock, handle>> /\ sock' \in {0, sock}
      BY <2>6 DEF Sniffer, InitSniffer, CheckSock, LoadSock, SendWhole, SendLost, SendShort,
             SendFails, CloseSock, ClearSock, DeinitSniffer, DeleteTask, Receive, accVars
    <3>2. \A f \in Fds : owner'[f] \in {0, owner[f]}
      BY <2>6 DEF Sniffer, InitSniffer, CheckSock, LoadSock, SendWhole, SendLost, SendShort,
             SendFails, CloseSock, ClearSock, DeinitSniffer, DeleteTask, Receive, netVars,
             Closed, TypeOK
    <3>3. apc' = "create" => sock' \in {0, newSock}
      BY <3>1 DEF ReachInv
    <3>4. /\ tpc[t] # "none"
          /\ \/ tfd' = tfd
             \/ LoadSock(t)
      BY <2>6 DEF Sniffer, InitSniffer, CheckSock, LoadSock, SendWhole, SendLost, SendShort,
             SendFails, CloseSock, ClearSock, DeinitSniffer, DeleteTask, Receive
    <3>5. CASE DeleteTask(t)
      <4>1. tfd' = tfd
            /\ (tpc' = tpc \/ (/\ tpc' = [tpc EXCEPT ![t] = "loop", ![handle] = "dead"]
                               /\ tpc[handle] # "dead"))
        BY <3>5 DEF DeleteTask
      <4>2. \A u \in Conns :
              /\ tpc'[u] = "none" <=> tpc[u] = "none"
              /\ tpc'[u] \in {"send", "close"} => tpc[u] = tpc'[u]
        BY <3>4, <4>1 DEF TypeOK, ReachInv
      <4> QED
        BY <3>1, <3>2, <3>3, <4>1, <4>2, ReachStep
    <3>6. CASE ~ DeleteTask(t)
      <4>1. PICK l \in TaskSteps \ {"none"} : Goto(t, l)
        BY <2>6, <3>6 DEF Sniffer, InitSniffer, CheckSock, LoadSock, SendWhole, SendLost,
               SendShort, SendFails, CloseSock, ClearSock, DeinitSniffer, Receive, TaskSteps
      <4>2. tpc'[t] = l /\ \A u \in Conns \ {t} : tpc'[u] = tpc[u]
        BY <4>1 DEF Goto, TypeOK
      <4>3. l \in {"send", "close"} =>
              \/ tfd'[t] = sock
              \/ tpc[t] \in {"send", "close"} /\ tfd'[t] = tfd[t]
        BY <2>6, <3>6, <4>2 DEF Sniffer, InitSniffer, CheckSock, LoadSock, SendWhole,
               SendLost, SendShort, SendFails, CloseSock, ClearSock, DeinitSniffer, Receive,
               Goto, TypeOK
      <4>4. \A u \in Conns \ {t} : tfd'[u] = tfd[u]
        BY <3>4 DEF LoadSock, TypeOK
      <4>5. \A u \in Conns :
              /\ tpc'[u] = "none" <=> tpc[u] = "none"
              /\ tpc'[u] \in {"send", "close"} =>
                   \/ tpc[u] \in {"send", "close"} /\ tfd'[u] = tfd[u]
                   \/ tpc[u] # "none" /\ tfd'[u] = sock
        BY <3>4, <4>2, <4>3, <4>4
      <4> QED
        BY <3>1, <3>2, <3>3, <4>5, ReachStep
    <3> QED
      BY <3>5, <3>6
  <2> QED
    BY <2>1, <2>2, <2>3, <2>4, <2>5, <2>6 DEF Next, Acceptor
<1>3. TypeOK /\ ReachInv => OwnOrLater
  <2> SUFFICES ASSUME TypeOK, ReachInv, NEW t \in Conns, tpc[t] \in {"send", "close"}
               PROVE  Target(t) = 0 \/ Target(t) >= t
    BY DEF OwnOrLater
  <2> QED
    BY DEF ReachInv, NotBefore, Target
<1> QED
  BY <1>1, <1>2, <1>3, TypeCorrect, PTL DEF Spec
=============================================================================
