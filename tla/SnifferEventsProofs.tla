------------------------ MODULE SnifferEventsProofs -------------------------
(* Theorems about SnifferEvents, for every value of its constants. *)
EXTENDS SnifferEvents, TLAPS

-----------------------------------------------------------------------------
(* Types *)

LEMMA TypeInit == Init => TypeOK
<1> SUFFICES ASSUME Init PROVE TypeOK
  OBVIOUS
<1> USE EventsAssumption
<1>1. AtFirst \in Texts
  BY DEF AtFirst, Texts
<1>2. ev \in Seq(Events) /\ Len(ev) <= QueueSize
  BY DEF Init
<1>3. pc \in [Posters -> Steps] /\ hpc \in [Readers -> Reads] /\ boot \in Boot
  BY DEF Init, Steps, Reads, Boot
<1>4. val \in [Setters -> Texts] /\ seen \in [Readers -> Texts] /\ shown \in Texts
  BY <1>1 DEF Init
<1> QED
  BY <1>2, <1>3, <1>4 DEF Init, TypeOK

LEMMA AbortTypes == ASSUME TypeOK, Abort PROVE TypeOK'
<1> USE EventsAssumption
<1>1. AtFirst \in Texts
  BY DEF AtFirst, Texts
<1>2. (ev \in Seq(Events) /\ Len(ev) <= QueueSize)'
  BY DEF Abort
<1>3. (pc \in [Posters -> Steps] /\ hpc \in [Readers -> Reads] /\ boot \in Boot)'
  BY DEF Abort, Steps, Reads, Boot
<1>4. (val \in [Setters -> Texts] /\ seen \in [Readers -> Texts] /\ shown \in Texts)'
  BY <1>1 DEF Abort
<1> QED
  BY <1>2, <1>3, <1>4 DEF Abort, TypeOK

LEMMA TypeNext == TypeOK /\ [Next]_vars => TypeOK'
<1> SUFFICES ASSUME TypeOK, [Next]_vars PROVE TypeOK'
  OBVIOUS
<1> USE EventsAssumption
<1> USE DEF TypeOK, filterVars, readVars, countVars
<1>a. AtFirst \in Texts /\ InForce \in Texts
  BY DEF AtFirst, InForce, Texts
<1>b. \A p \in Posters : Back(p) \in Steps
  BY DEF Back, Steps
<1>c. "main" \in Setters /\ Setters \subseteq Posters /\ Users \subseteq Setters
  BY DEF Setters, Posters
<1>1. ASSUME NEW p \in Users, Change(p) PROVE TypeOK'
  <2>1. PICK l \in {"rssi", "addr2"}, t \in Texts :
          Goto(p, l) /\ val' = [val EXCEPT ![p] = t]
    BY <1>1, SMTT(30) DEF Change, SetNext, Texts
  <2> QED
    BY <1>1, <1>c, <2>1 DEF Change, Goto, Steps
<1>2. ASSUME NEW p \in Setters, SetAddr2(p) PROVE TypeOK'
  <2>1. CASE Abort
    BY <2>1, AbortTypes
  <2>2. CASE ~ Abort
    <3>1. addr2' \in Filters
      BY <1>2, <2>2 DEF SetAddr2, Texts
    <3> QED
      BY <1>2, <1>a, <1>c, <2>2, <3>1 DEF SetAddr2, Goto, Steps
  <2> QED
    BY <2>1, <2>2
<1>3. ASSUME NEW p \in Setters, SetRssi(p) PROVE TypeOK'
  <2>1. rssi' \in Rssis
    BY <1>3 DEF SetRssi, Texts
  <2> QED
    BY <1>3, <1>a, <1>c, <2>1 DEF SetRssi, Goto, Steps
<1>0. ASSUME NEW p \in Setters, SaveFails(p) PROVE TypeOK'
  BY <1>0, AbortTypes DEF SaveFails
<1>4. ASSUME NEW p \in Posters, Post(p) PROVE TypeOK'
  <2>1. EventOf(p) \in Events
    BY DEF EventOf, Events
  <2>2. ev' \in Seq(Events) /\ Len(ev') <= QueueSize
    BY <1>4, <2>1 DEF Post
  <2>3. missed' \in BOOLEAN
    BY <1>4, Zenon DEF Post
  <2> QED
    BY <1>4, <1>b, <2>2, <2>3 DEF Post, Goto
<1>5. CASE Main
  <2>0. CASE Abort
    BY <2>0, AbortTypes
  <2>1. boot' \in Boot
    BY <1>5 DEF Main, Create, SetOwnMac, PostIsUp, RestoreRssi, RestoreAddr2, Stage, Boot, Abort
  <2>2. CASE Create
    BY <2>1, <2>2 DEF Create
  <2>3. CASE PostIsUp
    BY <2>1, <2>3 DEF PostIsUp, Goto, Steps
  <2>4. CASE RestoreRssi \/ RestoreAddr2
    <3>1. PICK l \in {"rssi", "addr2"}, t \in Texts :
            Goto("main", l) /\ val' = [val EXCEPT !["main"] = t]
      BY <2>4, SMTT(30) DEF RestoreRssi, RestoreAddr2, SetNext, Texts
    <3> QED
      BY <1>c, <2>1, <2>4, <3>1 DEF RestoreRssi, RestoreAddr2, Goto, Steps
  <2>5. CASE SetOwnMac /\ ~ Abort
    BY <2>1, <2>5 DEF SetOwnMac
  <2> QED
    BY <1>5, <2>0, <2>2, <2>3, <2>4, <2>5 DEF Main
<1>6. CASE Accept \/ StartCapture \/ QueueFull
  BY <1>6 DEF Accept, StartCapture, QueueFull, Goto, Steps
<1>7. CASE Receive
  <2>1. CASE Abort
    BY <2>1, AbortTypes
  <2>2. CASE ~ Abort
    BY <1>7, <2>2 DEF Receive, Goto, Steps
  <2> QED
    BY <2>1, <2>2
<1>8. CASE HandleEvent
  <2>1. ev' \in Seq(Events) /\ Len(ev') <= QueueSize
    BY <1>8 DEF HandleEvent
  <2> QED
    BY <1>8, <2>1 DEF HandleEvent, Reads
<1>9. CASE WifiNews
  BY <1>9 DEF WifiNews, Reads
<1>10. ASSUME NEW d \in Readers, Display(d) PROVE TypeOK'
  <2>1. CASE ReadAddr2(d)
    <3>1. [seen[d] EXCEPT !.mac = addr2] \in Texts
      BY DEF Texts
    <3> QED
      BY <2>1, <3>1 DEF ReadAddr2, Reads
  <2>2. CASE ReadRssi(d)
    <3>1. [seen[d] EXCEPT !.rssi = rssi] \in Texts
      BY DEF Texts
    <3> QED
      BY <2>2, <3>1 DEF ReadRssi, Reads
  <2>3. CASE Show(d)
    <3>1. late' \in BOOLEAN
      BY <2>3, Zenon DEF Show
    <3> QED
      BY <1>a, <2>3, <3>1 DEF Show, Reads
  <2> QED
    BY <1>10, <2>1, <2>2, <2>3 DEF Display
<1>11. CASE UNCHANGED vars
  BY <1>11 DEF vars
<1> QED
  BY <1>0, <1>1, <1>2, <1>3, <1>4, <1>5, <1>6, <1>7, <1>8, <1>9, <1>10, <1>11 DEF Next

(* TypeOK: in particular the queue of the event loop never holds more than *)
(* its size, whoever posts (wifi_sniffer.c:38-47, 52-61).                  *)
THEOREM EventsTypes == Spec => []TypeOK
  BY TypeInit, TypeNext, PTL DEF Spec

-----------------------------------------------------------------------------
(* The display *)

Has(s, e) == \E i \in DOMAIN s : s[i] = e

LEMMA AppendHas ==
    ASSUME NEW s \in Seq(Events), NEW x \in Events, NEW e
    PROVE  Has(Append(s, x), e) <=> Has(s, e) \/ x = e
<1>1. DOMAIN Append(s, x) = 1 .. Len(s) + 1 /\ DOMAIN s = 1 .. Len(s)
  OBVIOUS
<1>2. \A i \in 1 .. Len(s) : Append(s, x)[i] = s[i]
  OBVIOUS
<1>3. Append(s, x)[Len(s) + 1] = x
  OBVIOUS
<1>4. Len(s) \in Nat
  OBVIOUS
<1> QED
  BY <1>1, <1>2, <1>3, <1>4 DEF Has

LEMMA TailHas ==
    ASSUME NEW s \in Seq(Events), s # <<>>, NEW e, Has(s, e), Head(s) # e
    PROVE  Has(Tail(s), e)
<1>1. PICK i \in 1 .. Len(s) : s[i] = e
  BY DEF Has
<1>2. i # 1
  BY <1>1
<1>3. i - 1 \in 1 .. Len(Tail(s)) /\ Tail(s)[i - 1] = e
  BY <1>1, <1>2
<1>4. Tail(s) \in Seq(Events)
  OBVIOUS
<1>5. DOMAIN Tail(s) = 1 .. Len(Tail(s))
  BY <1>4
<1> QED
  BY <1>3, <1>5 DEF Has

(* The main task will still set the address filter, and post. *)
MainOwes == boot \notin {"noFilter", "up"} \/ (boot = "noFilter" /\ pc["main"] = "addr2")

(* A change is on its way to the display, or was lost. *)
Due == MainOwes \/ Waiting("changed") \/ (\E p \in Setters : Owes(p)) \/ missed

(* What the handler of the sniffer's events has read so far is in force,   *)
(* and so is what is shown when it waits, unless a change is due.          *)
FreshInv ==
    /\ pc["main"] = "rssi" => boot = "addr2"
    /\ pc["main"] = "addr2" => boot = "noFilter"
    /\ boot = "up" => pc["main"] = "boot"
    /\ hpc["events"] = "rssi" => Due \/ seen["events"].mac = addr2
    /\ hpc["events"] = "print" => Due \/ seen["events"] = InForce
    /\ hpc["events"] = "wait" => Due \/ late \/ shown = InForce

LEMMA FreshInit == Init => FreshInv
<1> SUFFICES ASSUME Init PROVE FreshInv
  OBVIOUS
<1>1. boot = "server" /\ pc["main"] = "boot"
  BY DEF Init, Posters, Setters
<1> QED
  BY <1>1 DEF FreshInv, Due, MainOwes

LEMMA AbortFresh == ASSUME Abort PROVE FreshInv'
<1>1. (boot = "server" /\ pc["main"] = "boot")'
  BY DEF Abort, Posters, Setters
<1> QED
  BY <1>1 DEF FreshInv, Due, MainOwes

(* A step that sets no filter, prints nothing and leaves what is due due   *)
(* keeps the invariant.                                                    *)
LEMMA StillFresh ==
    ASSUME FreshInv, UNCHANGED <<filterVars, hpc, seen, shown, late>>,
           Due => Due',
           (/\ pc["main"] = "rssi" => boot = "addr2"
            /\ pc["main"] = "addr2" => boot = "noFilter"
            /\ boot = "up" => pc["main"] = "boot")'
    PROVE  FreshInv'
  BY DEF FreshInv, InForce, filterVars

(* So does one after which a change is due. *)
LEMMA DueIsFresh ==
    ASSUME Due',
           (/\ pc["main"] = "rssi" => boot = "addr2"
            /\ pc["main"] = "addr2" => boot = "noFilter"
            /\ boot = "up" => pc["main"] = "boot")'
    PROVE  FreshInv'
  BY DEF FreshInv

LEMMA FreshNext == TypeOK /\ FreshInv /\ [Next]_vars => FreshInv'
<1> SUFFICES ASSUME TypeOK, FreshInv, [Next]_vars PROVE FreshInv'
  OBVIOUS
<1> USE EventsAssumption
<1> USE DEF filterVars, readVars, countVars
<1>a. /\ pc["main"] = "rssi" => boot = "addr2"
      /\ pc["main"] = "addr2" => boot = "noFilter"
      /\ boot = "up" => pc["main"] = "boot"
  BY DEF FreshInv
<1>b. /\ pc \in [Posters -> Steps] /\ hpc \in [Readers -> Reads]
      /\ seen \in [Readers -> Texts] /\ ev \in Seq(Events)
      /\ "main" \in Setters /\ Setters \subseteq Posters
      /\ Users \subseteq Setters /\ Readers = {"events", "wifi"}
      /\ "driver" \notin Setters /\ "sniffer" \notin Setters /\ "main" \notin Users
  BY DEF TypeOK, Setters, Posters, Readers
<1>1. ASSUME NEW p \in Users, Change(p) PROVE FreshInv'
  <2>1. PICK l : pc' = [pc EXCEPT ![p] = l] /\ pc[p] = "idle"
    BY <1>1 DEF Change, SetNext, Goto
  <2>2. pc'["main"] = pc["main"]
    BY <1>b, <2>1
  <2>3. \A q \in Setters : Owes(q) => Owes(q)'
    BY <1>1, <1>b, <2>1 DEF Change, Owes, EventOf
  <2>4. Due => Due'
    BY <1>1, <2>2, <2>3 DEF Change, Due, MainOwes, Waiting
  <2> QED
    BY <1>1, <1>a, <2>2, <2>4, StillFresh DEF Change
<1>2. ASSUME NEW p \in Setters, SetAddr2(p) \/ SetRssi(p) PROVE FreshInv'
  <2>1. CASE Abort
    BY <2>1, AbortFresh
  <2>2. CASE ~ Abort
    <3>1. /\ pc[p] \in {"addr2", "rssi"}
          /\ pc' = [pc EXCEPT ![p] = "post"]
          /\ boot' = boot
      BY <1>2, <2>2 DEF SetAddr2, SetRssi, Goto
    <3>2. pc'[p] = "post"
      BY <1>b, <3>1
    <3>3. Owes(p)'
      BY <1>a, <1>b, <3>1, <3>2 DEF Owes, EventOf
    <3>4. Due'
      BY <3>3 DEF Due
    <3> QED
      BY <1>a, <1>b, <3>1, <3>4, DueIsFresh
  <2> QED
    BY <2>1, <2>2
<1>0. ASSUME NEW p \in Setters, SaveFails(p) PROVE FreshInv'
  BY <1>0, AbortFresh DEF SaveFails
<1>3. ASSUME NEW p \in Posters, Post(p) PROVE FreshInv'
  <2>1. EventOf(p) \in Events
    BY DEF EventOf, Events
  <2>2. pc[p] = "post" /\ pc' = [pc EXCEPT ![p] = Back(p)] /\ boot' = boot
    BY <1>3 DEF Post, Goto
  <2>3. pc'["main"] = IF p = "main" THEN "boot" ELSE pc["main"]
    BY <1>b, <2>2 DEF Back
  <2>4. ASSUME Due PROVE Due'
    <3>1. CASE MainOwes
      BY <2>2, <2>3, <3>1 DEF MainOwes, Due
    <3>2. CASE missed
      BY <1>3, <3>2 DEF Post, Due
    <3>3. CASE Waiting("changed")
      <4>1. ev' = ev \/ ev' = Append(ev, EventOf(p))
        BY <1>3 DEF Post
      <4> QED
        BY <1>b, <2>1, <3>3, <4>1, AppendHas, SMTT(30) DEF Waiting, Has, Due
    <3>4. CASE ~ MainOwes /\ \E q \in Setters : Owes(q)
      <4>1. PICK q \in Setters : Owes(q)
        BY <3>4
      <4>2. CASE q # p
        <5>1. Owes(q)'
          BY <1>b, <2>2, <4>1, <4>2 DEF Owes, EventOf
        <5> QED
          BY <5>1 DEF Due
      <4>3. CASE q = p
        <5>1. EventOf(p) = "changed" /\ LoopCreated
          <6>1. boot \in {"noFilter", "up"}
            BY <3>4 DEF MainOwes
          <6> QED
            BY <4>1, <4>3, <6>1 DEF Owes, LoopCreated, CallbackSet, SemCreated
        <5>2. CASE Len(ev) < QueueSize
          <6>1. ev' = Append(ev, "changed")
            BY <1>3, <5>1, <5>2 DEF Post
          <6>2. Has(ev', "changed")
            BY <1>b, <2>1, <5>1, <6>1, AppendHas
          <6> QED
            BY <6>2 DEF Has, Waiting, Due
        <5>3. CASE ~ (Len(ev) < QueueSize)
          <6>1. Len(ev) >= QueueSize
            BY <1>b, <5>3
          <6>2. ev' = ev
            BY <1>3, <5>3 DEF Post
          <6>3. CASE Waiting("changed")
            BY <6>2, <6>3 DEF Waiting, Due
          <6>4. CASE ~ Waiting("changed")
            BY <1>3, <5>1, <6>1, <6>4 DEF Post, Due
          <6> QED
            BY <6>3, <6>4
        <5> QED
          BY <5>2, <5>3
      <4> QED
        BY <4>2, <4>3
    <3> QED
      BY <2>4, <3>1, <3>2, <3>3, <3>4 DEF Due
  <2> QED
    BY <1>3, <1>a, <2>2, <2>3, <2>4, StillFresh DEF Post
<1>4. CASE Main /\ ~ Abort
  <2>1. pc["main"] = "boot" /\ \A q \in Users : pc'[q] = pc[q]
    BY <1>4, <1>b DEF Main, Create, SetOwnMac, PostIsUp, RestoreRssi, RestoreAddr2, Stage,
                      SetNext, Goto
  <2>2. ev' = ev /\ missed' = missed
    BY <1>4 DEF Main, Create, SetOwnMac, PostIsUp, RestoreRssi, RestoreAddr2
  <2>3. CASE boot = "noFilter" /\ boot' = "up" /\ pc' = pc
    <3>1. \A q \in Setters : Owes(q) => Owes(q)'
      BY <2>1, <2>3 DEF Owes, EventOf
    <3>2. Due => Due'
      BY <2>1, <2>2, <2>3, <3>1 DEF Due, MainOwes, Waiting
    <3> QED
      BY <1>4, <2>1, <2>3, <3>2, StillFresh
         DEF Main, Create, SetOwnMac, PostIsUp, RestoreRssi, RestoreAddr2
  <2>4. CASE MainOwes' /\ boot' # "up"
    <3>1. (/\ pc["main"] = "rssi" => boot = "addr2"
           /\ pc["main"] = "addr2" => boot = "noFilter")'
      BY <1>4, <1>b, <2>1 DEF Main, Create, SetOwnMac, PostIsUp, RestoreRssi, RestoreAddr2, Stage,
                              SetNext, Goto
    <3> QED
      BY <2>4, <3>1, DueIsFresh DEF Due
  <2> QED
    BY <1>4, <1>b, <2>1, <2>3, <2>4
       DEF Main, Create, SetOwnMac, PostIsUp, RestoreRssi, RestoreAddr2, Stage, SetNext, Goto, MainOwes
<1>5. CASE (Receive \/ Main) /\ Abort
  BY <1>5, AbortFresh
<1>6. CASE Accept \/ StartCapture \/ (Receive /\ ~ Abort) \/ QueueFull
  <2>1. PICK p \in {"driver", "sniffer"} : \E l \in Steps : pc' = [pc EXCEPT ![p] = l]
    BY <1>6 DEF Accept, StartCapture, Receive, QueueFull, Goto, Steps
  <2>2. UNCHANGED <<filterVars, ev, boot, readVars, missed>>
    BY <1>6 DEF Accept, StartCapture, Receive, QueueFull
  <2>3. \A q \in Setters : pc'[q] = pc[q]
    BY <1>b, <2>1
  <2>4. Due => Due'
    BY <1>b, <2>2, <2>3 DEF Due, MainOwes, Waiting, Owes, EventOf
  <2> QED
    BY <1>a, <1>b, <2>2, <2>3, <2>4, StillFresh
<1>7. CASE HandleEvent
  <2>1. CASE Registered /\ Head(ev) = "changed"
    <3>1. hpc'["events"] = "addr2"
      BY <1>7, <1>b, <2>1 DEF HandleEvent
    <3> QED
      BY <1>7, <1>a, <3>1 DEF HandleEvent, FreshInv
  <2>2. CASE ~ (Registered /\ Head(ev) = "changed")
    <3>1. /\ ev # <<>> /\ ev' = Tail(ev)
          /\ UNCHANGED <<filterVars, boot, pc, hpc, seen, shown, late, missed>>
      BY <1>7, <2>2 DEF HandleEvent
    <3>2. CASE MainOwes
      BY <3>1, <3>2, <1>a, DueIsFresh DEF MainOwes, Due
    <3>3. CASE ~ MainOwes
      <4>1. Head(ev) # "changed"
        <5>1. boot \in {"noFilter", "up"}
          BY <3>3 DEF MainOwes
        <5> QED
          BY <2>2, <5>1 DEF Registered, LoopCreated, CallbackSet, SemCreated
      <4>2. Waiting("changed") => Waiting("changed")'
        BY <1>b, <3>1, <4>1, TailHas DEF Waiting, Has
      <4>3. Due => Due'
        BY <3>1, <3>3, <4>2 DEF Due, Owes, EventOf
      <4> QED
        BY <1>a, <3>1, <4>3, StillFresh
    <3> QED
      BY <3>2, <3>3
  <2> QED
    BY <2>1, <2>2
<1>8. CASE WifiNews
  <2>1. hpc'["events"] = hpc["events"]
    BY <1>8, <1>b DEF WifiNews
  <2>2. Due => Due'
    BY <1>8 DEF WifiNews, Due, MainOwes, Waiting, Owes, EventOf
  <2> QED
    BY <1>8, <2>1, <2>2 DEF WifiNews, FreshInv, InForce
<1>9. ASSUME NEW d \in Readers, Display(d) PROVE FreshInv'
  <2>1. UNCHANGED <<filterVars, ev, boot, pc, missed>>
    BY <1>9 DEF Display, ReadAddr2, ReadRssi, Show
  <2>2. Due' = Due /\ InForce' = InForce
    BY <2>1 DEF Due, MainOwes, Waiting, Owes, EventOf, InForce
  <2>3. CASE d = "wifi"
    <3>1. hpc'["events"] = hpc["events"] /\ seen'["events"] = seen["events"]
      BY <1>9, <1>b, <2>3 DEF Display, ReadAddr2, ReadRssi, Show
    <3>2. (late \/ shown = InForce) => (late \/ shown = InForce)'
      BY <1>9, <2>1, <2>2, <2>3 DEF Display, ReadAddr2, ReadRssi, Show
    <3> QED
      BY <1>a, <2>1, <2>2, <3>1, <3>2 DEF FreshInv
  <2>4. CASE d = "events" /\ ReadAddr2(d)
    <3>1. hpc'["events"] = "rssi" /\ seen'["events"].mac = addr2
      BY <1>b, <2>4 DEF ReadAddr2, Texts
    <3> QED
      BY <1>a, <2>1, <3>1 DEF FreshInv
  <2>5. CASE d = "events" /\ ReadRssi(d)
    <3>1. /\ hpc["events"] = "rssi" /\ hpc'["events"] = "print"
          /\ seen'["events"] = [seen["events"] EXCEPT !.rssi = rssi]
      BY <1>b, <2>5 DEF ReadRssi
    <3>2. seen["events"].mac = addr2 => seen'["events"] = InForce
      BY <1>b, <3>1 DEF Texts, InForce
    <3> QED
      BY <1>a, <2>1, <2>2, <3>1, <3>2 DEF FreshInv
  <2>6. CASE d = "events" /\ Show(d)
    <3>1. /\ hpc["events"] = "print" /\ hpc'["events"] = "wait"
          /\ shown' = seen["events"]
      BY <1>b, <2>6 DEF Show
    <3> QED
      BY <1>a, <2>1, <2>2, <3>1 DEF FreshInv
  <2> QED
    BY <1>9, <1>b, <2>3, <2>4, <2>5, <2>6 DEF Display
<1>10. CASE UNCHANGED vars
  BY <1>10 DEF vars, FreshInv, Due, MainOwes, Waiting, Owes, EventOf, InForce
<1> QED
  BY <1>0, <1>1, <1>2, <1>3, <1>4, <1>5, <1>6, <1>7, <1>8, <1>9, <1>10 DEF Next

(* DisplayFresh: whatever the size of the queue and however many change    *)
(* the filters at the same time, the display shows those in force unless a *)
(* change is due, an event was dropped or wifi_lib's handler printed what  *)
(* it had read earlier (wifi_sniffer.c:99-103, 233-235, main.c:166-176).   *)
THEOREM DisplayStaysFresh == Spec => []DisplayFresh
<1>1. TypeOK /\ FreshInv => DisplayFresh
  BY DEF TypeOK, FreshInv, DisplayFresh, Due, MainOwes
<1> QED
  BY <1>1, TypeInit, TypeNext, FreshInit, FreshNext, PTL DEF Spec
=============================================================================
