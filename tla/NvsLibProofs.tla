---------------------------- MODULE NvsLibProofs -----------------------------
(* Theorems about NvsLib, for every value of its constants. *)
EXTENDS NvsLib, TLAPS

LEMMA BootCallsLength == Len(BootCalls) = 8
  BY DEF BootCalls

(* The calls of setup, one by one. *)
LEMMA BootCallsAre ==
    /\ BootCalls[1] = Get("mode") /\ BootCalls[2] = Get("ssid")
    /\ BootCalls[3] = Save("ssid", NoAnswer) /\ BootCalls[4] = Save("own", OwnMac)
    /\ BootCalls[5] = Get("rssi") /\ BootCalls[6] = Save("rssi", NoAnswer)
    /\ BootCalls[7] = Get("addr2") /\ BootCalls[8] = Save("addr2", NoAnswer)
  BY DEF BootCalls

LEMMA BootCallsTyped == \A n \in 1 .. 8 : BootCalls[n] \in Calls
<1> SUFFICES ASSUME NEW n \in 1 .. 8 PROVE BootCalls[n] \in Calls
  OBVIOUS
<1> USE NvsAssumption DEF Calls, Get, Save, Keys, Numbers, Texts, Arrays
<1>1. \A k \in Keys : Get(k) \in Calls /\ Save(k, NoAnswer) \in Calls
  OBVIOUS
<1>2. Save("own", OwnMac) \in Calls
  OBVIOUS
<1>3. {"mode", "ssid", "own", "rssi", "addr2"} \subseteq Keys
  OBVIOUS
<1>4. n = 1 \/ n = 2 \/ n = 3 \/ n = 4 \/ n = 5 \/ n = 6 \/ n = 7 \/ n = 8
  OBVIOUS
<1> HIDE DEF Calls, Get, Save, Keys
<1> QED
  BY <1>1, <1>2, <1>3, <1>4, BootCallsAre

-----------------------------------------------------------------------------
(* Types *)

(* What is about to be saved is a value, and so is what has been read.     *)
(* The main task is in the call of setup before the next one.              *)
CarriesValue(t) ==
    /\ pc[t] # "idle" /\ call[t].op = "save" => call[t].val \in Values
    /\ pc[t] = "closeGet" /\ err[t] = "ok" => got[t] \in Values
    /\ pc[t] \in {"openSet", "set", "commit", "closeSet"} => call[t].op = "save"
    /\ pc[t] # "idle" /\ t # "main" => call[t].op = "save" /\ call[t].key # "own"

MainCalls ==
    /\ pc["main"] # "idle" =>
         /\ next \in 2 .. 9
         /\ call["main"].op = BootCalls[next - 1].op
         /\ call["main"].key = BootCalls[next - 1].key
    /\ pc["main"] = "idle" /\ next \in {3, 6, 8} => got["main"] \in Values

Typed ==
    /\ TypeOK
    /\ \A t \in Tasks : CarriesValue(t)
    /\ MainCalls

LEMMA TypedInit == Init => Typed
<1> SUFFICES ASSUME Init PROVE Typed
  OBVIOUS
<1> USE NvsAssumption DEF Init, FreshTask
<1>1. spaces \subseteq {"wifi", "sniffer"}
  BY DEF SpaceOf
<1>2. store \in [Keys -> Values \cup {Missing}] /\ disk \in [Keys -> Values \cup {Missing}]
  OBVIOUS
<1>3. Get("mode") \in Calls
  BY DEF Calls, Get, Keys, Numbers
<1>4. call \in [Tasks -> Calls]
  BY <1>3
<1>5. next \in 1 .. Len(BootCalls) + 1
  BY BootCallsLength
<1>6. /\ pc \in [Tasks -> Steps] /\ len \in [Tasks -> Nat]
      /\ handle \in [Tasks -> {"none", "open", "garbage"}]
      /\ got \in [Tasks -> Values \cup {NoAnswer}]
      /\ err \in [Tasks -> {"ok", "handle", "length"}]
      /\ early \in [Tasks -> BOOLEAN]
  BY DEF Steps
<1>7. /\ lock \in Tasks \cup {"none"}
      /\ refused \in BOOLEAN
      /\ calls \in 0 .. MaxCalls
      /\ restarts \in 0 .. MaxRestarts
  <2>1. lock \in Tasks \cup {"none"} /\ calls \in 0 .. MaxCalls /\ restarts \in 0 .. MaxRestarts
    OBVIOUS
  <2>2. refused \in BOOLEAN
    OBVIOUS
  <2> QED
    BY <2>1, <2>2
<1>8. TypeOK
  BY <1>1, <1>2, <1>4, <1>5, <1>6, <1>7 DEF TypeOK
<1>9. (\A t \in Tasks : CarriesValue(t)) /\ MainCalls
  BY DEF CarriesValue, MainCalls, Tasks
<1> QED
  BY <1>8, <1>9 DEF Typed

LEMMA RestartTyped ==
    ASSUME Typed, Restart, refused' \in BOOLEAN, restarts' \in 0 .. MaxRestarts
    PROVE  Typed'
<1> USE NvsAssumption DEF Restart, FreshTask
<1>1. (spaces \subseteq {"wifi", "sniffer"}
       /\ store \in [Keys -> Values \cup {Missing}]
       /\ disk \in [Keys -> Values \cup {Missing}]
       /\ call \in [Tasks -> Calls] /\ calls \in 0 .. MaxCalls)'
  BY DEF Typed, TypeOK
<1>2. (next \in 1 .. Len(BootCalls) + 1)'
  BY BootCallsLength
<1>3. (/\ pc \in [Tasks -> Steps] /\ len \in [Tasks -> Nat]
       /\ handle \in [Tasks -> {"none", "open", "garbage"}]
       /\ got \in [Tasks -> Values \cup {NoAnswer}]
       /\ err \in [Tasks -> {"ok", "handle", "length"}]
       /\ early \in [Tasks -> BOOLEAN]
       /\ lock \in Tasks \cup {"none"})'
  BY DEF Steps
<1>4. TypeOK'
  BY <1>1, <1>2, <1>3 DEF TypeOK
<1>5. ((\A t \in Tasks : CarriesValue(t)) /\ MainCalls)'
  BY DEF CarriesValue, MainCalls, Tasks
<1> QED
  BY <1>4, <1>5 DEF Typed

(* A call of c begins. *)
LEMMA BeginTyped ==
    ASSUME Typed, NEW t \in Tasks, NEW c \in Calls, Begin(t, c),
           c.op = "save" => c.val \in Values,
           t # "main" => c.op = "save" /\ c.key # "own",
           calls' \in 0 .. MaxCalls,
           next' \in 1 .. Len(BootCalls) + 1,
           t # "main" => next' = next,
           t = "main" => /\ next' \in 2 .. 9
                         /\ c.op = BootCalls[next' - 1].op
                         /\ c.key = BootCalls[next' - 1].key
    PROVE  Typed'
<1> USE DEF Typed, Begin, Goto, flashVars
<1>1. pc' \in [Tasks -> Steps] /\ pc'[t] \in {"lock", "openGet"}
  BY DEF TypeOK, Steps
<1>2. early' \in [Tasks -> BOOLEAN]
  BY DEF TypeOK
<1>3. call' \in [Tasks -> Calls] /\ got' \in [Tasks -> Values \cup {NoAnswer}]
  BY DEF TypeOK
<1>4. TypeOK'
  BY <1>1, <1>2, <1>3 DEF TypeOK
<1>5. \A q \in Tasks : CarriesValue(q)'
  BY <1>1 DEF TypeOK, CarriesValue
<1>6. MainCalls'
  BY <1>1 DEF TypeOK, MainCalls, Tasks
<1> QED
  BY <1>4, <1>5, <1>6

(* Task t takes a step in its call. *)
StepOf(t) ==
    /\ pc[t] # "idle"
    /\ UNCHANGED <<call, next, early, calls, restarts>>
    /\ \A q \in Tasks \ {t} : pc'[q] = pc[q] /\ got'[q] = got[q] /\ err'[q] = err[q]
    /\ pc' \in [Tasks -> Steps]
    /\ got' \in [Tasks -> Values \cup {NoAnswer}]
    /\ err' \in [Tasks -> {"ok", "handle", "length"}]
    /\ handle' \in [Tasks -> {"none", "open", "garbage"}]
    /\ len' \in [Tasks -> Nat]

LEMMA StepTyped ==
    ASSUME Typed, NEW t \in Tasks, StepOf(t),
           lock' \in Tasks \cup {"none"},
           refused' \in BOOLEAN,
           spaces' \subseteq {"wifi", "sniffer"},
           store' \in [Keys -> Values \cup {Missing}],
           disk' \in [Keys -> Values \cup {Missing}],
           pc'[t] = "closeGet" /\ err'[t] = "ok" => got'[t] \in Values,
           pc'[t] \in {"openSet", "set", "commit", "closeSet"} => call[t].op = "save",
           pc'[t] = "idle" /\ call[t].op = "get" => got'[t] \in Values
    PROVE  Typed'
<1> USE DEF StepOf
<1>1. TypeOK'
  BY DEF Typed, TypeOK
<1>2. CarriesValue(t)'
  BY DEF Typed, CarriesValue
<1>3. \A q \in Tasks \ {t} : CarriesValue(q)'
  BY DEF Typed, CarriesValue
<1>4. ASSUME pc["main"] # "idle", next \in {3, 6, 8} PROVE call["main"].op = "get"
  <2>1. next \in 2 .. 9 /\ call["main"].op = BootCalls[next - 1].op
    BY <1>4 DEF Typed, MainCalls
  <2>2. \A n \in {3, 6, 8} : BootCalls[n - 1].op = "get"
    BY BootCallsAre DEF Get
  <2> QED
    BY <1>4, <2>1, <2>2
<1>5. MainCalls'
  <2>1. CASE t = "main"
    BY <1>4, <2>1 DEF Typed, MainCalls
  <2>2. CASE t # "main"
    BY <2>2 DEF Typed, MainCalls, Tasks
  <2> QED
    BY <2>1, <2>2
<1> QED
  BY <1>1, <1>2, <1>3, <1>5 DEF Typed

LEMMA TypedNext == Typed /\ [Next]_vars => Typed'
<1> SUFFICES ASSUME Typed, [Next]_vars PROVE Typed'
  OBVIOUS
<1> USE NvsAssumption
<1>a. Len(BootCalls) = 8
  BY BootCallsLength
<1>1. CASE BootCall
  <2>1. next \in 1 .. 8
    BY <1>1, <1>a DEF BootCall, Typed, TypeOK
  <2>2. BootCalls[next] \in Calls
    BY <2>1, BootCallsTyped
  <2> DEFINE b == BootCalls[next]
             c == IF b = Save(b.key, NoAnswer) THEN Save(b.key, got["main"]) ELSE b
  <2>3. Begin("main", c) /\ next' = next + 1 /\ calls' = calls
    BY <1>1 DEF BootCall
  <2>4. pc["main"] = "idle"
    BY <2>3 DEF Begin
  <2>5. got["main"] \in Values \cup {NoAnswer}
    BY DEF Typed, TypeOK, Tasks
  <2>6. c.op = b.op /\ c.key = b.key /\ c \in Calls
    BY <2>2, <2>5 DEF Calls, Save
  <2>7. c.op = "save" => c.val \in Values
    <3>1. next \in {1, 2, 5, 7} => b.op = "get"
      BY BootCallsAre DEF Get
    <3>2. next \in {3, 6, 8} => b = Save(b.key, NoAnswer)
      BY BootCallsAre DEF Save
    <3>3. next = 4 => b = Save("own", OwnMac) /\ OwnMac # NoAnswer
      BY BootCallsAre
    <3>4. CASE next \in {3, 6, 8}
      BY <2>4, <3>2, <3>4 DEF Typed, MainCalls, Save
    <3>5. CASE next = 4
      BY <3>3, <3>5 DEF Save
    <3>6. next \in {1, 2, 5, 7} \/ next \in {3, 6, 8} \/ next = 4
      BY <2>1
    <3> QED
      BY <2>6, <3>1, <3>4, <3>5, <3>6
  <2>8. (next' \in 2 .. 9 /\ next' - 1 = next) /\ calls' \in 0 .. MaxCalls
    BY <2>1, <2>3 DEF Typed, TypeOK
  <2> HIDE DEF b, c
  <2>9. c.op = BootCalls[next' - 1].op /\ c.key = BootCalls[next' - 1].key
    BY <2>6, <2>8 DEF b
  <2> QED
    BY <1>a, <2>3, <2>6, <2>7, <2>8, <2>9, BeginTyped DEF Tasks
<1>2. ASSUME NEW t \in Users, UserCall(t) PROVE Typed'
  <2>1. PICK c \in UserCalls[t] : Begin(t, c)
    BY <1>2 DEF UserCall
  <2>2. c.op = "save" /\ c.key \in Keys \ {"own"} /\ c.val \in Values /\ c \in Calls
    BY <2>1 DEF Calls
  <2>3. next' = next /\ calls' \in 0 .. MaxCalls /\ t \in Tasks /\ t # "main"
    BY <1>2 DEF UserCall, Typed, TypeOK, Tasks
  <2>4. next' \in 1 .. Len(BootCalls) + 1
    BY <2>3 DEF Typed, TypeOK
  <2> QED
    BY <2>1, <2>2, <2>3, <2>4, BeginTyped
<1>3. ASSUME NEW t \in Tasks, Call(t) PROVE Typed'
  <2>a. CASE Restart
    <3>1. refused' \in BOOLEAN /\ restarts' = restarts
      BY <1>3, <2>a DEF Call, Restart, Typed, TypeOK, Lock, OpenNumber, OpenToRead, OpenForWriting,
         ReadLength, ReadValue, CloseAfterGet, Abort, OpenToWrite, SetValue, Commit,
         CloseAfterSet
    <3> QED
      BY <2>a, <3>1, RestartTyped DEF Typed, TypeOK
  <2>b. CASE ~ Restart
    <3>a. /\ "main" \in Tasks /\ call[t] \in Calls /\ Key(t) \in Keys
          /\ Default[Key(t)] \in Values
          /\ Seen(store, Key(t)) \in Values
      BY DEF Typed, TypeOK, Tasks, Calls, Key, Seen
    <3>b. call[t].op \in {"get", "save"}
      BY <3>a DEF Calls
    <3>c. spaces \cup {SpaceOf(Key(t))} \subseteq {"wifi", "sniffer"}
      BY DEF SpaceOf, Typed, TypeOK
    <3>d. CarriesValue(t) /\ TypeOK
      BY DEF Typed
    <3>i. \A l \in {"idle", "openGet", "length", "read", "closeGet", "openSet", "set",
                  "commit", "closeSet"} : l \in Steps
      BY DEF Steps
    <3>e. \A l \in Steps : [pc EXCEPT ![t] = l] \in [Tasks -> Steps]
      BY DEF Typed, TypeOK
    <3>f. \A v \in Values : [got EXCEPT ![t] = v] \in [Tasks -> Values \cup {NoAnswer}]
      BY DEF Typed, TypeOK
    <3>g. \A h \in {"none", "open", "garbage"} :
            [handle EXCEPT ![t] = h] \in [Tasks -> {"none", "open", "garbage"}]
      BY DEF Typed, TypeOK
    <3>h. \A e \in {"ok", "handle", "length"} :
            [err EXCEPT ![t] = e] \in [Tasks -> {"ok", "handle", "length"}]
      BY DEF Typed, TypeOK
    <3>j. \A l \in Steps : pc' = [pc EXCEPT ![t] = l] =>
             /\ pc' \in [Tasks -> Steps] /\ pc'[t] = l
             /\ \A q \in Tasks \ {t} : pc'[q] = pc[q]
      BY DEF Typed, TypeOK
    <3> USE DEF TypeOK, Goto, flashVars
    <3>1. CASE Lock(t)
      <4>1. StepOf(t) /\ pc'[t] = "openGet"
        BY <2>b, <3>1, <3>d, <3>i, <3>e DEF Lock, StepOf
      <4> QED
        BY <3>1, <3>d, <4>1, StepTyped DEF Lock
    <3>2. CASE OpenNumber(t)
      <4>1. CASE OpenForWriting(t, "read")
        <5>0. /\ pc' = [pc EXCEPT ![t] = "read"] /\ pc[t] = "openGet"
              /\ handle' = [handle EXCEPT ![t] = "open"]
              /\ UNCHANGED <<call, next, early, calls, restarts, got, err, len>>
          BY <3>2, <4>1 DEF OpenNumber, OpenForWriting
        <5>1. StepOf(t) /\ pc'[t] = "read"
          BY <3>d, <3>i, <3>e, <3>g, <5>0 DEF StepOf
        <5> QED
          BY <3>c, <3>d, <4>1, <5>1, StepTyped, ZenonT(30) DEF OpenForWriting
      <4>2. CASE ~ OpenForWriting(t, "read")
        <5>0. /\ pc' = [pc EXCEPT ![t] = "closeGet"] /\ pc[t] = "openGet"
              /\ got' = [got EXCEPT ![t] = Default[Key(t)]]
              /\ UNCHANGED <<flashVars, lock, next, call, handle, len, err, early, calls, restarts>>
          BY <3>2, <4>2 DEF OpenNumber
        <5>1. StepOf(t) /\ pc'[t] = "closeGet" /\ got'[t] \in Values
          BY <3>a, <3>d, <3>i, <3>e, <3>f, <5>0 DEF StepOf
        <5>2. refused' \in BOOLEAN
          BY <3>2, <4>2 DEF OpenNumber
        <5>3. UNCHANGED <<spaces, store, disk, lock>>
          BY <3>2, <4>2 DEF OpenNumber
        <5> QED
          BY <3>d, <5>1, <5>2, <5>3, StepTyped
      <4> QED
        BY <4>1, <4>2
    <3>3. CASE OpenToRead(t)
      <4>0. UNCHANGED <<flashVars, lock, next, call, len, err, early, refused, calls, restarts>>
        BY <3>3 DEF OpenToRead
      <4>1. CASE SpaceOf(Key(t)) \in spaces
        <5>0. /\ pc' = [pc EXCEPT ![t] = "length"] /\ pc[t] = "openGet"
              /\ handle' = [handle EXCEPT ![t] = "open"] /\ UNCHANGED got
          BY <3>3, <4>1 DEF OpenToRead
        <5>1. StepOf(t) /\ pc'[t] = "length"
          BY <3>d, <3>i, <3>e, <3>g, <4>0, <5>0 DEF StepOf
        <5> QED
          BY <3>d, <4>0, <5>1, StepTyped
      <4>2. CASE SpaceOf(Key(t)) \notin spaces
        <5>1. /\ got' = [got EXCEPT ![t] = Default[Key(t)]]
              /\ \/ pc' = [pc EXCEPT ![t] = "closeGet"] /\ UNCHANGED handle
                 \/ /\ pc' = [pc EXCEPT ![t] = "length"]
                    /\ handle' = [handle EXCEPT ![t] = "garbage"]
              /\ pc[t] = "openGet"
          BY <3>3, <4>2 DEF OpenToRead
        <5>3. /\ pc' \in [Tasks -> Steps] /\ pc'[t] \in {"closeGet", "length"}
              /\ \A q \in Tasks \ {t} : pc'[q] = pc[q]
          BY <3>i, <3>j, <5>1
        <5>4. handle' \in [Tasks -> {"none", "open", "garbage"}]
          BY <3>d, <3>g, <5>1
        <5>5. /\ got' \in [Tasks -> Values \cup {NoAnswer}] /\ got'[t] \in Values
              /\ \A q \in Tasks \ {t} : got'[q] = got[q]
          BY <3>a, <3>d, <3>f, <5>1
        <5>2. StepOf(t) /\ pc'[t] \in {"closeGet", "length"} /\ got'[t] \in Values
          BY <3>d, <4>0, <5>1, <5>3, <5>4, <5>5 DEF StepOf
        <5> QED
          BY <3>d, <4>0, <5>2, StepTyped
      <4> QED
        BY <4>1, <4>2
    <3>4. CASE ReadLength(t)
      <4>0. /\ UNCHANGED <<flashVars, lock, next, call, handle, early, refused, calls, restarts>>
            /\ pc[t] = "length"
        BY <3>4 DEF ReadLength
      <4>2. CASE handle[t] = "garbage"
        <5>0. /\ pc' = [pc EXCEPT ![t] = "closeGet"]
              /\ err' = [err EXCEPT ![t] = "handle"] /\ UNCHANGED <<len, got>>
          BY <3>4, <4>2 DEF ReadLength, Fail
        <5>1. StepOf(t) /\ pc'[t] = "closeGet" /\ err'[t] = "handle"
          BY <3>d, <3>i, <3>e, <3>h, <4>0, <5>0 DEF StepOf
        <5> QED
          BY <3>d, <4>0, <5>1, StepTyped
      <4>3. CASE handle[t] = "open" /\ store[Key(t)] = Missing
        <5>0. /\ pc' = [pc EXCEPT ![t] = "closeGet"]
              /\ got' = [got EXCEPT ![t] = Default[Key(t)]] /\ UNCHANGED <<len, err>>
          BY <3>4, <4>3 DEF ReadLength
        <5>1. StepOf(t) /\ pc'[t] = "closeGet" /\ got'[t] \in Values
          BY <3>a, <3>d, <3>i, <3>e, <3>f, <4>0, <5>0 DEF StepOf
        <5> QED
          BY <3>d, <4>0, <5>1, StepTyped
      <4>4. CASE handle[t] = "open" /\ store[Key(t)] # Missing
        <5>1. Len(store[Key(t)]) \in Nat
          <6>1. store[Key(t)] \in Seq(Nat)
            BY <3>a, <3>d, <4>4
          <6> QED
            BY <6>1
        <5>2. /\ pc' = [pc EXCEPT ![t] = "read"] /\ UNCHANGED <<got, err>>
              /\ len' = [len EXCEPT ![t] = Len(store[Key(t)])]
          BY <3>4, <4>4 DEF ReadLength
        <5>3. StepOf(t) /\ pc'[t] = "read"
          BY <3>d, <3>i, <3>e, <4>0, <5>1, <5>2 DEF StepOf
        <5> QED
          BY <3>d, <4>0, <5>3, StepTyped
      <4> QED
        BY <3>4, <4>2, <4>3, <4>4 DEF ReadLength
    <3>5. CASE ReadValue(t)
      <4>0. /\ UNCHANGED <<flashVars, lock, next, call, handle, len, early, refused, calls, restarts>>
            /\ pc[t] = "read"
        BY <3>5 DEF ReadValue
      <4>2. CASE Grown(t)
        <5>0. /\ pc' = [pc EXCEPT ![t] = "closeGet"]
              /\ err' = [err EXCEPT ![t] = "length"] /\ UNCHANGED got
          BY <3>5, <4>2 DEF ReadValue, Fail
        <5>1. StepOf(t) /\ pc'[t] = "closeGet" /\ err'[t] = "length"
          BY <3>d, <3>i, <3>e, <3>h, <4>0, <5>0 DEF StepOf
        <5> QED
          BY <3>d, <4>0, <5>1, StepTyped
      <4>3. CASE ~ Grown(t)
        <5>0. /\ pc' = [pc EXCEPT ![t] = "closeGet"]
              /\ got' = [got EXCEPT ![t] = Seen(store, Key(t))] /\ UNCHANGED err
          BY <3>5, <4>3 DEF ReadValue
        <5>1. StepOf(t) /\ pc'[t] = "closeGet" /\ got'[t] \in Values
          BY <3>a, <3>d, <3>i, <3>e, <3>f, <4>0, <5>0 DEF StepOf
        <5> QED
          BY <3>d, <4>0, <5>1, StepTyped
      <4> QED
        BY <4>2, <4>3
    <3>6. CASE CloseAfterGet(t)
      <4>1. err[t] = "ok" /\ pc[t] = "closeGet"
        BY <2>b, <3>6 DEF CloseAfterGet, Abort
      <4>2. /\ handle' = [handle EXCEPT ![t] = "none"]
            /\ len' = [len EXCEPT ![t] = 0]
            /\ UNCHANGED <<flashVars, next, call, got, err, early, refused, calls, restarts>>
            /\ lock' \in {lock, "none"}
            /\ \/ pc' = [pc EXCEPT ![t] = "idle"]
               \/ pc' = [pc EXCEPT ![t] = "openSet"] /\ call[t].op # "get"
        BY <3>6, <4>1 DEF CloseAfterGet
      <4>3. got[t] \in Values
        BY <3>d, <4>1 DEF CarriesValue
      <4>4. StepOf(t) /\ pc'[t] \in {"idle", "openSet"} /\ (pc'[t] = "openSet" => call[t].op = "save")
        <5>1. /\ pc' \in [Tasks -> Steps] /\ pc'[t] \in {"idle", "openSet"}
              /\ pc'[t] = "openSet" => call[t].op = "save"
              /\ \A q \in Tasks \ {t} : pc'[q] = pc[q]
          BY <3>b, <3>i, <3>j, <4>2
        <5>2. handle' \in [Tasks -> {"none", "open", "garbage"}] /\ len' \in [Tasks -> Nat]
          BY <3>d, <3>g, <4>2
        <5> QED
          BY <3>d, <4>1, <4>2, <5>1, <5>2 DEF StepOf
      <4> QED
        BY <3>d, <4>2, <4>3, <4>4, StepTyped
    <3>7. CASE OpenToWrite(t)
      <4>1. OpenForWriting(t, "set") /\ pc[t] = "openSet" /\ call[t].op = "save"
        BY <2>b, <3>7, <3>d DEF OpenToWrite, CarriesValue
      <4>2. StepOf(t) /\ pc'[t] = "set"
        <5>0. /\ pc' = [pc EXCEPT ![t] = "set"]
              /\ handle' = [handle EXCEPT ![t] = "open"]
              /\ UNCHANGED <<call, next, early, calls, restarts, got, err, len>>
          BY <4>1 DEF OpenForWriting
        <5> QED
          BY <3>d, <3>i, <3>e, <3>g, <4>1, <5>0 DEF StepOf
      <4> QED
        BY <3>c, <3>d, <4>1, <4>2, StepTyped, ZenonT(30) DEF OpenForWriting
    <3>8. CASE SetValue(t)
      <4>1. call[t].val \in Values /\ call[t].op = "save" /\ pc[t] = "set"
        BY <3>8, <3>d DEF SetValue, CarriesValue
      <4>2. /\ store' = [store EXCEPT ![Key(t)] = call[t].val]
            /\ disk' \in {disk, [disk EXCEPT ![Key(t)] = call[t].val]}
            /\ pc' = [pc EXCEPT ![t] = "commit"]
            /\ UNCHANGED <<spaces, lock, next, call, handle, len, got, err, early,
                            refused, calls, restarts>>
        BY <2>b, <3>8 DEF SetValue
      <4>3. StepOf(t) /\ pc'[t] = "commit"
        BY <3>d, <3>i, <3>e, <4>1, <4>2 DEF StepOf
      <4>4. (store \in [Keys -> Values \cup {Missing}] /\ disk \in [Keys -> Values \cup {Missing}])'
        BY <3>d, <4>1, <4>2
      <4> QED
        BY <3>d, <4>1, <4>2, <4>3, <4>4, StepTyped
    <3>9. CASE Commit(t)
      <4>1. StepOf(t) /\ pc'[t] = "closeSet" /\ call[t].op = "save"
        BY <3>9, <3>d, <3>i, <3>e DEF Commit, CarriesValue, StepOf
      <4>2. disk' \in [Keys -> Values \cup {Missing}]
        BY <3>9, <3>a, <3>d DEF Commit
      <4> QED
        BY <3>9, <3>d, <4>1, <4>2, StepTyped DEF Commit
    <3>10. CASE CloseAfterSet(t)
      <4>1. StepOf(t) /\ pc'[t] = "idle" /\ call[t].op = "save"
        BY <3>10, <3>d, <3>i, <3>e, <3>g DEF CloseAfterSet, CarriesValue, StepOf
      <4> QED
        BY <3>10, <3>d, <4>1, StepTyped DEF CloseAfterSet
    <3> QED
      BY <1>3, <3>1, <3>2, <3>3, <3>4, <3>5, <3>6, <3>7, <3>8, <3>9, <3>10 DEF Call
  <2> QED
    BY <2>a, <2>b
<1>4. CASE PowerLoss
  <2>1. restarts' \in 0 .. MaxRestarts /\ refused' \in BOOLEAN /\ Restart
    BY <1>4 DEF PowerLoss, Typed, TypeOK
  <2> QED
    BY <2>1, RestartTyped
<1>5. CASE UNCHANGED vars
  BY <1>5 DEF vars, flashVars, callVars, Typed, TypeOK, CarriesValue, MainCalls
<1> QED
  BY <1>1, <1>2, <1>3, <1>4, <1>5 DEF Next

(* TypeOK: whatever fails and whenever, a task that goes on has read a     *)
(* value, its own or the default, and saves one (nvs_lib.c:137-164,        *)
(* 468-553).                                                               *)
THEOREM NvsTypes == Spec => []TypeOK
<1>1. Typed => TypeOK
  BY DEF Typed
<1> QED
  BY <1>1, TypedInit, TypedNext, PTL DEF Spec

-----------------------------------------------------------------------------
(* Committed *)

(* A restart loses what is not on flash, and nothing is about to be        *)
(* committed.                                                              *)
LEMMA RestartCommitted == Restart => Committed'
  BY DEF Restart, Committed, FreshTask

LEMMA CommittedNext == Typed /\ Committed /\ [Next]_vars => Committed'
<1> SUFFICES ASSUME Typed, Committed, [Next]_vars PROVE Committed'
  OBVIOUS
<1>0. TypeOK
  BY DEF Typed
<1>1. CASE Restart
  BY <1>1, RestartCommitted
<1>2. CASE ~ Restart
  <2> SUFFICES ASSUME NEW k \in Keys, \A q \in Tasks : pc'[q] = "commit" => Key(q)' # k
               PROVE  disk'[k] = store'[k]
    BY DEF Committed
  <2>1. ASSUME NEW t \in Tasks, NEW c \in Calls, Begin(t, c) PROVE disk'[k] = store'[k]
    <3>1. \A q \in Tasks : pc[q] = "commit" => Key(q) # k
      BY <1>0, <2>1 DEF Begin, Goto, TypeOK, Key
    <3> QED
      BY <2>1, <3>1 DEF Begin, flashVars, Committed
  <2>2. CASE BootCall
    <3>1. \E c : Begin("main", c)
      BY <2>2 DEF BootCall
    <3>2. UNCHANGED flashVars /\ \A q \in Tasks : pc'[q] = "commit" => pc[q] = "commit" /\ Key(q)' = Key(q)
      BY <1>0, <3>1 DEF Begin, Goto, TypeOK, Key
    <3>3. \A q \in Tasks : pc[q] = "commit" => pc'[q] = "commit"
      BY <1>0, <3>1 DEF Begin, Goto, TypeOK
    <3> QED
      BY <3>2, <3>3 DEF Committed, flashVars
  <2>3. ASSUME NEW t \in Users, UserCall(t) PROVE disk'[k] = store'[k]
    <3>1. PICK c \in UserCalls[t] : Begin(t, c)
      BY <2>3 DEF UserCall
    <3>2. c \in Calls /\ t \in Tasks
      BY <3>1, NvsAssumption DEF Calls, Tasks
    <3> QED
      BY <3>1, <3>2, <2>1
  <2>4. ASSUME NEW t \in Tasks, Call(t) PROVE disk'[k] = store'[k]
    <3>1. CASE SetValue(t)
      <4>1. /\ store' = [store EXCEPT ![Key(t)] = call[t].val]
            /\ disk' \in {disk, [disk EXCEPT ![Key(t)] = call[t].val]}
            /\ pc' = [pc EXCEPT ![t] = "commit"] /\ call' = call /\ pc[t] = "set"
        BY <1>2, <3>1 DEF SetValue, Goto
      <4>2. Key(t) # k /\ \A q \in Tasks : pc[q] = "commit" => Key(q) # k
        BY <1>0, <4>1 DEF TypeOK, Key
      <4> QED
        BY <1>0, <4>1, <4>2 DEF Committed, TypeOK
    <3>2. CASE Commit(t)
      <4>1. /\ disk' = [disk EXCEPT ![Key(t)] = store[Key(t)]] /\ store' = store
            /\ pc' = [pc EXCEPT ![t] = "closeSet"] /\ call' = call
        BY <3>2 DEF Commit, Goto
      <4>2. CASE Key(t) = k
        BY <1>0, <4>1, <4>2 DEF TypeOK
      <4>3. CASE Key(t) # k
        <5>1. \A q \in Tasks : pc[q] = "commit" => Key(q) # k
          BY <1>0, <4>1, <4>3 DEF TypeOK, Key
        <5> QED
          BY <1>0, <4>1, <4>3, <5>1 DEF Committed, TypeOK
      <4> QED
        BY <4>2, <4>3
    <3>3. CASE ~ SetValue(t) /\ ~ Commit(t)
      <4>1. store' = store /\ disk' = disk /\ call' = call
        BY <1>2, <2>4, <3>3 DEF Call, Lock, OpenNumber, OpenToRead, OpenForWriting, ReadLength,
           ReadValue, CloseAfterGet, Abort, OpenToWrite, CloseAfterSet, flashVars
      <4>2. \E l : pc' = [pc EXCEPT ![t] = l] /\ pc[t] # "commit"
        BY <1>2, <2>4, <3>3 DEF Call, Lock, OpenNumber, OpenToRead, OpenForWriting, ReadLength,
           ReadValue, CloseAfterGet, Abort, OpenToWrite, CloseAfterSet, Goto, Fail
      <4>3. \A q \in Tasks : pc[q] = "commit" => Key(q) # k
        BY <1>0, <4>1, <4>2 DEF TypeOK, Key
      <4> QED
        BY <4>1, <4>3 DEF Committed
    <3> QED
      BY <3>1, <3>2, <3>3
  <2>5. CASE UNCHANGED vars
    BY <2>5 DEF vars, flashVars, callVars, Committed, Key
  <2>6. CASE PowerLoss
    BY <1>2, <2>6 DEF PowerLoss
  <2> QED
    BY <2>2, <2>3, <2>4, <2>5, <2>6 DEF Next
<1> QED
  BY <1>1, <1>2

(* Committed: what others can see and nobody is about to commit is on      *)
(* flash, whatever tasks save the same key meanwhile (nvs_lib.c:123-134,   *)
(* 423-434, 450-466).                                                      *)
THEOREM SettingsStay == Spec => []Committed
<1>1. Init => Committed
  BY DEF Init, Committed
<1> QED
  BY <1>1, TypedInit, TypedNext, CommittedNext, PTL DEF Spec

-----------------------------------------------------------------------------
(* HandlesClosed *)

(* A call opens its handle only in the steps that open one. *)
NothingOpen ==
    \A t \in Tasks : pc[t] \in {"idle", "lock", "openGet", "openSet"} => handle[t] = "none"

LEMMA NothingOpenNext == Typed /\ NothingOpen /\ [Next]_vars => NothingOpen'
<1> SUFFICES ASSUME Typed, NothingOpen, [Next]_vars PROVE NothingOpen'
  OBVIOUS
<1>0. pc \in [Tasks -> Steps] /\ handle \in [Tasks -> {"none", "open", "garbage"}]
  BY DEF Typed, TypeOK
<1>1. CASE Restart
  BY <1>1 DEF Restart, FreshTask, NothingOpen
<1>2. ASSUME NEW t \in Tasks, NEW c, Begin(t, c) PROVE NothingOpen'
  BY <1>0, <1>2 DEF Begin, Goto, NothingOpen
<1>3. ASSUME ~ Restart, NEW t \in Tasks, Call(t) PROVE NothingOpen'
  <2> USE DEF Goto, NothingOpen
  <2>1. CASE Lock(t)
    BY <1>0, <2>1 DEF Lock
  <2>2. CASE OpenNumber(t)
    BY <1>0, <2>2 DEF OpenNumber, OpenForWriting
  <2>3. CASE OpenToRead(t)
    <3>1. /\ \A q \in Tasks \ {t} : pc'[q] = pc[q] /\ handle'[q] = handle[q]
          /\ pc'[t] \in {"length", "closeGet"}
      BY <1>0, <2>3 DEF OpenToRead
    <3> QED
      BY <3>1
  <2>4. CASE ReadLength(t)
    <3>1. handle' = handle /\ \E l \in {"closeGet", "read"} : pc' = [pc EXCEPT ![t] = l]
      BY <2>4 DEF ReadLength, Fail
    <3> QED
      BY <1>0, <3>1
  <2>5. CASE ReadValue(t)
    BY <1>0, <2>5 DEF ReadValue, Fail
  <2>6. CASE CloseAfterGet(t)
    <3>1. /\ handle' = [handle EXCEPT ![t] = "none"]
          /\ \E l : pc' = [pc EXCEPT ![t] = l]
      BY <1>3, <2>6 DEF CloseAfterGet, Abort
    <3> QED
      BY <1>0, <3>1
  <2>7. CASE OpenToWrite(t)
    BY <1>0, <1>3, <2>7 DEF OpenToWrite, OpenForWriting
  <2>8. CASE SetValue(t)
    BY <1>0, <1>3, <2>8 DEF SetValue
  <2>9. CASE Commit(t)
    BY <1>0, <2>9 DEF Commit
  <2>10. CASE CloseAfterSet(t)
    BY <1>0, <2>10 DEF CloseAfterSet
  <2> QED
    BY <1>3, <2>1, <2>2, <2>3, <2>4, <2>5, <2>6, <2>7, <2>8, <2>9, <2>10 DEF Call
<1>4. CASE BootCall
  <2>1. \E c : Begin("main", c)
    BY <1>4 DEF BootCall
  <2> QED
    BY <1>2, <2>1 DEF Tasks
<1>5. ASSUME NEW t \in Users, UserCall(t) PROVE NothingOpen'
  <2>1. \E c : Begin(t, c)
    BY <1>5 DEF UserCall
  <2> QED
    BY <1>2, <2>1 DEF Tasks
<1>6. CASE PowerLoss
  BY <1>1, <1>6 DEF PowerLoss
<1>7. CASE UNCHANGED vars
  BY <1>7 DEF vars, callVars, NothingOpen
<1> QED
  BY <1>1, <1>3, <1>4, <1>5, <1>6, <1>7 DEF Next

(* HandlesClosed: no path through nvs_lib, those of failures included,     *)
(* returns with its handle open (nvs_lib.c:133, 162, 433, 465, 511, 551).  *)
THEOREM NoHandleLeak == Spec => []HandlesClosed
<1>1. Init => NothingOpen
  BY DEF Init, NothingOpen, FreshTask
<1>2. NothingOpen => HandlesClosed
  BY DEF NothingOpen, HandlesClosed
<1> QED
  BY <1>1, <1>2, TypedInit, TypedNext, NothingOpenNext, PTL DEF Spec

-----------------------------------------------------------------------------
(* FailuresExplained *)

(* Only a name read before its namespace existed meets a handle that was   *)
(* not opened; a value that is read under the mutex keeps its length.      *)
Excused(t) ==
    /\ handle[t] = "garbage" \/ err[t] = "handle" => early[t] /\ Key(t) \in Texts
    /\ (handle[t] = "garbage" \/ err[t] = "handle") /\ t = "main" => refused
    /\ pc[t] # "idle" /\ ~ early[t] => SpaceOf(Key(t)) \in spaces
    /\ err[t] # "ok" => pc[t] = "closeGet"
    /\ handle[t] = "garbage" => pc[t] \in {"length", "closeGet"}
    /\ err[t] = "length" => Key(t) \in Texts \/ (t = "main" /\ call[t].op = "get")
    /\ Key(t) \in Arrays /\ call[t].op = "save" /\ pc[t] \notin {"idle", "lock"} => lock = t
    /\ Key(t) \in Arrays /\ call[t].op = "save" /\ pc[t] = "read" =>
         len[t] = Len(store[Key(t)])

(* The main task's first read makes a namespace, unless there is no space. *)
FirstReadDone ==
    next > 2 \/ (next = 2 /\ pc["main"] # "openGet") => "wifi" \in spaces \/ refused

(* A task is excused as before when others take a step. *)
LEMMA OthersExcused ==
    ASSUME NEW q \in Tasks, Excused(q),
           pc'[q] = pc[q], handle'[q] = handle[q], err'[q] = err[q], len'[q] = len[q],
           call'[q] = call[q], early'[q] = early[q],
           spaces \subseteq spaces',
           refused => refused',
           lock = q => lock' = q,
           lock = q /\ Key(q) \in Arrays => store'[Key(q)] = store[Key(q)]
    PROVE  Excused(q)'
<1>1. Key(q)' = Key(q)
  BY DEF Key
<1> QED
  BY <1>1 DEF Excused

(* The state after a restart. *)
LEMMA RestartExcused ==
    ASSUME Restart PROVE (\A t \in Tasks : Excused(t))' /\ FirstReadDone'
  BY DEF Restart, FreshTask, Excused, FirstReadDone

(* What a step in a call leaves alone. *)
LEMMA CallKeeps ==
    ASSUME Typed, NEW t \in Tasks, Call(t), ~ Restart
    PROVE  /\ UNCHANGED <<call, early, next>>
           /\ spaces \subseteq spaces'
           /\ refused => refused'
           /\ pc[t] # "idle"
           /\ lock' \in {lock, "none", t}
           /\ lock' # lock => lock \in {t, "none"}
           /\ pc[t] # "set" => store' = store
           /\ \A q \in Tasks \ {t} : /\ pc'[q] = pc[q] /\ handle'[q] = handle[q]
                                     /\ err'[q] = err[q] /\ len'[q] = len[q]
<1> USE DEF Goto, Fail, flashVars, OpenForWriting
<1>0. TypeOK
  BY DEF Typed
<1>1. CASE Lock(t)
  BY <1>0, <1>1 DEF Lock, TypeOK
<1>2. CASE OpenNumber(t)
  BY <1>0, <1>2 DEF OpenNumber, TypeOK
<1>3. CASE OpenToRead(t)
  <2>1. UNCHANGED <<flashVars, lock, next, call, len, err, early, refused>> /\ pc[t] = "openGet"
    BY <1>3 DEF OpenToRead
  <2>2. /\ \E l : pc' = [pc EXCEPT ![t] = l]
        /\ handle' = handle \/ \E h : handle' = [handle EXCEPT ![t] = h]
    BY <1>3 DEF OpenToRead
  <2> QED
    BY <1>0, <2>1, <2>2 DEF TypeOK
<1>4. CASE ReadLength(t)
  <2>1. UNCHANGED <<flashVars, lock, next, call, handle, early, refused>> /\ pc[t] = "length"
    BY <1>4 DEF ReadLength
  <2>2. /\ \E l : pc' = [pc EXCEPT ![t] = l]
        /\ err' = err \/ \E e : err' = [err EXCEPT ![t] = e]
        /\ len' = len \/ \E n : len' = [len EXCEPT ![t] = n]
    BY <1>4 DEF ReadLength
  <2> QED
    BY <1>0, <2>1, <2>2 DEF TypeOK
<1>5. CASE ReadValue(t)
  BY <1>0, <1>5 DEF ReadValue, TypeOK
<1>6. CASE CloseAfterGet(t)
  <2>1. /\ handle' = [handle EXCEPT ![t] = "none"]
        /\ len' = [len EXCEPT ![t] = 0]
        /\ UNCHANGED <<flashVars, next, call, err, early, refused>> /\ pc[t] = "closeGet"
    BY <1>6 DEF CloseAfterGet, Abort
  <2>2. \E l : pc' = [pc EXCEPT ![t] = l]
    BY <1>6 DEF CloseAfterGet, Abort
  <2>3. lock' = lock \/ (lock = t /\ lock' = "none")
    BY <1>6 DEF CloseAfterGet, Abort
  <2> QED
    BY <1>0, <2>1, <2>2, <2>3 DEF TypeOK
<1>7. CASE OpenToWrite(t)
  BY <1>0, <1>7 DEF OpenToWrite, TypeOK
<1>8. CASE SetValue(t)
  BY <1>0, <1>8 DEF SetValue, TypeOK
<1>9. CASE Commit(t)
  BY <1>0, <1>9 DEF Commit, TypeOK
<1>10. CASE CloseAfterSet(t)
  BY <1>0, <1>10 DEF CloseAfterSet, TypeOK
<1> QED
  BY <1>1, <1>2, <1>3, <1>4, <1>5, <1>6, <1>7, <1>8, <1>9, <1>10 DEF Call

(* The main task reads a text after the first read of all. *)
LEMMA TextAfterFirst ==
    ASSUME Typed, FirstReadDone, pc["main"] = "openGet", Key("main") \in Texts
    PROVE  "wifi" \in spaces \/ refused
<1>1. next \in 2 .. 9 /\ Key("main") = BootCalls[next - 1].key
  BY DEF Typed, MainCalls, Key
<1>2. BootCalls[1].key = "mode"
  BY BootCallsAre DEF Get
<1>3. next # 2
  BY <1>1, <1>2 DEF Texts
<1> QED
  BY <1>1, <1>3 DEF FirstReadDone

LEMMA ExcusedNext ==
    Typed /\ NothingOpen /\ (\A t \in Tasks : Excused(t)) /\ FirstReadDone /\ [Next]_vars
      => (\A t \in Tasks : Excused(t))' /\ FirstReadDone'
<1> SUFFICES ASSUME Typed, NothingOpen, \A t \in Tasks : Excused(t), FirstReadDone, [Next]_vars
             PROVE  (\A t \in Tasks : Excused(t))' /\ FirstReadDone'
  OBVIOUS
<1>0. TypeOK
  BY DEF Typed
<1>1. CASE Restart
  BY <1>1, RestartExcused
<1>2. ASSUME NEW t \in Tasks, NEW c \in Calls, Begin(t, c) PROVE \A q \in Tasks : Excused(q)'
  <2>1. Excused(t)'
    <3>1. pc[t] = "idle" /\ handle'[t] = "none" /\ err'[t] = "ok"
      BY <1>2 DEF Begin, NothingOpen, Excused
    <3>2. Key(t)' = c.key /\ call'[t] = c /\ (early'[t] <=> SpaceOf(c.key) \notin spaces)
      BY <1>0, <1>2 DEF Begin, TypeOK, Key
    <3>3. /\ pc'[t] \in {"lock", "openGet"} /\ spaces' = spaces
          /\ c.op = "save" /\ c.key \in Arrays => pc'[t] = "lock"
      BY <1>0, <1>2 DEF Begin, Goto, TypeOK, flashVars
    <3> QED
      BY <3>1, <3>2, <3>3 DEF Excused
  <2>2. ASSUME NEW q \in Tasks \ {t} PROVE Excused(q)'
    BY <1>0, <1>2, <2>2, OthersExcused DEF Begin, Goto, TypeOK, flashVars
  <2> QED
    BY <2>1, <2>2
<1>3. ASSUME NEW t \in Tasks, Call(t), ~ Restart PROVE Excused(t)'
  <2> USE <1>3, CallKeeps DEF Goto, Key
  <2>0. Key(t)' = Key(t) /\ Excused(t) /\ (refused => refused') /\ spaces \subseteq spaces'
    OBVIOUS
  <2>1. CASE Lock(t)
    <3>1. pc[t] = "lock" /\ pc'[t] = "openGet" /\ lock' = t
          /\ UNCHANGED <<flashVars, call, handle, len, err, early, refused>>
      BY <1>0, <2>1 DEF Lock, TypeOK
    <3> QED
      BY <2>0, <3>1 DEF Excused, flashVars
  <2>2. CASE OpenNumber(t)
    <3>1. /\ pc[t] = "openGet" /\ Key(t) \in Numbers /\ pc'[t] \in {"read", "closeGet"}
          /\ handle'[t] # "garbage"
          /\ UNCHANGED <<call, err, early>>
      BY <1>0, <2>2 DEF OpenNumber, OpenForWriting, TypeOK, NothingOpen
    <3>2. Key(t) \notin Arrays /\ Key(t) \notin Texts
      BY <3>1 DEF Numbers, Arrays, Texts
    <3>3. err[t] = "ok" /\ err'[t] = "ok"
      BY <2>0, <3>1 DEF Excused
    <3> QED
      BY <2>0, <3>1, <3>2, <3>3 DEF Excused
  <2>3. CASE OpenToRead(t)
    <3>0. /\ pc[t] = "openGet" /\ Key(t) \notin Numbers
          /\ UNCHANGED <<flashVars, lock, call, len, err, early, refused>>
      BY <2>3 DEF OpenToRead
    <3>1. err[t] = "ok" /\ handle[t] = "none"
      BY <2>0, <3>0 DEF Excused, NothingOpen
    <3>2. CASE SpaceOf(Key(t)) \in spaces
      <4>1. pc'[t] = "length" /\ handle'[t] = "open"
        BY <1>0, <2>3, <3>2 DEF OpenToRead, TypeOK
      <4> QED
        BY <2>0, <3>0, <3>1, <4>1 DEF Excused, flashVars
    <3>3. CASE SpaceOf(Key(t)) \notin spaces /\ Key(t) \in Arrays
      <4>1. pc'[t] = "closeGet" /\ handle'[t] = "none"
        BY <1>0, <2>3, <3>1, <3>3 DEF OpenToRead, TypeOK
      <4> QED
        BY <2>0, <3>0, <3>1, <4>1 DEF Excused, flashVars
    <3>4. CASE SpaceOf(Key(t)) \notin spaces /\ Key(t) \notin Arrays
      <4>1. pc'[t] = "length" /\ handle'[t] = "garbage"
        BY <1>0, <2>3, <3>4 DEF OpenToRead, TypeOK
      <4>2. Key(t) \in Texts
        BY <1>0, <3>0, <3>4 DEF TypeOK, Calls, Keys
      <4>3. early[t]
        BY <2>0, <3>0, <3>4 DEF Excused
      <4>4. t = "main" => refused
        <5>1. SpaceOf(Key(t)) = "wifi"
          BY <4>2 DEF Texts, SpaceOf
        <5> QED
          BY <3>0, <3>4, <4>2, <5>1, TextAfterFirst
      <4> QED
        BY <2>0, <3>0, <3>1, <3>4, <4>1, <4>2, <4>3, <4>4 DEF Excused, flashVars
    <3> QED
      BY <3>2, <3>3, <3>4
  <2>4. CASE ReadLength(t)
    <3>0. /\ pc[t] = "length"
          /\ UNCHANGED <<flashVars, lock, call, handle, early, refused>>
      BY <2>4 DEF ReadLength
    <3>1. err[t] = "ok"
      BY <2>0, <3>0 DEF Excused
    <3>2. CASE handle[t] = "garbage"
      <4>1. pc'[t] = "closeGet" /\ err'[t] = "handle"
        BY <1>0, <2>4, <3>2 DEF ReadLength, Fail, TypeOK
      <4> QED
        BY <2>0, <3>0, <3>2, <4>1 DEF Excused, flashVars
    <3>3. CASE handle[t] # "garbage" /\ store[Key(t)] = Missing
      <4>1. pc'[t] = "closeGet" /\ err'[t] = "ok"
        BY <1>0, <2>4, <3>1, <3>3 DEF ReadLength, TypeOK
      <4> QED
        BY <2>0, <3>0, <3>3, <4>1 DEF Excused, flashVars
    <3>4. CASE handle[t] # "garbage" /\ store[Key(t)] # Missing
      <4>1. pc'[t] = "read" /\ err'[t] = "ok" /\ len'[t] = Len(store[Key(t)])
        BY <1>0, <2>4, <3>1, <3>4 DEF ReadLength, TypeOK
      <4> QED
        BY <2>0, <3>0, <3>4, <4>1 DEF Excused, flashVars
    <3> QED
      BY <3>2, <3>3, <3>4
  <2>5. CASE ReadValue(t)
    <3>0. /\ pc[t] = "read" /\ pc'[t] = "closeGet"
          /\ UNCHANGED <<flashVars, lock, call, handle, len, early, refused>>
      BY <1>0, <2>5 DEF ReadValue, Fail, TypeOK
    <3>1. err[t] = "ok" /\ handle[t] # "garbage"
      BY <2>0, <3>0 DEF Excused
    <3>2. CASE ~ Grown(t)
      <4>1. err'[t] = "ok"
        BY <2>5, <3>1, <3>2 DEF ReadValue
      <4> QED
        BY <2>0, <3>0, <3>1, <4>1 DEF Excused, flashVars
    <3>3. CASE Grown(t)
      <4>1. err'[t] = "length"
        BY <1>0, <2>5, <3>3 DEF ReadValue, Fail, TypeOK
      <4>2. Key(t) \in Texts \/ call[t].op = "get"
        <5>1. Key(t) \in Texts \/ Key(t) \in Arrays
          BY <1>0, <3>3 DEF Grown, TypeOK, Calls, Keys
        <5>2. Key(t) \in Arrays /\ call[t].op = "save" => len[t] = Len(store[Key(t)])
          BY <2>0, <3>0 DEF Excused
        <5>3. len[t] \in Nat
          BY <1>0 DEF TypeOK
        <5>4. ~ (Key(t) \in Arrays /\ call[t].op = "save")
          BY <3>3, <5>2, <5>3 DEF Grown
        <5> QED
          BY <1>0, <5>1, <5>4 DEF TypeOK, Calls
      <4>3. t # "main" => call[t].op = "save"
        BY <3>0 DEF Typed, CarriesValue
      <4> QED
        BY <2>0, <3>0, <3>1, <4>1, <4>2, <4>3 DEF Excused, flashVars
    <3> QED
      BY <3>2, <3>3
  <2>6. CASE CloseAfterGet(t)
    <3>1. /\ err[t] = "ok" /\ err' = err /\ pc[t] = "closeGet" /\ handle'[t] = "none"
          /\ UNCHANGED <<flashVars, call, early, refused>>
      BY <1>0, <2>6 DEF CloseAfterGet, Abort, TypeOK
    <3>2. pc'[t] = "idle" \/ (pc'[t] = "openSet" /\ lock' = lock)
      BY <1>0, <2>6 DEF CloseAfterGet, Abort, TypeOK
    <3> QED
      BY <2>0, <3>1, <3>2 DEF Excused, flashVars
  <2>7. CASE OpenToWrite(t)
    <3>1. /\ pc[t] = "openSet" /\ pc'[t] = "set" /\ handle'[t] = "open"
          /\ UNCHANGED <<call, err, early, lock>>
      BY <1>0, <2>7 DEF OpenToWrite, OpenForWriting, TypeOK
    <3> QED
      BY <2>0, <3>1 DEF Excused
  <2>8. CASE SetValue(t)
    <3>1. /\ pc[t] = "set" /\ pc'[t] = "commit"
          /\ UNCHANGED <<call, err, early, lock, handle>>
      BY <1>0, <2>8 DEF SetValue, TypeOK
    <3> QED
      BY <2>0, <3>1 DEF Excused
  <2>9. CASE Commit(t)
    <3>1. /\ pc[t] = "commit" /\ pc'[t] = "closeSet"
          /\ UNCHANGED <<call, err, early, lock, handle>>
      BY <1>0, <2>9 DEF Commit, TypeOK
    <3> QED
      BY <2>0, <3>1 DEF Excused
  <2>10. CASE CloseAfterSet(t)
    <3>1. /\ pc[t] = "closeSet" /\ pc'[t] = "idle" /\ handle'[t] = "none"
          /\ UNCHANGED <<call, err, early>>
      BY <1>0, <2>10 DEF CloseAfterSet, TypeOK
    <3> QED
      BY <2>0, <3>1 DEF Excused
  <2> QED
    BY <2>1, <2>2, <2>3, <2>4, <2>5, <2>6, <2>7, <2>8, <2>9, <2>10 DEF Call
<1>4. ASSUME NEW t \in Tasks, Call(t), ~ Restart, NEW q \in Tasks \ {t} PROVE Excused(q)'
  <2>1. /\ UNCHANGED <<call, early>> /\ spaces \subseteq spaces' /\ (refused => refused')
        /\ pc'[q] = pc[q] /\ handle'[q] = handle[q] /\ err'[q] = err[q] /\ len'[q] = len[q]
        /\ lock = q => lock' = q
    BY <1>0, <1>4, CallKeeps, NvsAssumption DEF TypeOK, Tasks
  <2>2. ASSUME lock = q, Key(q) \in Arrays PROVE store'[Key(q)] = store[Key(q)]
    <3>1. CASE pc[t] # "set"
      BY <1>4, <3>1, CallKeeps
    <3>2. CASE pc[t] = "set"
      <4>1. call[t].op = "save" /\ Key(t) \notin Arrays
        BY <1>4, <2>2, <3>2 DEF Typed, CarriesValue, Excused
      <4>2. store' = [store EXCEPT ![Key(t)] = call[t].val]
        BY <1>4, <3>2 DEF Call, Lock, OpenNumber, OpenToRead, ReadLength, ReadValue,
           CloseAfterGet, OpenToWrite, SetValue, Commit, CloseAfterSet
      <4> QED
        BY <2>2, <4>1, <4>2
    <3> QED
      BY <3>1, <3>2
  <2> QED
    BY <2>1, <2>2, OthersExcused
<1>5. ASSUME NEW t \in Tasks, Call(t), ~ Restart PROVE FirstReadDone'
  <2>1. /\ next' = next /\ spaces \subseteq spaces' /\ (refused => refused')
        /\ pc'["main"] # pc["main"] => t = "main"
    BY <1>5, CallKeeps DEF Tasks
  <2>2. CASE t = "main" /\ pc["main"] = "openGet" /\ next = 2
    <3>1. Key("main") = "mode"
      BY <2>2, BootCallsAre DEF Typed, MainCalls, Get, Key
    <3>2. OpenNumber("main")
      BY <1>5, <2>2, <3>1 DEF Call, Lock, OpenNumber, OpenToRead, ReadLength, ReadValue,
         CloseAfterGet, OpenToWrite, SetValue, Commit, CloseAfterSet, Numbers
    <3>3. CASE refused' = TRUE
      BY <3>3 DEF FirstReadDone
    <3>4. CASE OpenForWriting("main", "read")
      BY <3>1, <3>4 DEF OpenForWriting, SpaceOf, FirstReadDone
    <3> QED
      BY <3>2, <3>3, <3>4 DEF OpenNumber
  <2>3. CASE ~ (t = "main" /\ pc["main"] = "openGet" /\ next = 2)
    BY <2>1, <2>3 DEF FirstReadDone
  <2> QED
    BY <2>2, <2>3
<1>6. CASE BootCall
  <2>1. next \in 1 .. 8 /\ next' = next + 1
    BY <1>6, BootCallsLength, <1>0 DEF BootCall, TypeOK
  <2>2. BootCalls[next] \in Calls
    BY <2>1, BootCallsTyped
  <2>3. PICK c \in Calls : Begin("main", c)
    <3>1. got["main"] \in Values \cup {NoAnswer}
      BY <1>0 DEF TypeOK, Tasks
    <3> QED
      BY <1>6, <2>2, <3>1 DEF BootCall, Calls, Save
  <2>4. /\ \A q \in Tasks : Excused(q)'
        /\ pc["main"] = "idle" /\ pc'["main"] # "idle" /\ spaces' = spaces /\ refused' = refused
    BY <1>0, <1>2, <2>3 DEF Begin, Goto, TypeOK, Tasks, flashVars
  <2>5. next = 1 => pc'["main"] = "openGet"
    <3>1. next = 1 => BootCalls[next] = Get("mode")
      BY BootCallsAre
    <3>2. next = 1 => Begin("main", Get("mode"))
      BY <1>6, <3>1 DEF BootCall, Get, Save
    <3> QED
      BY <1>0, <3>2 DEF Begin, Goto, Get, TypeOK, Tasks
  <2> QED
    BY <2>1, <2>4, <2>5 DEF FirstReadDone
<1>7. ASSUME NEW t \in Users, UserCall(t)
      PROVE  (\A q \in Tasks : Excused(q)') /\ FirstReadDone'
  <2>1. PICK c \in UserCalls[t] : Begin(t, c)
    BY <1>7 DEF UserCall
  <2>2. c \in Calls /\ t \in Tasks /\ t # "main" /\ next' = next
    BY <1>7, <2>1, NvsAssumption DEF Calls, Tasks, UserCall
  <2>3. pc'["main"] = pc["main"] /\ spaces' = spaces /\ refused' = refused
    BY <1>0, <2>1, <2>2 DEF Begin, Goto, TypeOK, Tasks, flashVars
  <2> QED
    BY <1>2, <2>1, <2>2, <2>3 DEF FirstReadDone
<1>8. CASE UNCHANGED vars
  BY <1>8 DEF vars, flashVars, callVars, Excused, FirstReadDone, Key
<1>9. CASE PowerLoss
  BY <1>1, <1>9 DEF PowerLoss
<1> QED
  BY <1>1, <1>3, <1>4, <1>5, <1>6, <1>7, <1>8, <1>9 DEF Next

(* FailuresExplained: the device aborts on a setting it reads only for a   *)
(* name asked for in the first moments of the very first boot, or for a    *)
(* value replaced by a longer one while it is read without the mutex.      *)
(* Setup itself only fails so when the flash was full (nvs_lib.c:473-509,  *)
(* 520-549, main.c:110, wifi_sniffer.c:81, 531).                           *)
THEOREM ReadsFailForAReason == Spec => []FailuresExplained
<1>1. Init => NothingOpen /\ (\A t \in Tasks : Excused(t)) /\ FirstReadDone
  BY DEF Init, NothingOpen, FreshTask, Excused, FirstReadDone
<1>2. (\A t \in Tasks : Excused(t)) => FailuresExplained
  BY DEF Excused, FailuresExplained
<1> QED
  BY <1>1, <1>2, TypedInit, TypedNext, NothingOpenNext, ExcusedNext, PTL DEF Spec

-----------------------------------------------------------------------------
(* NvsLib implements KeyValue                                              *)

(* A key with a value has a namespace, and so has one that is being saved. *)
SpacesHold ==
    /\ \A k \in Keys : store[k] # Missing \/ disk[k] # Missing => SpaceOf(k) \in spaces
    /\ \A t \in Tasks : pc[t] \in {"set", "commit"} => SpaceOf(Key(t)) \in spaces

LEMMA SpacesNext == Typed /\ SpacesHold /\ [Next]_vars => SpacesHold'
<1> SUFFICES ASSUME Typed, SpacesHold, [Next]_vars PROVE SpacesHold'
  OBVIOUS
<1>0. TypeOK
  BY DEF Typed
<1>1. CASE Restart
  BY <1>1 DEF Restart, FreshTask, SpacesHold
<1>2. CASE ~ Restart
  <2>1. ASSUME NEW t \in Tasks, NEW c, Begin(t, c) PROVE SpacesHold'
    <3>1. UNCHANGED flashVars /\ pc'[t] \notin {"set", "commit"}
      BY <1>0, <2>1 DEF Begin, Goto, TypeOK
    <3>2. \A q \in Tasks \ {t} : pc'[q] = pc[q] /\ Key(q)' = Key(q)
      BY <1>0, <2>1 DEF Begin, Goto, TypeOK, Key
    <3> QED
      BY <3>1, <3>2 DEF SpacesHold, flashVars
  <2>2. CASE BootCall \/ \E t \in Users : UserCall(t)
    <3>1. \E t \in Tasks : \E c : Begin(t, c)
      BY <2>2 DEF BootCall, UserCall, Tasks
    <3> QED
      BY <2>1, <3>1
  <2>3. ASSUME NEW t \in Tasks, Call(t) PROVE SpacesHold'
    <3>1. /\ \A q \in Tasks : Key(q)' = Key(q)
          /\ spaces \subseteq spaces'
          /\ \A q \in Tasks \ {t} : pc'[q] = pc[q]
      BY <1>2, <2>3, CallKeeps DEF Key
    <3>2. CASE SetValue(t)
      <4>1. /\ store' = [store EXCEPT ![Key(t)] = call[t].val]
            /\ disk' \in {disk, [disk EXCEPT ![Key(t)] = call[t].val]}
            /\ SpaceOf(Key(t)) \in spaces
        BY <1>2, <3>2 DEF SetValue, SpacesHold
      <4> QED
        BY <1>0, <3>1, <4>1 DEF SpacesHold, TypeOK
    <3>3. CASE Commit(t)
      <4>1. /\ store' = store /\ disk' = [disk EXCEPT ![Key(t)] = store[Key(t)]]
            /\ SpaceOf(Key(t)) \in spaces
        BY <3>3 DEF Commit, SpacesHold
      <4> QED
        BY <1>0, <3>1, <4>1 DEF SpacesHold, TypeOK
    <3>4. CASE ~ SetValue(t) /\ ~ Commit(t)
      <4>1. store' = store /\ disk' = disk
        BY <1>2, <2>3, <3>4 DEF Call, Lock, OpenNumber, OpenToRead, OpenForWriting, ReadLength,
           ReadValue, CloseAfterGet, Abort, OpenToWrite, CloseAfterSet, flashVars
      <4>2. pc'[t] \in {"set", "commit"} => SpaceOf(Key(t)) \in spaces'
        BY <1>0, <1>2, <2>3, <3>4 DEF Call, Lock, OpenNumber, OpenToRead, OpenForWriting,
           ReadLength, ReadValue, CloseAfterGet, Abort, OpenToWrite, CloseAfterSet, Goto, Fail, TypeOK
      <4> QED
        BY <3>1, <4>1, <4>2 DEF SpacesHold
    <3> QED
      BY <3>2, <3>3, <3>4
  <2>4. CASE UNCHANGED vars
    BY <2>4 DEF vars, flashVars, callVars, SpacesHold, Key
  <2>5. CASE PowerLoss
    BY <1>2, <2>5 DEF PowerLoss
  <2> QED
    BY <2>2, <2>3, <2>4, <2>5 DEF Next
<1> QED
  BY <1>1, <1>2

(* What KeyValue sees of a task. *)
StageF  == [t \in Tasks |-> StageOf(t)]
AnswerF == [t \in Tasks |-> AnswerOf(t)]

(* The other tasks stay where they are, t goes to stage s with answer a. *)
LEMMA OneStage ==
    ASSUME NEW t \in Tasks,
           \A q \in Tasks \ {t} : /\ pc'[q] = pc[q] /\ err'[q] = err[q]
                                  /\ call'[q] = call[q] /\ got'[q] = got[q]
    PROVE  /\ StageF' = [StageF EXCEPT ![t] = StageOf(t)']
           /\ AnswerF' = [AnswerF EXCEPT ![t] = AnswerOf(t)']
<1>1. ASSUME NEW q \in Tasks \ {t}
      PROVE  StageOf(q)' = StageOf(q) /\ AnswerOf(q)' = AnswerOf(q)
  <2>1. Key(q)' = Key(q)
    BY DEF Key
  <2>2. StageOf(q)' = StageOf(q)
    BY <2>1 DEF StageOf
  <2> QED
    BY <2>2 DEF AnswerOf
<1> QED
  BY <1>1 DEF StageF, AnswerF

(* Where a step leads to, by the steps of StageOf. *)
LEMMA StageIs ==
    ASSUME NEW t \in Tasks
    PROVE  /\ pc[t] = "idle" => StageOf(t) = "idle" /\ AnswerOf(t) = NoAnswer
           /\ pc[t] = "commit" => StageOf(t) = "written" /\ AnswerOf(t) = NoAnswer
           /\ pc[t] \in {"lock", "openGet", "length", "read", "openSet", "set"} =>
                StageOf(t) = "asked" /\ AnswerOf(t) = NoAnswer
           /\ pc[t] = "closeSet" => StageOf(t) = "done"
           /\ pc[t] = "closeGet" /\ err[t] # "ok" =>
                StageOf(t) = "asked" /\ AnswerOf(t) = NoAnswer
           /\ pc[t] = "closeGet" /\ err[t] = "ok" /\ call[t].op = "get" =>
                StageOf(t) = "done" /\ AnswerOf(t) = got[t]
           /\ pc[t] = "closeGet" /\ err[t] = "ok" /\ call[t].op # "get" =>
                /\ StageOf(t) = IF Alike(Key(t), call[t].val, got[t]) THEN "done" ELSE "asked"
                /\ AnswerOf(t) = NoAnswer
           /\ call[t].op # "get" => AnswerOf(t) = NoAnswer
  BY DEF StageOf, AnswerOf

(* A step after which t has read v: one of KeyValue reads it, or finds it  *)
(* alike, or the save goes on.                                             *)
LEMMA ReadStage ==
    ASSUME Typed, NEW t \in Tasks, StageOf(t) = "asked", AnswerOf(t) = NoAnswer,
           pc' = [pc EXCEPT ![t] = "closeGet"], err' = err, err[t] = "ok",
           got' = [got EXCEPT ![t] = Seen(store, Key(t))],
           UNCHANGED <<store, disk, call>>
    PROVE  [KV!KVNext]_KV!kvVars
<1>1. /\ pc'[t] = "closeGet" /\ err'[t] = "ok" /\ got'[t] = Seen(store, Key(t))
      /\ Key(t)' = Key(t)
      /\ \A q \in Tasks \ {t} : /\ pc'[q] = pc[q] /\ err'[q] = err[q]
                                /\ call'[q] = call[q] /\ got'[q] = got[q]
      /\ call[t].op \in {"get", "save"}
  BY DEF Typed, TypeOK, Key, Calls
<1>2. /\ StageF' = [StageF EXCEPT ![t] = StageOf(t)']
      /\ AnswerF' = [AnswerF EXCEPT ![t] = AnswerOf(t)']
  BY <1>1, OneStage
<1>3. StageF[t] = "asked" /\ AnswerF[t] = NoAnswer
  BY DEF StageF, AnswerF
<1>4. Seen(store, Key(t)) = KV!Seen(store, call[t].key)
  BY DEF Seen, KV!Seen, Key
<1>s. /\ StageOf(t)' = IF call[t].op = "get" \/ Alike(Key(t), call[t].val, got'[t])
                       THEN "done" ELSE "asked"
      /\ AnswerOf(t)' = IF call[t].op = "get" THEN got'[t] ELSE NoAnswer
  BY <1>1 DEF StageOf, AnswerOf
<1>5. CASE call[t].op = "get"
  <2>1. StageOf(t)' = "done" /\ AnswerOf(t)' = Seen(store, Key(t))
    BY <1>1, <1>5, <1>s
  <2>2. KV!Read(t)
    BY <1>2, <1>3, <1>4, <1>5, <2>1 DEF KV!Read, StageF, AnswerF
  <2> QED
    BY <2>2 DEF KV!KVNext
<1>6. CASE call[t].op = "save" /\ Alike(Key(t), call[t].val, Seen(store, Key(t)))
  <2>1. StageOf(t)' = "done" /\ AnswerOf(t)' = NoAnswer
    BY <1>1, <1>6, <1>s
  <2>2. AnswerF' = AnswerF
    BY <1>2, <1>3, <2>1 DEF AnswerF
  <2>3. KV!Leave(t)
    BY <1>2, <1>3, <1>4, <1>6, <2>1, <2>2 DEF KV!Leave, StageF, AnswerF, Key
  <2> QED
    BY <2>3 DEF KV!KVNext
<1>7. CASE call[t].op = "save" /\ ~ Alike(Key(t), call[t].val, Seen(store, Key(t)))
  <2>1. StageOf(t)' = "asked" /\ AnswerOf(t)' = NoAnswer
    BY <1>1, <1>7, <1>s
  <2>2. StageF' = StageF /\ AnswerF' = AnswerF
    BY <1>2, <1>3, <2>1 DEF StageF, AnswerF
  <2> QED
    BY <2>2 DEF KV!kvVars, StageF, AnswerF
<1> QED
  BY <1>1, <1>5, <1>6, <1>7

(* Whatever begins anew does so in KeyValue. *)
LEMMA RestartStage == ASSUME Restart PROVE [KV!KVNext]_KV!kvVars
<1>1. StageF' = [t \in Tasks |-> "idle"] /\ AnswerF' = [t \in Tasks |-> NoAnswer]
  BY StageIs DEF Restart, FreshTask, StageF, AnswerF, StageOf, AnswerOf
<1>2. KV!Restart
  BY <1>1 DEF Restart, KV!Restart, StageF, AnswerF
<1> QED
  BY <1>2 DEF KV!KVNext

(* A step that KeyValue does not see. *)
LEMMA SameStage ==
    ASSUME NEW t \in Tasks, UNCHANGED <<store, disk, call>>,
           \A q \in Tasks \ {t} : pc'[q] = pc[q] /\ err'[q] = err[q] /\ got'[q] = got[q],
           StageOf(t)' = StageOf(t), AnswerOf(t)' = AnswerOf(t)
    PROVE  [KV!KVNext]_KV!kvVars
<1>1. /\ StageF' = [StageF EXCEPT ![t] = StageOf(t)']
      /\ AnswerF' = [AnswerF EXCEPT ![t] = AnswerOf(t)']
  BY OneStage
<1>2. StageF' = StageF /\ AnswerF' = AnswerF
  BY <1>1 DEF StageF, AnswerF
<1> QED
  BY <1>2 DEF KV!kvVars, StageF, AnswerF

(* A call begins. *)
LEMMA BeginStage ==
    ASSUME Typed, NEW t \in Tasks, NEW c \in Calls, Begin(t, c)
    PROVE  [KV!KVNext]_KV!kvVars
<1>1. /\ pc[t] = "idle" /\ pc'[t] \in {"lock", "openGet"} /\ call' = [call EXCEPT ![t] = c]
      /\ \A q \in Tasks \ {t} : /\ pc'[q] = pc[q] /\ err'[q] = err[q]
                                /\ call'[q] = call[q] /\ got'[q] = got[q]
      /\ UNCHANGED <<store, disk>>
  BY DEF Begin, Goto, Typed, TypeOK, flashVars
<1>2. /\ StageOf(t) = "idle" /\ StageOf(t)' = "asked"
      /\ AnswerOf(t) = NoAnswer /\ AnswerOf(t)' = NoAnswer
  BY <1>1 DEF StageOf, AnswerOf
<1>3. /\ StageF' = [StageF EXCEPT ![t] = "asked"] /\ StageF[t] = "idle"
      /\ AnswerF' = AnswerF
  BY <1>1, <1>2, OneStage, ZenonT(30) DEF StageF, AnswerF
<1>4. KV!Ask(t)
  BY <1>1, <1>3 DEF KV!Ask, StageF, AnswerF, Calls
<1> QED
  BY <1>4 DEF KV!KVNext

(* The steps of a call. *)
LEMMA CallStage ==
    ASSUME Typed, SpacesHold, NEW t \in Tasks, Excused(t), Call(t)
    PROVE  [KV!KVNext]_KV!kvVars
<1>0. TypeOK
  BY DEF Typed
<1>1. CASE Restart
  BY <1>1, RestartStage
<1>2. CASE ~ Restart
  <2>1. UNCHANGED call
    BY <1>2, CallKeeps
  <2>2. \A q \in Tasks \ {t} : pc'[q] = pc[q] /\ err'[q] = err[q] /\ call'[q] = call[q]
    BY <1>2, CallKeeps
  <2>3. \A q \in Tasks \ {t} : got'[q] = got[q]
    BY <1>0, <1>2 DEF Call, Lock, OpenNumber, OpenToRead, OpenForWriting, ReadLength, ReadValue,
       CloseAfterGet, Abort, OpenToWrite, SetValue, Commit, CloseAfterSet, TypeOK
  <2>4. err[t] # "ok" => pc[t] = "closeGet"
    BY DEF Excused
  <2>5. Key(t) \in Keys /\ (SpaceOf(Key(t)) \notin spaces => Default[Key(t)] = Seen(store, Key(t)))
    BY <1>0 DEF SpacesHold, Seen, TypeOK, Calls, Key
  <2>6. store[Key(t)] = Missing => Default[Key(t)] = Seen(store, Key(t))
    BY DEF Seen
  <2>a. ASSUME UNCHANGED <<store, disk>>,
               pc[t] \in {"lock", "openGet", "length", "read", "openSet"},
               \/ pc'[t] \in {"openGet", "length", "read", "set"}
               \/ pc'[t] = "closeGet" /\ err'[t] # "ok"
        PROVE  [KV!KVNext]_KV!kvVars
    <3>1. /\ StageOf(t) = "asked" /\ StageOf(t)' = "asked"
          /\ AnswerOf(t) = NoAnswer /\ AnswerOf(t)' = NoAnswer
      BY <2>a DEF StageOf, AnswerOf
    <3> QED
      BY <2>1, <2>2, <2>3, <2>a, <3>1, SameStage
  <2>b. ASSUME UNCHANGED <<store, disk, err>>, pc[t] \in {"openGet", "length", "read"},
               pc' = [pc EXCEPT ![t] = "closeGet"],
               got' = [got EXCEPT ![t] = Seen(store, Key(t))]
        PROVE  [KV!KVNext]_KV!kvVars
    <3>1. StageOf(t) = "asked" /\ AnswerOf(t) = NoAnswer
      BY <2>b DEF StageOf, AnswerOf
    <3> QED
      BY <2>1, <2>4, <2>b, <3>1, ReadStage
  <2>7. CASE Lock(t)
    BY <1>0, <2>7, <2>a DEF Lock, Goto, flashVars, TypeOK
  <2>8. CASE OpenNumber(t)
    <3>1. CASE OpenForWriting(t, "read")
      BY <1>0, <2>8, <2>a, <3>1 DEF OpenNumber, OpenForWriting, Goto, TypeOK
    <3>2. CASE ~ OpenForWriting(t, "read")
      BY <2>5, <2>8, <2>b, <3>2 DEF OpenNumber, Goto, flashVars
    <3> QED
      BY <3>1, <3>2
  <2>9. CASE OpenToRead(t)
    <3>1. UNCHANGED <<store, disk, err>> /\ pc[t] = "openGet"
      BY <2>9 DEF OpenToRead, flashVars
    <3>2. \/ Goto(t, "length")
          \/ Goto(t, "closeGet") /\ got' = [got EXCEPT ![t] = Seen(store, Key(t))]
      BY <2>5, <2>9 DEF OpenToRead
    <3>3. CASE Goto(t, "length")
      BY <1>0, <2>a, <3>1, <3>3 DEF Goto, TypeOK
    <3> QED
      BY <2>b, <3>1, <3>2, <3>3 DEF Goto
  <2>10. CASE ReadLength(t)
    <3>1. UNCHANGED <<store, disk>> /\ pc[t] = "length"
      BY <2>10 DEF ReadLength, flashVars
    <3>2. \/ Goto(t, "read")
          \/ Goto(t, "closeGet") /\ err' = [err EXCEPT ![t] = "handle"]
          \/ Goto(t, "closeGet") /\ got' = [got EXCEPT ![t] = Seen(store, Key(t))] /\ err' = err
      BY <2>6, <2>10 DEF ReadLength, Fail
    <3>3. CASE Goto(t, "read") \/ (Goto(t, "closeGet") /\ err' = [err EXCEPT ![t] = "handle"])
      BY <1>0, <2>a, <3>1, <3>3 DEF Goto, TypeOK
    <3> QED
      BY <2>b, <3>1, <3>2, <3>3 DEF Goto
  <2>11. CASE ReadValue(t)
    <3>1. UNCHANGED <<store, disk>> /\ pc[t] = "read"
      BY <2>11 DEF ReadValue, flashVars
    <3>2. \/ Goto(t, "closeGet") /\ err' = [err EXCEPT ![t] = "length"]
          \/ Goto(t, "closeGet") /\ got' = [got EXCEPT ![t] = Seen(store, Key(t))] /\ err' = err
      BY <2>11 DEF ReadValue, Fail
    <3>3. CASE Goto(t, "closeGet") /\ err' = [err EXCEPT ![t] = "length"]
      BY <1>0, <2>a, <3>1, <3>3 DEF Goto, TypeOK
    <3> QED
      BY <2>b, <3>1, <3>2, <3>3 DEF Goto
  <2>c. ASSUME UNCHANGED <<store, disk>>, StageF[t] = "done", pc'[t] = "idle"
        PROVE  [KV!KVNext]_KV!kvVars
    <3>1. StageOf(t)' = "idle" /\ AnswerOf(t)' = NoAnswer
      BY <2>c DEF StageOf, AnswerOf
    <3>2. /\ StageF' = [StageF EXCEPT ![t] = "idle"]
          /\ AnswerF' = [AnswerF EXCEPT ![t] = NoAnswer]
      BY <2>2, <2>3, <3>1, OneStage
    <3>3. KV!Return(t)
      BY <2>1, <2>c, <3>2 DEF KV!Return, StageF, AnswerF
    <3> QED
      BY <3>3 DEF KV!KVNext
  <2>12. CASE CloseAfterGet(t)
    <3>1. /\ pc[t] = "closeGet" /\ err[t] = "ok" /\ UNCHANGED <<store, disk, err, got>>
          /\ IF call[t].op = "get" \/ Alike(Key(t), call[t].val, got[t])
             THEN Goto(t, "idle") ELSE Goto(t, "openSet")
      BY <1>2, <2>12 DEF CloseAfterGet, Abort, flashVars
    <3>2. CASE call[t].op = "get" \/ Alike(Key(t), call[t].val, got[t])
      <4>1. StageF[t] = "done"
        BY <3>1, <3>2 DEF StageF, StageOf
      <4>2. pc'[t] = "idle"
        BY <1>0, <3>1, <3>2 DEF Goto, TypeOK
      <4> QED
        BY <2>c, <3>1, <4>1, <4>2
    <3>3. CASE ~ (call[t].op = "get" \/ Alike(Key(t), call[t].val, got[t]))
      <4>1. pc'[t] = "openSet"
        BY <1>0, <3>1, <3>3 DEF Goto, TypeOK
      <4>2. StageOf(t) = "asked" /\ AnswerOf(t) = NoAnswer
        BY <3>1, <3>3 DEF StageOf, AnswerOf
      <4>3. StageOf(t)' = "asked" /\ AnswerOf(t)' = NoAnswer
        BY <4>1 DEF StageOf, AnswerOf
      <4> QED
        BY <2>1, <2>2, <2>3, <3>1, <4>2, <4>3, SameStage
    <3> QED
      BY <3>2, <3>3
  <2>13. CASE OpenToWrite(t)
    BY <1>0, <1>2, <2>13, <2>a DEF OpenToWrite, OpenForWriting, Goto, TypeOK
  <2>14. CASE SetValue(t)
    <3>1. /\ pc[t] = "set" /\ Goto(t, "commit")
          /\ store' = [store EXCEPT ![Key(t)] = call[t].val]
          /\ disk' \in {disk, [disk EXCEPT ![Key(t)] = call[t].val]}
      BY <1>2, <2>14 DEF SetValue
    <3>2. pc'[t] = "commit" /\ call[t].op = "save"
      BY <1>0, <3>1 DEF Goto, TypeOK, Typed, CarriesValue
    <3>3. /\ StageOf(t) = "asked" /\ StageOf(t)' = "written"
          /\ AnswerOf(t) = NoAnswer /\ AnswerOf(t)' = NoAnswer
      BY <3>1, <3>2 DEF StageOf, AnswerOf
    <3>4. /\ StageF' = [StageF EXCEPT ![t] = "written"] /\ StageF[t] = "asked"
          /\ AnswerF' = AnswerF
      BY <2>2, <2>3, <3>3, OneStage DEF StageF, AnswerF
    <3>5. KV!Write(t)
      BY <2>1, <3>1, <3>2, <3>4 DEF KV!Write, StageF, AnswerF, Key
    <3> QED
      BY <3>5 DEF KV!KVNext
  <2>15. CASE Commit(t)
    <3>1. /\ pc[t] = "commit" /\ Goto(t, "closeSet") /\ UNCHANGED <<store, got>>
          /\ disk' = [disk EXCEPT ![Key(t)] = store[Key(t)]]
      BY <2>15 DEF Commit
    <3>2. pc'[t] = "closeSet" /\ call[t].op = "save"
      BY <1>0, <3>1 DEF Goto, TypeOK, Typed, CarriesValue
    <3>3. /\ StageOf(t) = "written" /\ StageOf(t)' = "done"
          /\ AnswerOf(t) = NoAnswer /\ AnswerOf(t)' = NoAnswer
      BY <2>1, <3>1, <3>2 DEF StageOf, AnswerOf
    <3>4. /\ StageF' = [StageF EXCEPT ![t] = "done"] /\ StageF[t] = "written"
          /\ AnswerF' = AnswerF
      BY <2>2, <2>3, <3>3, OneStage DEF StageF, AnswerF
    <3>5. KV!Persist(t)
      BY <2>1, <3>1, <3>4 DEF KV!Persist, StageF, AnswerF, Key
    <3> QED
      BY <3>5 DEF KV!KVNext
  <2>16. CASE CloseAfterSet(t)
    <3>1. pc[t] = "closeSet" /\ Goto(t, "idle") /\ UNCHANGED <<store, disk>>
      BY <2>16 DEF CloseAfterSet, flashVars
    <3>2. pc'[t] = "idle"
      BY <1>0, <3>1 DEF Goto, TypeOK
    <3>3. StageF[t] = "done"
      BY <3>1 DEF StageF, StageOf
    <3> QED
      BY <2>c, <3>1, <3>2, <3>3
  <2> QED
    BY <2>7, <2>8, <2>9, <2>10, <2>11, <2>12, <2>13, <2>14, <2>15, <2>16 DEF Call
<1> QED
  BY <1>1, <1>2

(* KeyValueSpec: to the tasks, whatever others do and whenever the power   *)
(* fails, the calls of nvs_lib are one atomic read or save                 *)
(* (nvs_lib.c:137-164, 468-553, wifi_sniffer_nvs.c:17-56,                  *)
(* wifi_lib_nvs.c:22-86).                                                  *)
THEOREM KeyValueImplemented == Spec => KeyValueSpec
<1>1. Init => KV!KVInit
  <2> SUFFICES ASSUME Init PROVE KV!KVInit
    OBVIOUS
  <2>1. \A t \in Tasks : StageOf(t) = "idle" /\ AnswerOf(t) = NoAnswer
    BY DEF Init, FreshTask, StageOf, AnswerOf
  <2> QED
    BY <2>1 DEF Init, KV!KVInit
<1>2. Init => SpacesHold
  <2> SUFFICES ASSUME Init PROVE SpacesHold
    OBVIOUS
  <2>1. /\ disk = store
        /\ spaces = {SpaceOf(k) : k \in {q \in Keys : store[q] # Missing}}
        /\ \A t \in Tasks : pc[t] = "idle"
    BY DEF Init, FreshTask
  <2> QED
    BY <2>1 DEF SpacesHold
<1>3. Init => Typed /\ NothingOpen /\ (\A t \in Tasks : Excused(t)) /\ FirstReadDone
  BY TypedInit DEF Init, NothingOpen, FreshTask, Excused, FirstReadDone
<1>4. Typed /\ (\A t \in Tasks : Excused(t)) /\ SpacesHold /\ [Next]_vars
        => [KV!KVNext]_KV!kvVars
  <2> SUFFICES ASSUME Typed, \A t \in Tasks : Excused(t), SpacesHold, [Next]_vars
               PROVE  [KV!KVNext]_KV!kvVars
    OBVIOUS
  <2>1. CASE BootCall
    <3>1. PICK c \in Calls : Begin("main", c)
      <4>1. next \in 1 .. 8
        BY <2>1, BootCallsLength DEF BootCall, Typed, TypeOK
      <4>2. PICK c : /\ Begin("main", c)
                     /\ c = IF BootCalls[next] = Save(BootCalls[next].key, NoAnswer)
                            THEN Save(BootCalls[next].key, got["main"]) ELSE BootCalls[next]
        BY <2>1 DEF BootCall
      <4>3. BootCalls[next] \in Calls
        BY <4>1, BootCallsTyped
      <4>4. Save(BootCalls[next].key, got["main"]) \in Calls
        BY <4>3 DEF Calls, Save, Typed, TypeOK, Tasks
      <4> QED
        BY <4>2, <4>3, <4>4
    <3> QED
      BY <3>1, BeginStage DEF Tasks
  <2>2. ASSUME NEW t \in Users, UserCall(t) PROVE [KV!KVNext]_KV!kvVars
    <3>1. PICK c \in UserCalls[t] : Begin(t, c)
      BY <2>2 DEF UserCall
    <3>2. c \in Calls /\ t \in Tasks
      BY <3>1, NvsAssumption DEF Calls, Tasks
    <3> QED
      BY <3>1, <3>2, BeginStage
  <2>3. ASSUME NEW t \in Tasks, Call(t) PROVE [KV!KVNext]_KV!kvVars
    BY <2>3, CallStage
  <2>4. CASE PowerLoss
    BY <2>4, RestartStage DEF PowerLoss
  <2>5. CASE UNCHANGED vars
    <3>1. StageF' = StageF /\ AnswerF' = AnswerF
      BY <2>5 DEF vars, callVars, StageF, AnswerF, StageOf, AnswerOf, Key
    <3> QED
      BY <2>5, <3>1 DEF vars, flashVars, callVars, KV!kvVars, StageF, AnswerF
  <2> QED
    BY <2>1, <2>2, <2>3, <2>4, <2>5 DEF Next
<1> QED
  BY <1>1, <1>2, <1>3, <1>4, TypedNext, NothingOpenNext, ExcusedNext, SpacesNext, PTL
     DEF Spec, KeyValueSpec, KV!KVSpec
=============================================================================
