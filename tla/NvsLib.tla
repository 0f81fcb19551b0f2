------------------------------- MODULE NvsLib --------------------------------
(***************************************************************************)
(* The settings of the ESP32 firmware in flash: nvs_lib, call by call of   *)
(* the NVS library (external), and the callers that read a setting, or     *)
(* save one that differs from what they read.  The main task makes its     *)
(* calls in the order of setup; users save settings at any time.  The      *)
(* device may lose power or abort at any step, and restarts.               *)
(*                                                                         *)
(* A value is a sequence of bytes; a number is a sequence of one.          *)
(***************************************************************************)
EXTENDS Integers, Sequences, SequencesExt

CONSTANTS Values,      \* values that are saved
          Default,     \* the value of each key while none is saved
          OwnMac,      \* the device's own address
          Stored,      \* what may be in flash at first
          Missing,     \* no value is saved
          NoAnswer,    \* nothing has been read
          Users,       \* console, button, or both
          UserCalls,   \* what each of them may save
          MaxCalls,    \* bound on the calls of users
          MaxRestarts  \* bound on losses of power

Numbers == {"mode", "rssi"}
Texts   == {"ssid"}
Arrays  == {"own", "addr2"}
Keys    == Numbers \cup Texts \cup Arrays

SpaceOf(k) == IF k \in {"mode", "ssid"} THEN "wifi" ELSE "sniffer"

ASSUME NvsAssumption ==
    /\ Values \subseteq Seq(Nat)
    /\ Default \in [Keys -> Values]
    /\ OwnMac \in Values
    /\ Missing \notin Values
    /\ NoAnswer \notin Values
    /\ Stored \subseteq [Keys -> Values \cup {Missing}]
    /\ Users \subseteq {"console", "button"}
    /\ UserCalls \in [Users -> SUBSET [op : {"save"}, key : Keys \ {"own"}, val : Values]]
    /\ MaxCalls \in Nat
    /\ MaxRestarts \in Nat

Tasks == Users \cup {"main"}

VARIABLES
    \* flash
    spaces,   \* the namespaces there are
    store,    \* the value of each key
    disk,     \* what is left of it after a loss of power
    \* RAM
    lock,     \* who holds the mutex of the filters, "none" when free
    next,     \* the next call of the main task
    \* the call each task is in
    call,     \* what it reads or saves
    pc,       \* its next step
    handle,   \* its handle: none, open, or what was in memory (garbage)
    len,      \* the length it was told
    got,      \* the value it has read
    err,      \* how it failed
    \* bookkeeping
    early,    \* it began before its namespace existed
    refused,  \* the NVS library has found no space
    calls,    \* number of calls of users
    restarts  \* number of losses of power

flashVars == <<spaces, store, disk>>
callVars  == <<call, pc, handle, len, got, err, early>>
vars == <<flashVars, lock, next, callVars, refused, calls, restarts>>

Steps == {"idle", "lock", "openGet", "length", "read", "closeGet",
          "openSet", "set", "commit", "closeSet"}

(* setup: config_wifi_init reads the settings and wifi_ap saves them again; *)
(* sniffer_init_config sets the own address and restores the filters.      *)
(* NoAnswer stands for the value the task has read last.                   *)
Calls == [op : {"get", "save"}, key : Keys, val : Values \cup {NoAnswer}]

Get(k)     == [op |-> "get", key |-> k, val |-> NoAnswer]
Save(k, v) == [op |-> "save", key |-> k, val |-> v]

(* A faulty variant: the first setting read is the name. *)
NameFirst == << Get("ssid"), Save("ssid", NoAnswer), Get("mode"), Save("own", OwnMac),
                Get("rssi"), Save("rssi", NoAnswer), Get("addr2"), Save("addr2", NoAnswer) >>

BootCalls == << Get("mode"), Get("ssid"), Save("ssid", NoAnswer), Save("own", OwnMac),
                Get("rssi"), Save("rssi", NoAnswer), Get("addr2"), Save("addr2", NoAnswer) >>

(* The mutex of the filters exists, created just before the own address.   *)
MutexCreated == next >= 4

FreshTask(x) == [t \in Tasks |-> x]

Init ==
    /\ store \in Stored
    /\ disk = store
    /\ spaces = {SpaceOf(k) : k \in {q \in Keys : store[q] # Missing}}
    /\ lock = "none"
    /\ next = 1
    /\ call = FreshTask(Get("mode"))
    /\ pc = FreshTask("idle")
    /\ handle = FreshTask("none")
    /\ len = FreshTask(0)
    /\ got = FreshTask(NoAnswer)
    /\ err = FreshTask("ok")
    /\ early = FreshTask(FALSE)
    /\ refused = FALSE
    /\ calls = 0
    /\ restarts = 0

-----------------------------------------------------------------------------
(* Helpers *)

Goto(t, l) == pc' = [pc EXCEPT ![t] = l]

Key(t) == call[t].key

Seen(s, k) == IF s[k] = Missing THEN Default[k] ELSE s[k]

(* What t reads is longer than it was told. *)
Grown(t) == Key(t) \notin Numbers /\ Len(store[Key(t)]) > len[t]

(* strncmp over the length of the new name; numbers and arrays are compared *)
(* whole.                                                                   *)
Alike(k, new, old) == IF k \in Texts THEN IsPrefix(new, old) ELSE new = old

Restart ==
    /\ store' = disk
    /\ lock' = "none"
    /\ next' = 1
    /\ pc' = FreshTask("idle")
    /\ handle' = FreshTask("none")
    /\ len' = FreshTask(0)
    /\ got' = FreshTask(NoAnswer)
    /\ err' = FreshTask("ok")
    /\ early' = FreshTask(FALSE)
    /\ UNCHANGED <<spaces, disk, call, calls>>

(* ESP_ERROR_CHECK *)
Abort == Restart /\ UNCHANGED <<refused, restarts>>

(* Task t fails and closes what it has opened. *)
Fail(t, e, l) == err' = [err EXCEPT ![t] = e] /\ Goto(t, l)

-----------------------------------------------------------------------------
(* Faulty variants of some steps, which the properties have to notice.     *)

(* A value is not committed before its handle is closed. *)
SetOnly(t) ==
    /\ pc[t] = "set"
    /\ store' = [store EXCEPT ![Key(t)] = call[t].val]
    /\ disk' \in {disk, [disk EXCEPT ![Key(t)] = call[t].val]}
    /\ Goto(t, "closeSet")
    /\ UNCHANGED <<spaces, lock, next, call, handle, len, got, err, early,
                   refused, calls, restarts>>

(* Whatever fails, the default is what has been read. *)
ReadOrDefault(t) ==
    /\ pc[t] = "read"
    /\ got' = [got EXCEPT ![t] = IF Grown(t) THEN Default[Key(t)]
                                             ELSE Seen(store, Key(t))]
    /\ Goto(t, "closeGet")
    /\ UNCHANGED <<flashVars, lock, next, call, handle, len, err, early,
                   refused, calls, restarts>>

(* A value that is not there is left with its handle open. *)
LengthReturns(t) ==
    /\ pc[t] = "length"
    /\ \/ /\ handle[t] = "garbage"
          /\ Fail(t, "handle", "closeGet")
          /\ UNCHANGED <<handle, len, got>>
       \/ /\ handle[t] = "open"
          /\ IF store[Key(t)] = Missing
             THEN /\ got' = [got EXCEPT ![t] = Default[Key(t)]]
                  /\ Goto(t, IF call[t].op = "get" THEN "idle" ELSE "closeGet")
                  /\ UNCHANGED len
             ELSE /\ len' = [len EXCEPT ![t] = Len(store[Key(t)])]
                  /\ Goto(t, "read")
                  /\ UNCHANGED got
          /\ UNCHANGED <<handle, err>>
    /\ UNCHANGED <<flashVars, lock, next, call, early, refused, calls, restarts>>

-----------------------------------------------------------------------------
(* A call begins. *)

(* Task t calls c; a filter is only saved with the mutex. *)
Begin(t, c) ==
    /\ pc[t] = "idle"
    /\ call' = [call EXCEPT ![t] = c]
    /\ early' = [early EXCEPT ![t] = SpaceOf(c.key) \notin spaces]
    /\ got' = [got EXCEPT ![t] = NoAnswer]
    /\ Goto(t, IF c.op = "save" /\ c.key \in Arrays THEN "lock" ELSE "openGet")
    /\ UNCHANGED <<flashVars, lock, handle, len, err, refused, restarts>>

BootCall ==
    /\ next <= Len(BootCalls)
    /\ LET c == BootCalls[next]
       IN  Begin("main", IF c = Save(c.key, NoAnswer) THEN Save(c.key, got["main"]) ELSE c)
    /\ next' = next + 1
    /\ UNCHANGED calls

(* A filter saved before there is a mutex aborts, see SnifferConfig. *)
UserCall(t) ==
    /\ calls < MaxCalls
    /\ calls' = calls + 1
    /\ \E c \in UserCalls[t] : (c.key \in Arrays => MutexCreated) /\ Begin(t, c)
    /\ UNCHANGED next

Lock(t) ==
    /\ pc[t] = "lock"
    /\ lock = "none"
    /\ lock' = t
    /\ Goto(t, "openGet")
    /\ UNCHANGED <<flashVars, next, call, handle, len, got, err, early, refused, calls, restarts>>

-----------------------------------------------------------------------------
(* nvs_get_num32i, nvs_get_string and nvs_get_array *)

(* To open for writing makes the namespace, if there is space for it.      *)
OpenForWriting(t, steps) ==
    \/ /\ handle' = [handle EXCEPT ![t] = "open"]
       /\ spaces' = spaces \cup {SpaceOf(Key(t))}
       /\ Goto(t, steps)
       /\ UNCHANGED <<store, disk, lock, next, call, len, got, err, early,
                      refused, calls, restarts>>

(* The number's default is used if that fails, and no caller looks at the  *)
(* error.                                                                  *)
OpenNumber(t) ==
    /\ pc[t] = "openGet" /\ Key(t) \in Numbers
    /\ \/ OpenForWriting(t, "read")
       \/ /\ SpaceOf(Key(t)) \notin spaces
          /\ refused' = TRUE
          /\ got' = [got EXCEPT ![t] = Default[Key(t)]]
          /\ Goto(t, "closeGet")
          /\ UNCHANGED <<flashVars, lock, next, call, handle, len, err, early, calls, restarts>>

(* To open for reading fails without the namespace.  nvs_get_array then    *)
(* uses the default, nvs_get_string goes on with what is in its handle.    *)
OpenToRead(t) ==
    /\ pc[t] = "openGet" /\ Key(t) \notin Numbers
    /\ \/ /\ SpaceOf(Key(t)) \in spaces
          /\ handle' = [handle EXCEPT ![t] = "open"]
          /\ Goto(t, "length")
          /\ UNCHANGED got
       \/ /\ SpaceOf(Key(t)) \notin spaces
          /\ IF Key(t) \in Arrays
             THEN Goto(t, "closeGet") /\ UNCHANGED handle
             ELSE Goto(t, "length") /\ handle' = [handle EXCEPT ![t] = "garbage"]
          /\ got' = [got EXCEPT ![t] = Default[Key(t)]]
    /\ UNCHANGED <<flashVars, lock, next, call, len, err, early, refused, calls, restarts>>

(* The first nvs_get_str or nvs_get_blob asks for the length. *)
ReadLength(t) ==
    /\ pc[t] = "length"
    /\ \/ /\ handle[t] = "garbage"
          /\ Fail(t, "handle", "closeGet")
          /\ UNCHANGED <<len, got>>
       \/ /\ handle[t] = "open"
          /\ IF store[Key(t)] = Missing
             THEN /\ got' = [got EXCEPT ![t] = Default[Key(t)]]
                  /\ Goto(t, "closeGet")
                  /\ UNCHANGED len
             ELSE /\ len' = [len EXCEPT ![t] = Len(store[Key(t)])]
                  /\ Goto(t, "read")
                  /\ UNCHANGED got
          /\ UNCHANGED err
    /\ UNCHANGED <<flashVars, lock, next, call, handle, early, refused, calls, restarts>>

(* The second one refuses a value that has become longer. *)
ReadValue(t) ==
    /\ pc[t] = "read"
    /\ \/ /\ Grown(t)
          /\ Fail(t, "length", "closeGet")
          /\ UNCHANGED got
       \/ /\ ~ Grown(t)
          /\ got' = [got EXCEPT ![t] = Seen(store, Key(t))]
          /\ Goto(t, "closeGet")
          /\ UNCHANGED err
    /\ UNCHANGED <<flashVars, lock, next, call, handle, len, early, refused, calls, restarts>>

(* nvs_close, and the caller: a failure aborts, a read returns, and so     *)
(* does a save of what has been read.                                      *)
CloseAfterGet(t) ==
    /\ pc[t] = "closeGet"
    /\ \/ err[t] # "ok" /\ Abort
       \/ /\ err[t] = "ok"
          /\ IF call[t].op = "get" \/ Alike(Key(t), call[t].val, got[t])
             THEN Goto(t, "idle") /\ lock' = IF lock = t THEN "none" ELSE lock
             ELSE Goto(t, "openSet") /\ UNCHANGED lock
          /\ handle' = [handle EXCEPT ![t] = "none"]
          /\ len' = [len EXCEPT ![t] = 0]
          /\ UNCHANGED <<flashVars, next, call, got, err, early, refused, calls, restarts>>

-----------------------------------------------------------------------------
(* nvs_set_num32i, nvs_set_string and nvs_set_array *)

OpenToWrite(t) ==
    /\ pc[t] = "openSet"
    /\ \/ OpenForWriting(t, "set")
       \/ SpaceOf(Key(t)) \notin spaces /\ Restart /\ refused' = TRUE /\ UNCHANGED restarts

(* The NVS library may write the value before it is committed, and may     *)
(* find no space for it.                                                   *)
SetValue(t) ==
    /\ pc[t] = "set"
    /\ \/ /\ store' = [store EXCEPT ![Key(t)] = call[t].val]
          /\ disk' \in {disk, [disk EXCEPT ![Key(t)] = call[t].val]}
          /\ Goto(t, "commit")
          /\ UNCHANGED <<spaces, lock, next, call, handle, len, got, err, early,
                         refused, calls, restarts>>
       \/ Restart /\ refused' = TRUE /\ UNCHANGED restarts

Commit(t) ==
    /\ pc[t] = "commit"
    /\ disk' = [disk EXCEPT ![Key(t)] = store[Key(t)]]
    /\ Goto(t, "closeSet")
    /\ UNCHANGED <<spaces, store, lock, next, call, handle, len, got, err, early,
                   refused, calls, restarts>>

CloseAfterSet(t) ==
    /\ pc[t] = "closeSet"
    /\ handle' = [handle EXCEPT ![t] = "none"]
    /\ lock' = IF lock = t THEN "none" ELSE lock
    /\ Goto(t, "idle")
    /\ UNCHANGED <<flashVars, next, call, len, got, err, early, refused, calls, restarts>>

Call(t) ==
    \/ Lock(t)
    \/ OpenNumber(t)
    \/ OpenToRead(t)
    \/ ReadLength(t)
    \/ ReadValue(t)
    \/ CloseAfterGet(t)
    \/ OpenToWrite(t)
    \/ SetValue(t)
    \/ Commit(t)
    \/ CloseAfterSet(t)

PowerLoss ==
    /\ restarts < MaxRestarts
    /\ restarts' = restarts + 1
    /\ Restart
    /\ UNCHANGED refused

Next ==
    \/ BootCall
    \/ \E t \in Users : UserCall(t)
    \/ \E t \in Tasks : Call(t)
    \/ PowerLoss

Spec == Init /\ [][Next]_vars

-----------------------------------------------------------------------------
(* Properties *)

(* The type invariant. *)
TypeOK ==
    /\ spaces \subseteq {"wifi", "sniffer"}
    /\ store \in [Keys -> Values \cup {Missing}]
    /\ disk \in [Keys -> Values \cup {Missing}]
    /\ lock \in Tasks \cup {"none"}
    /\ next \in 1 .. Len(BootCalls) + 1
    /\ call \in [Tasks -> Calls]
    /\ pc \in [Tasks -> Steps]
    /\ handle \in [Tasks -> {"none", "open", "garbage"}]
    /\ len \in [Tasks -> Nat]
    /\ got \in [Tasks -> Values \cup {NoAnswer}]
    /\ err \in [Tasks -> {"ok", "handle", "length"}]
    /\ early \in [Tasks -> BOOLEAN]
    /\ refused \in BOOLEAN
    /\ calls \in 0 .. MaxCalls
    /\ restarts \in 0 .. MaxRestarts

(* A value that others can see and that nobody is about to commit is on    *)
(* flash: a setting does not change back when the power fails, although    *)
(* several tasks set the same key, and one may be told that its value is   *)
(* there already (nvs_lib.c:123-134, 423-434, 450-466).                    *)
Committed ==
    \A k \in Keys :
        (\A t \in Tasks : pc[t] = "commit" => Key(t) # k) => disk[k] = store[k]

(* Whichever way a call ends, it leaves no handle open                     *)
(* (nvs_lib.c:133, 162, 433, 465, 511, 551).                               *)
HandlesClosed == \A t \in Tasks : pc[t] \in {"idle", "openSet"} => handle[t] = "none"

(* A read fails, which aborts, in two cases only.  One is a name read by a *)
(* command so early in the very first boot that no namespace was there;    *)
(* the main task itself reads a number first, which makes the namespace    *)
(* unless the flash is full.  The other is a value that becomes longer     *)
(* between the two calls that read it: the mutex keeps that from a save of *)
(* a filter, but not from the main task restoring one, nor from a name     *)
(* (nvs_lib.c:473-509, 520-549, main.c:110, wifi_sniffer.c:81, 531).       *)
FailuresExplained ==
    \A t \in Tasks :
        /\ err[t] = "handle" => early[t] /\ (t = "main" => refused)
        /\ err[t] = "length" => Key(t) \in Texts \/ (t = "main" /\ call[t].op = "get")

(* Where a call stands for its caller. *)
StageOf(t) ==
    CASE pc[t] = "idle" -> "idle"
      [] pc[t] = "commit" -> "written"
      [] pc[t] = "closeSet" -> "done"
      [] pc[t] = "closeGet" /\ err[t] = "ok"
            /\ (call[t].op = "get" \/ Alike(Key(t), call[t].val, got[t])) -> "done"
      [] OTHER -> "asked"

AnswerOf(t) ==
    IF StageOf(t) = "done" /\ call[t].op = "get" THEN got[t] ELSE NoAnswer

KV == INSTANCE KeyValue WITH
    Values <- Values \cup {NoAnswer},
    stage  <- [t \in Tasks |-> StageOf(t)],
    answer <- [t \in Tasks |-> AnswerOf(t)]

(* The calls of nvs_lib that a setting takes look to the tasks like one    *)
(* atomic read or save, whatever other tasks do meanwhile and whenever the *)
(* power fails: no read mixes two values or ends in the default when there *)
(* is a value (nvs_lib.c:137-164, 468-553, wifi_sniffer_nvs.c:17-56,       *)
(* wifi_lib_nvs.c:22-86).                                                  *)
KeyValueSpec == KV!KVSpec
=============================================================================
