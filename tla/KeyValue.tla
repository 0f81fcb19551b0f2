------------------------------ MODULE KeyValue -------------------------------
(***************************************************************************)
(* What nvs_lib and its callers promise to the tasks of the firmware: a    *)
(* store in which a task reads the value of a key, or saves one.  A read   *)
(* gives a value the key had at one moment of the call.  When a save is    *)
(* done its value is on flash; one under way when the power fails or the   *)
(* device aborts has happened or not.                                      *)
(***************************************************************************)

CONSTANTS Tasks,
          Keys,
          Values,
          Default,    \* of each key, what is read while there is no value
          Missing,    \* no value
          NoAnswer,   \* nothing has been read
          Alike(_, _, _)  \* the values of a key over which another is not saved

VARIABLES store,   \* the value of each key
          disk,    \* what is left of it after a loss of power
          call,    \* what each task asks for
          stage,   \* how far that is
          answer   \* the value it has read

kvVars == <<store, disk, call, stage, answer>>

(* What a reader of key k sees in s. *)
Seen(s, k) == IF s[k] = Missing THEN Default[k] ELSE s[k]

KVInit ==
    /\ disk = store
    /\ stage = [t \in Tasks |-> "idle"]
    /\ answer = [t \in Tasks |-> NoAnswer]

Ask(t) ==
    /\ stage[t] = "idle"
    /\ stage' = [stage EXCEPT ![t] = "asked"]
    /\ \E c \in [op : {"get", "save"}, key : Keys, val : Values] :
         call' = [call EXCEPT ![t] = c]
    /\ UNCHANGED <<store, disk, answer>>

Read(t) ==
    /\ stage[t] = "asked"
    /\ call[t].op = "get"
    /\ stage' = [stage EXCEPT ![t] = "done"]
    /\ answer' = [answer EXCEPT ![t] = Seen(store, call[t].key)]
    /\ UNCHANGED <<store, disk, call>>

(* The key has that value, or one that passes for it. *)
Leave(t) ==
    /\ stage[t] = "asked"
    /\ call[t].op = "save"
    /\ Alike(call[t].key, call[t].val, Seen(store, call[t].key))
    /\ stage' = [stage EXCEPT ![t] = "done"]
    /\ UNCHANGED <<store, disk, call, answer>>

(* From here on others see the value, which may be on flash or not. *)
Write(t) ==
    /\ stage[t] = "asked"
    /\ call[t].op = "save"
    /\ stage' = [stage EXCEPT ![t] = "written"]
    /\ store' = [store EXCEPT ![call[t].key] = call[t].val]
    /\ disk' \in {disk, [disk EXCEPT ![call[t].key] = call[t].val]}
    /\ UNCHANGED <<call, answer>>

Persist(t) ==
    /\ stage[t] = "written"
    /\ stage' = [stage EXCEPT ![t] = "done"]
    /\ disk' = [disk EXCEPT ![call[t].key] = store[call[t].key]]
    /\ UNCHANGED <<store, call, answer>>

Return(t) ==
    /\ stage[t] = "done"
    /\ stage' = [stage EXCEPT ![t] = "idle"]
    /\ answer' = [answer EXCEPT ![t] = NoAnswer]
    /\ UNCHANGED <<store, disk, call>>

Restart ==
    /\ store' = disk
    /\ stage' = [t \in Tasks |-> "idle"]
    /\ answer' = [t \in Tasks |-> NoAnswer]
    /\ UNCHANGED <<disk, call>>

KVNext ==
    \/ \E t \in Tasks : \/ Ask(t) \/ Read(t) \/ Leave(t)
                        \/ Write(t) \/ Persist(t) \/ Return(t)
    \/ Restart

KVSpec == KVInit /\ [][KVNext]_kvVars
=============================================================================
