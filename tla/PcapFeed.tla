------------------------------ MODULE PcapFeed ------------------------------
(***************************************************************************)
(* What the sniffer promises to the clients of its TCP port, one client at *)
(* a time: each connection carries one pcap stream.  A stream opens with   *)
(* the file header, then carries captured records in the order in which    *)
(* they were captured; inside one stream a record is missing only if the   *)
(* packet queue overran; no record goes to two clients; a stream may break *)
(* off in the middle of an item, and then it has ended.                    *)
(*                                                                         *)
(* Connections are numbered in the order in which they are accepted,       *)
(* records in the order in which they are captured.                        *)
(***************************************************************************)
EXTENDS Integers, Sequences

CONSTANTS Conns,   \* the connections, a set of naturals
          MaxRecs  \* bound on the number of records captured

VARIABLES captured,  \* number of records captured so far
          overrun,   \* the records thrown away because the queue was full
          stream     \* what each connection has been sent

feedVars == <<captured, overrun, stream>>

Hdr  == 0    \* the pcap file header
Frag == -1   \* the first bytes of an item whose rest was never sent

Contents(s) == {s[i] : i \in DOMAIN s}

(* The stream broke off. *)
Ended(s) == s # <<>> /\ s[Len(s)] = Frag

FeedInit ==
    /\ captured = 0
    /\ overrun = {}
    /\ stream = [c \in Conns |-> <<>>]

Capture ==
    /\ captured < MaxRecs
    /\ captured' = captured + 1
    /\ UNCHANGED <<overrun, stream>>

(* The queue is full when the newest record arrives. *)
Overrun ==
    /\ captured > 0
    /\ \A c \in Conns : captured \notin Contents(stream[c])
    /\ overrun' = overrun \cup {captured}
    /\ UNCHANGED <<captured, stream>>

(* A later connection has taken over as soon as it has received anything. *)
Newest(c) == \A d \in Conns : d > c => stream[d] = <<>>

Open(c) ==
    /\ Newest(c)
    /\ stream[c] = <<>>
    /\ stream' = [stream EXCEPT ![c] = <<Hdr>>]
    /\ UNCHANGED <<captured, overrun>>

(* r follows the last record of s with nothing lost but overruns. *)
Continues(s, r) ==
    \A q \in Contents(s) : \/ q = Hdr
                           \/ \A m \in q + 1 .. r - 1 : m \in Contents(s) \cup overrun

Deliver(c, r) ==
    /\ Newest(c)
    /\ stream[c] # <<>>
    /\ ~ Ended(stream[c])
    /\ r \notin overrun
    /\ \A d \in Conns : \A q \in Contents(stream[d]) : q < r
    /\ Continues(stream[c], r)
    /\ stream' = [stream EXCEPT ![c] = Append(@, r)]
    /\ UNCHANGED <<captured, overrun>>

(* The connection breaks in the middle of an item. *)
BreakOff(c) ==
    /\ Newest(c)
    /\ ~ Ended(stream[c])
    /\ stream' = [stream EXCEPT ![c] = Append(@, Frag)]
    /\ UNCHANGED <<captured, overrun>>

FeedNext ==
    \/ Capture
    \/ Overrun
    \/ \E c \in Conns : \/ Open(c)
                        \/ \E r \in 1 .. captured : Deliver(c, r)
                        \/ BreakOff(c)

FeedSpec == FeedInit /\ [][FeedNext]_feedVars
=============================================================================
