---------------------------- MODULE StreamService ----------------------------
(***************************************************************************)
(* What adbproxy promises to a client of the ADB server, whatever commands *)
(* and tasks it takes: a stream opens once and closes once; towards the    *)
(* device writes arrive in order, each once, and are acknowledged one at a *)
(* time, when they have arrived or when the stream is over; towards the    *)
(* client the proxy sends one payload at a time.                           *)
(***************************************************************************)
EXTENDS Naturals

CONSTANT Ids  \* the streams, named by their local ids

VARIABLES
    state,   \* of each stream
    sent,    \* writes of the client
    got,     \* the last of them that was handed to the device
    acked,   \* of them, acknowledged
    unread   \* payloads on their way to the client, or in its hands

vars == <<state, sent, got, acked, unread>>

Init ==
    /\ state = [l \in Ids |-> "new"]
    /\ sent = [l \in Ids |-> 0]
    /\ got = [l \in Ids |-> 0]
    /\ acked = [l \in Ids |-> 0]
    /\ unread = [l \in Ids |-> 0]

Opens(l) ==
    /\ state[l] = "new"
    /\ state' = [state EXCEPT ![l] = "open"]
    /\ UNCHANGED <<sent, got, acked, unread>>

(* An open stream is closed, or a new one refused.                         *)
Closes(l) ==
    /\ state[l] # "over"
    /\ state' = [state EXCEPT ![l] = "over"]
    /\ UNCHANGED <<sent, got, acked, unread>>

(* The client may not know yet that the stream is over.                    *)
ClientWrites(l) ==
    /\ state[l] # "new"
    /\ sent[l] = acked[l]
    /\ sent' = [sent EXCEPT ![l] = @ + 1]
    /\ UNCHANGED <<state, got, acked, unread>>

(* Nothing is handed over twice, early or to a stream that is over; the    *)
(* write may turn out to be the last one.                                  *)
Delivers(l) ==
    /\ state[l] = "open"
    /\ got[l] < sent[l]
    /\ got' = [got EXCEPT ![l] = @ + 1]
    /\ state' \in {state, [state EXCEPT ![l] = "over"]}
    /\ UNCHANGED <<sent, acked, unread>>

Acknowledges(l) ==
    /\ acked[l] < sent[l]
    /\ got[l] = sent[l] \/ state[l] = "over"
    /\ acked' = [acked EXCEPT ![l] = sent[l]]
    /\ UNCHANGED <<state, sent, got, unread>>

DeviceSends(l) ==
    /\ state[l] = "open"
    /\ unread[l] = 0
    /\ unread' = [unread EXCEPT ![l] = 1]
    /\ UNCHANGED <<state, sent, got, acked>>

(* The client has read what it was sent, is gone, or the connection is.    *)
Vanish ==
    /\ \E S \in SUBSET Ids : unread' = [l \in Ids |-> IF l \in S THEN 0 ELSE unread[l]]
    /\ UNCHANGED <<state, sent, got, acked>>

Next ==
    \/ Vanish
    \/ \E l \in Ids : \/ Opens(l) \/ Closes(l) \/ ClientWrites(l) \/ Delivers(l)
                      \/ Acknowledges(l) \/ DeviceSends(l)

Spec == Init /\ [][Next]_vars
=============================================================================
