--------------------------- MODULE ReverseTunnels ---------------------------
(***************************************************************************)
(* Reverse tunnels: reverse_create, reverse_remove and reverse_remove_all  *)
(* of class AdbProxy, each the open_channel task of one request, and the   *)
(* dict reverse_listeners they share.  A request asks the device over a    *)
(* connection of its own, so the device may handle requests, and their     *)
(* replies may arrive, in any order.                                       *)
(***************************************************************************)
EXTENDS Naturals

CONSTANTS
    MaxRequests,  \* bound: number of requests
    Remotes,      \* what a tunnel can listen to on the device
    AnyPort       \* "tcp:0": the device chooses

ASSUME TunnelsAssumption == MaxRequests \in Nat /\ AnyPort \notin Remotes

Requests == 1 .. MaxRequests

None == 0  \* no listener; a listener is named by the request that made it

VARIABLES
    req,                \* the task of each request
    listener,           \* the listener that reverse_create opened
    reverse_listeners,  \* AdbProxy.reverse_listeners
    fwd,                \* the forwards of the device: remote to listener
    unsure,             \* history: remotes of which the device may think otherwise
    up                  \* go() has not reached its finally

vars == <<req, listener, reverse_listeners, fwd, unsure, up>>

(*   st      idle, opened (go() has made the task), listen (awaits         *)
(*           listen()), asked (the device has the command), handled (its   *)
(*           reply is on its way), done, or raised                         *)
(*   ok      the reply begins with OKAY                                    *)
Tasks == [st : {"idle", "opened", "listen", "asked", "handled", "done", "raised"},
          op : {"create", "remove", "removeAll"},
          remote : Remotes \cup {AnyPort}, ok : BOOLEAN]

TypeOK ==
    /\ req \in [Requests -> Tasks]
    /\ listener \in [Requests -> {"none", "open", "closed"}]
    /\ reverse_listeners \in [Remotes -> Requests \cup {None}]
    /\ fwd \in [Remotes -> Requests \cup {None}]
    /\ unsure \subseteq Remotes
    /\ up \in BOOLEAN

Init ==
    /\ req = [q \in Requests |-> [st |-> "idle", op |-> "create",
                                  remote |-> AnyPort, ok |-> FALSE]]
    /\ listener = [q \in Requests |-> "none"]
    /\ reverse_listeners = [r \in Remotes |-> None]
    /\ fwd = [r \in Remotes |-> None]
    /\ unsure = {}
    /\ up = TRUE

Active(q) == req[q].st \in {"listen", "asked", "handled"}

Overlaps(q, r) == \E p \in Requests \ {q} : Active(p) /\ req[p].remote = r

(* The remotes that come in doubt when request q takes up r.               *)
Doubt(q, r) == IF Overlaps(q, r) THEN {r} ELSE {}

Close(q) == [listener EXCEPT ![q] = "closed"]

-----------------------------------------------------------------------------
(* go() reads an OPEN and makes a task of open_channel.                    *)
Opens(q) ==
    /\ up
    /\ req[q].st = "idle"
    /\ req' = [req EXCEPT ![q].st = "opened"]
    /\ UNCHANGED <<listener, reverse_listeners, fwd, unsure, up>>

(* The tasks up to the first await; go() may have reached its finally.     *)

StartCreate(q, r) ==
    /\ req[q].st = "opened"
    /\ req' = [req EXCEPT ![q] = [@ EXCEPT !.st = "listen", !.op = "create", !.remote = r]]
    /\ unsure' = unsure \cup IF r = AnyPort THEN {} ELSE Doubt(q, r)
    /\ UNCHANGED <<listener, reverse_listeners, fwd, up>>

StartRemove(q, r) ==
    /\ req[q].st = "opened"
    /\ req' = [req EXCEPT ![q] = [@ EXCEPT !.st = "asked", !.op = "remove", !.remote = r]]
    /\ unsure' = unsure \cup Doubt(q, r)
    /\ UNCHANGED <<listener, reverse_listeners, fwd, up>>

Registered == {reverse_listeners[r] : r \in Remotes} \ {None}

CloseRegistered ==
    [q \in Requests |-> IF q \in Registered THEN "closed" ELSE listener[q]]

(* Mutant: the dict is not cleared.                                        *)
NotCleared == reverse_listeners

Cleared == [r \in Remotes |-> None]

(* reverse_remove_all closes every listener and does not ask the device.   *)
RemoveAll(q) ==
    /\ req[q].st = "opened"
    /\ req' = [req EXCEPT ![q] = [@ EXCEPT !.st = "done", !.op = "removeAll"]]
    /\ listener' = CloseRegistered
    /\ reverse_listeners' = Cleared
    /\ unsure' = unsure \cup {r \in Remotes : reverse_listeners[r] # None}
    /\ UNCHANGED <<fwd, up>>

-----------------------------------------------------------------------------
(* listen() returns or raises.                                             *)
Listens(q) ==
    /\ req[q].st = "listen"
    /\ req' = [req EXCEPT ![q].st = "asked"]
    /\ listener' = [listener EXCEPT ![q] = "open"]
    /\ UNCHANGED <<reverse_listeners, fwd, unsure, up>>

ListenRaises(q) ==
    /\ req[q].st = "listen"
    /\ req' = [req EXCEPT ![q].st = "raised"]
    /\ UNCHANGED <<listener, reverse_listeners, fwd, unsure, up>>

(* The device carries out the command, or answers FAIL.                    *)
DeviceForwards(q) ==
    /\ req[q].st = "asked"
    /\ req[q].op = "create"
    /\ \E r \in Remotes :
        /\ IF req[q].remote = AnyPort THEN fwd[r] = None ELSE r = req[q].remote
        /\ req' = [req EXCEPT ![q] = [@ EXCEPT !.st = "handled", !.remote = r, !.ok = TRUE]]
        /\ fwd' = [fwd EXCEPT ![r] = q]
        /\ unsure' = unsure \cup Doubt(q, r)
    /\ UNCHANGED <<listener, reverse_listeners, up>>

DeviceUnforwards(q) ==
    /\ req[q].st = "asked"
    /\ req[q].op = "remove"
    /\ fwd[req[q].remote] # None
    /\ req' = [req EXCEPT ![q] = [@ EXCEPT !.st = "handled", !.ok = TRUE]]
    /\ fwd' = [fwd EXCEPT ![req[q].remote] = None]
    /\ UNCHANGED <<listener, reverse_listeners, unsure, up>>

DeviceFails(q) ==
    /\ req[q].st = "asked"
    /\ req[q].op = "remove" => fwd[req[q].remote] = None
    /\ req' = [req EXCEPT ![q] = [@ EXCEPT !.st = "handled", !.ok = FALSE]]
    /\ UNCHANGED <<listener, reverse_listeners, fwd, unsure, up>>

(* read_stream() raises: before or after the device has done its part.     *)
ReadRaises(q) ==
    /\ req[q].st \in {"asked", "handled"}
    /\ req' = [req EXCEPT ![q].st = "raised"]
    /\ unsure' = unsure \cup ({req[q].remote} \ {AnyPort})
    /\ UNCHANGED <<listener, reverse_listeners, fwd, up>>

-----------------------------------------------------------------------------
(* The reply arrives.                                                      *)
Reply(q, op, ok) ==
    /\ req[q].st = "handled"
    /\ req[q].op = op
    /\ req[q].ok = ok
    /\ req' = [req EXCEPT ![q].st = "done"]

(* The listener under remote r is closed.  (Mutant: it is not.)            *)
OldKept(r) == listener

OldClosed(r) ==
    LET old == reverse_listeners[r] IN IF old # None THEN Close(old) ELSE listener

(* Mutant: the dict gets the remote in place of the listener.              *)
RemoteStored(r, q) == [reverse_listeners EXCEPT ![r] = r]

Stored(r, q) == [reverse_listeners EXCEPT ![r] = q]

Created(q) ==
    /\ Reply(q, "create", TRUE)
    /\ reverse_listeners' = Stored(req[q].remote, q)
    /\ listener' = OldClosed(req[q].remote)
    /\ UNCHANGED <<fwd, unsure, up>>

NotCreated(q) ==
    /\ Reply(q, "create", FALSE)
    /\ listener' = Close(q)
    /\ UNCHANGED <<reverse_listeners, fwd, unsure, up>>

(* Mutant: the entry is read and not popped.                               *)
NotPopped(r) == reverse_listeners

Popped(r) == [reverse_listeners EXCEPT ![r] = None]

Removed(q) ==
    /\ Reply(q, "remove", TRUE)
    /\ reverse_listeners' = Popped(req[q].remote)
    /\ listener' = OldClosed(req[q].remote)
    /\ UNCHANGED <<fwd, unsure, up>>

NotRemoved(q) ==
    /\ Reply(q, "remove", FALSE)
    /\ UNCHANGED <<listener, reverse_listeners, fwd, unsure, up>>

(* The finally of go() closes the listeners; the dict stays as it is, and  *)
(* requests that are under way go on.                                      *)
GoFinally ==
    /\ up
    /\ up' = FALSE
    /\ listener' = CloseRegistered
    /\ UNCHANGED <<req, reverse_listeners, fwd, unsure>>

Next ==
    \/ GoFinally
    \/ \E q \in Requests :
        \/ \E r \in Remotes : StartCreate(q, r) \/ StartRemove(q, r)
        \/ StartCreate(q, AnyPort) \/ RemoveAll(q) \/ Opens(q)
        \/ Listens(q) \/ ListenRaises(q) \/ ReadRaises(q)
        \/ DeviceForwards(q) \/ DeviceUnforwards(q) \/ DeviceFails(q)
        \/ Created(q) \/ NotCreated(q) \/ Removed(q) \/ NotRemoved(q)

Spec == Init /\ [][Next]_vars

-----------------------------------------------------------------------------
(* Properties.                                                             *)

(* Whatever the order of the replies: a listener that is open belongs to a *)
(* request under way or is registered under one remote, unless read_stream *)
(* raised in its reverse_create, which leaves it open for good             *)
(* (adb_proxy.py:207-228).                                                 *)
OpenListenerOwned ==
    \A q \in Requests : listener[q] = "open" =>
        \/ Active(q)
        \/ req[q].st = "raised"
        \/ \E r \in Remotes : reverse_listeners[r] = q

(* A registered listener is open as long as go() runs, and under a single  *)
(* remote: no request closes what another one has registered.              *)
RegisteredOpen ==
    /\ up => \A q \in Registered : listener[q] = "open"
    /\ \A r, s \in Remotes :
          reverse_listeners[r] = reverse_listeners[s] /\ reverse_listeners[r] # None
              => r = s

(* The proxy and the device agree on a remote when no request for it is    *)
(* under way, unless two overlapped on it, one raised, or killforward-all  *)
(* was used, of which the device is not told (adb_proxy.py:234-256).       *)
AgreesWithDevice ==
    \A r \in Remotes :
        (up /\ r \notin unsure /\ ~Overlaps(0, r)) => reverse_listeners[r] = fwd[r]
=============================================================================
