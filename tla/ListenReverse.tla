---------------------------- MODULE ListenReverse ----------------------------
(***************************************************************************)
(* listen_reverse of adb_proxy.py: an SSH listener whose acceptor runs one *)
(* connect() task per connection, perhaps with a port of the router mapped *)
(* to it, and a finally that cancels the tasks it finds and gathers them.  *)
(* A step is what a task of the event loop does between two awaits.        *)
(***************************************************************************)
EXTENDS PortMapping

CONSTANTS
    Conns,         \* the reverse connections
    ListenerWaits  \* does a listener that closes wait for its connections to
                   \* end?  asyncio.Server does from Python 3.12.1 on

ASSUME ListenerAssumption == ListenerWaits \in BOOLEAN

VARIABLES
    main,         \* listen_reverse: serves (the listener is open: the port is
                  \* mapped, waited for, unmapped), closes (leaves `async with
                  \* server'), gathers, ended
    handler,      \* on_connected of each connection; "incoming": its SSH
                  \* handshake is under way
    task,         \* its connect_task; "cancelled": the CancelledError is in it
    connections,  \* the set connections
    gathered,     \* the tasks given to gather()
    late          \* history: connections accepted after the finally had begun

tasks == <<handler, task, connections, late>>

vars == <<main, gathered, tasks, mapVars>>

Ended == {"returned", "raised", "wasCancelled"}

TypeOK ==
    /\ MapType
    /\ main \in {"serves", "closes", "gathers", "ended"}
    /\ handler \in [Conns -> {"none", "incoming", "awaits", "done"}]
    /\ task \in [Conns -> {"none", "running", "cancelled"} \cup Ended]
    /\ connections \subseteq Conns
    /\ gathered \subseteq Conns
    /\ late \subseteq Conns

Init ==
    /\ MapInit
    /\ main = "serves"
    /\ handler = [c \in Conns |-> "none"]
    /\ task = [c \in Conns |-> "none"]
    /\ connections = {}
    /\ gathered = {}
    /\ late = {}

-----------------------------------------------------------------------------
(* A peer connects while the listener is open; its handshake may last      *)
(* longer than the listener.                                               *)
Incoming(c) ==
    /\ main = "serves"
    /\ handler[c] = "none"
    /\ handler' = [handler EXCEPT ![c] = "incoming"]
    /\ UNCHANGED <<main, gathered, task, connections, late, mapVars>>

(* Mutants: the task is not put into the set; the state of the handler is. *)
AddedNothing(c) == connections

AddedState(c) == connections \cup {handler[c]}

AddedTask(c) == connections \cup {c}

(* on_connected up to `await task'.                                        *)
Accept(c) ==
    /\ handler[c] = "incoming"
    /\ handler' = [handler EXCEPT ![c] = "awaits"]
    /\ task' = [task EXCEPT ![c] = "running"]
    /\ connections' = AddedTask(c)
    /\ late' = IF main \in {"gathers", "ended"} THEN late \cup {c} ELSE late
    /\ UNCHANGED <<main, gathered, mapVars>>

(* connect() returns or raises; once cancelled, after its own cleanup.     *)
TaskEnds(c) ==
    /\ \E e \in Ended :
        /\ \/ task[c] = "running" /\ e # "wasCancelled"
           \/ task[c] = "cancelled" /\ e # "returned"
        /\ task' = [task EXCEPT ![c] = e]
    /\ UNCHANGED <<main, gathered, handler, connections, late, mapVars>>

(* on_connected after `await task', whatever the task's end.               *)
HandlerResumes(c) ==
    /\ handler[c] = "awaits"
    /\ task[c] \in Ended
    /\ handler' = [handler EXCEPT ![c] = "done"]
    /\ connections' = connections \ {c}
    /\ UNCHANGED <<main, gathered, task, late, mapVars>>

-----------------------------------------------------------------------------
(* The body of `async with server': with UPnP it is the context of         *)
(* map_port, and when that is left, or could not be entered, the listener  *)
(* is closed.                                                              *)
Maps ==
    /\ MapGoesOn
    /\ main' = IF map' = "over" THEN "closes" ELSE main
    /\ UNCHANGED <<gathered, tasks>>

(* wait_until_complete ends, or listen_reverse is cancelled.               *)
Stops ==
    /\ main = "serves"
    /\ \/ map = "off" /\ main' = "closes" /\ UNCHANGED mapVars
       \/ /\ Leaves
          /\ main' = IF map' = "over" THEN "closes" ELSE main
    /\ UNCHANGED <<gathered, tasks>>

RouterChanges ==
    /\ \E p \in Ports : OtherAdds(p)
    /\ UNCHANGED <<main, gathered, tasks>>

(* Mutant: the tasks are gathered and not cancelled.                       *)
CancelsNone(c) == task[c]

Cancels(c) == IF c \in connections /\ task[c] = "running" THEN "cancelled" ELSE task[c]

(* The listener has closed; the finally, up to `await gather(...)'.        *)
Finally ==
    /\ main = "closes"
    /\ ListenerWaits => \A c \in Conns : handler[c] \in {"none", "done"}
    /\ task' = [c \in Conns |-> Cancels(c)]
    /\ gathered' = connections
    /\ main' = IF connections = {} THEN "ended" ELSE "gathers"
    /\ UNCHANGED <<handler, connections, late, mapVars>>

(* gather() returns when every task has returned.  Without                 *)
(* return_exceptions the first exception, also a CancelledError, ends it;  *)
(* the other tasks are left to themselves.                                 *)
GatherEnds ==
    /\ main = "gathers"
    /\ \/ \A c \in gathered : task[c] = "returned"
       \/ \E c \in gathered : task[c] \in {"raised", "wasCancelled"}
    /\ main' = "ended"
    /\ UNCHANGED <<gathered, tasks, mapVars>>

Next ==
    \/ Maps \/ Stops \/ RouterChanges \/ Finally \/ GatherEnds
    \/ \E c \in Conns : Incoming(c) \/ Accept(c) \/ TaskEnds(c) \/ HandlerResumes(c)

Spec == Init /\ [][Next]_vars

(* The event loop runs its tasks; a cancelled connect() ends, a running    *)
(* one need not; a call of the router is answered or fails.                *)
FairSpec ==
    /\ Spec
    /\ WF_vars(Maps) /\ WF_vars(Finally) /\ WF_vars(GatherEnds)
    /\ \A c \in Conns : /\ WF_vars(HandlerResumes(c))
                        /\ WF_vars(task[c] = "cancelled" /\ TaskEnds(c))

-----------------------------------------------------------------------------
(* Properties.                                                             *)

(* A mapping to us exists only as long as there is a listener behind it,   *)
(* however the wait ended, unless a call for it failed (upnp.py:114-124,   *)
(* adb_proxy.py:558-616).                                                  *)
MappedIsListening ==
    main # "serves" => \A p \in Ports : router[p] = "ours" => p \in doubt

(* The finally misses no connect(): one that still runs and was not told   *)
(* to end belongs to a connection that was accepted after the finally had  *)
(* begun, its handshake having outlasted the listener; whenever the others *)
(* came, ended or were being awaited, they were in the set                 *)
(* (adb_proxy.py:536-555, 618-621).                                        *)
OnlyLateRun ==
    main \in {"gathers", "ended"} =>
        \A c \in Conns : task[c] = "running" => c \in late

(* As the comment of adb_proxy.py:619 has it, "Finish any pending          *)
(* connections": none that was gathered outlives listen_reverse.           *)
PendingFinished ==
    main = "ended" => \A c \in gathered : task[c] \in Ended

(* Once it leaves the mapping or closes the listener, listen_reverse ends, *)
(* and what it gathered ends too (adb_proxy.py:558-622).                   *)
StopEnds ==
    main = "closes" \/ map = "removes"
        ~> main = "ended" /\ \A c \in gathered : handler[c] = "done"
=============================================================================
