------------------------------- MODULE Attach -------------------------------
(***************************************************************************)
(* attach_raw of class AdbProxy: choose the device, listen, have the ADB   *)
(* server connect to the listener, wait for the first of three tasks to    *)
(* end, stop the others, have the ADB server disconnect.  A step is what a *)
(* task of the event loop does between two awaits.                         *)
(***************************************************************************)
EXTENDS Naturals

CONSTANTS
    MaxConns,  \* bound: connections the ADB server makes to the listener
    HasCmd     \* is there a wait_for?

ASSUME AttachAssumption == MaxConns \in Nat /\ HasCmd \in BOOLEAN

Conns == 1 .. MaxConns

VARIABLES
    at,          \* where attach_raw is
    outcome,     \* none, returned, raised or cancelled
    server,      \* the listener: none, open or closed
    sock,        \* each connection: none, accepted (on_connected is to run), taken
    proxy,       \* the task of AdbProxy.go() of each connection
    proxy_task,  \* the connection in proxy_task[0], 0 for None
    waited,      \* the connection whose proxy is in wait_tasks, 0 if not waiting
    alive,       \* the task check_device_alive
    cmd,         \* the task wait_for
    adb          \* the address in the ADB server's list: none, asked (host:connect
                 \* was sent), listed, removed, unsure (host:disconnect raised)

vars == <<at, outcome, server, sock, proxy, proxy_task,
          waited, alive, cmd, adb>>

tasks == <<proxy, alive, cmd>>

TaskStates == {"none", "running", "cancelled", "ended"}

(* Variables that name a connection name one whose proxy is a task.        *)
TypeOK ==
    /\ at \in {"prepare", "listen", "connect", "wait", "gather", "disconnect", "over"}
    /\ outcome \in {"none", "returned", "raised", "cancelled"}
    /\ server \in {"none", "open", "closed"}
    /\ sock \in [Conns -> {"none", "accepted", "taken"}]
    /\ proxy \in [Conns -> TaskStates]
    /\ proxy_task \in {0} \cup Conns
    /\ waited \in {0} \cup Conns
    /\ \A c \in {proxy_task, waited} \ {0} : proxy[c] # "none"
    /\ alive \in TaskStates
    /\ cmd \in TaskStates
    /\ adb \in {"none", "asked", "listed", "removed", "unsure"}

Init ==
    /\ at = "prepare"
    /\ outcome = "none"
    /\ server = "none"
    /\ sock = [c \in Conns |-> "none"]
    /\ proxy = [c \in Conns |-> "none"]
    /\ proxy_task = 0
    /\ waited = 0
    /\ alive = "none"
    /\ cmd = "none"
    /\ adb = "none"

-----------------------------------------------------------------------------
(* Before there is anything to clean up.                                   *)

(* devices() answers, the device is there, and the three getprop answer.   *)
Prepared ==
    /\ at = "prepare"
    /\ at' = "listen"
    /\ UNCHANGED <<outcome, server, sock, tasks, proxy_task, waited, adb>>

(* listen() returns; host:connect is sent to the ADB server.               *)
Listens ==
    /\ at = "listen"
    /\ at' = "connect"
    /\ server' = "open"
    /\ adb' = "asked"
    /\ UNCHANGED <<outcome, sock, tasks, proxy_task, waited>>

(* No device, several of them, a getprop or listen() raises, or attach_raw  *)
(* is cancelled.                                                           *)
EarlyEnd(how) ==
    /\ at \in {"prepare", "listen"}
    /\ at' = "over"
    /\ outcome' = how
    /\ UNCHANGED <<server, sock, tasks, proxy_task, waited, adb>>

-----------------------------------------------------------------------------
(* The listener.                                                           *)

(* External: the ADB server connects, and again when it lost the first     *)
(* connection.                                                             *)
ServerConnects(c) ==
    /\ server = "open"
    /\ sock[c] = "none"
    /\ sock' = [sock EXCEPT ![c] = "accepted"]
    /\ adb' = "listed"
    /\ UNCHANGED <<at, outcome, server, tasks, proxy_task, waited>>

(* Mutant: no task is made of go().                                        *)
NoTask(c) == proxy

TaskMade(c) == [proxy EXCEPT ![c] = "running"]

(* on_connected, whatever attach_raw does by now.                          *)
OnConnected(c) ==
    /\ sock[c] = "accepted"
    /\ sock' = [sock EXCEPT ![c] = "taken"]
    /\ proxy' = TaskMade(c)
    /\ proxy_task' = c
    /\ UNCHANGED <<at, outcome, server, waited, alive, cmd, adb>>

-----------------------------------------------------------------------------
(* The reply to host:connect: the listener is closed; with a proxy, the    *)
(* other two tasks are made and attach_raw waits for the first to end.     *)
Reply ==
    /\ at = "connect"
    /\ server' = "closed"
    /\ IF proxy_task # 0
       THEN /\ at' = "wait"
            /\ waited' = proxy_task
            /\ alive' = "running"
            /\ cmd' = IF HasCmd THEN "running" ELSE "none"
            /\ UNCHANGED outcome
       ELSE at' = "disconnect" /\ outcome' = "raised" /\ UNCHANGED <<waited, alive, cmd>>
    /\ UNCHANGED <<sock, proxy, proxy_task, adb>>

(* host:connect raises, or attach_raw is cancelled: the first try ends,    *)
(* and with it attach_raw.                                                 *)
ConnectEnds(how) ==
    /\ at = "connect"
    /\ at' = "over"
    /\ outcome' = how
    /\ server' = "closed"
    /\ UNCHANGED <<sock, tasks, proxy_task, waited, adb>>

-----------------------------------------------------------------------------
(* The three tasks.                                                        *)

Running(t) == t \in {"running", "cancelled"}

(* go() ends: it lost its connection, or after its finally.                *)
ProxyEnds(c) ==
    /\ Running(proxy[c])
    /\ proxy' = [proxy EXCEPT ![c] = "ended"]
    /\ UNCHANGED <<at, outcome, server, sock, proxy_task, waited, alive, cmd, adb>>

AliveEnds ==
    /\ Running(alive)
    /\ alive' = "ended"
    /\ UNCHANGED <<at, outcome, server, sock, proxy, proxy_task, waited, cmd, adb>>

CmdEnds ==
    /\ Running(cmd)
    /\ cmd' = "ended"
    /\ UNCHANGED <<at, outcome, server, sock, proxy, proxy_task, waited, alive, adb>>

WaitedStates == {proxy[waited], alive, cmd}

Cancelled(t) == IF t = "running" THEN "cancelled" ELSE t

(* Mutant: the command is let run.                                         *)
CmdRuns == cmd

CmdCancelled == Cancelled(cmd)

CancelAll ==
    /\ proxy' = [proxy EXCEPT ![waited] = Cancelled(@)]
    /\ alive' = Cancelled(alive)
    /\ cmd' = CmdCancelled

(* The first of them has ended.                                            *)
Wakes ==
    /\ at = "wait"
    /\ "ended" \in WaitedStates
    /\ at' = "gather"
    /\ CancelAll
    /\ UNCHANGED <<outcome, server, sock, proxy_task, waited, adb>>

(* attach_raw is cancelled while it waits; gather() passes a cancellation  *)
(* on to the tasks and raises it when all have ended.                      *)
CancelWait ==
    /\ at \in {"wait", "gather"}
    /\ at' = "gather"
    /\ outcome' = "cancelled"
    /\ CancelAll
    /\ UNCHANGED <<server, sock, proxy_task, waited, adb>>

(* gather() waits for all of them.  (Mutant: it is not awaited.)           *)
AnyState == TRUE

AllEnded == WaitedStates \subseteq {"ended", "none"}

(* Mutant: an attachment that was cancelled does not disconnect.           *)
NextUnlessCancelled == IF outcome = "cancelled" THEN "over" ELSE "disconnect"

NextIsDisconnect == "disconnect"

(* gather(return_exceptions=True): what the tasks raised is dropped.       *)
Gathered ==
    /\ at = "gather"
    /\ AllEnded
    /\ at' = NextIsDisconnect
    /\ UNCHANGED <<outcome, server, sock, tasks, proxy_task, waited, adb>>

-----------------------------------------------------------------------------
(* host:disconnect: it answers, raises, which is dropped, or is cancelled. *)

Finish == outcome' = IF outcome = "none" THEN "returned" ELSE outcome

Disconnected ==
    /\ at = "disconnect"
    /\ at' = "over"
    /\ Finish
    /\ adb' = "removed"
    /\ UNCHANGED <<server, sock, tasks, proxy_task, waited>>

DisconnectRaises ==
    /\ at = "disconnect"
    /\ at' = "over"
    /\ Finish
    /\ adb' = "unsure"
    /\ UNCHANGED <<server, sock, tasks, proxy_task, waited>>

CancelDisconnect ==
    /\ at = "disconnect"
    /\ at' = "over"
    /\ outcome' = "cancelled"
    /\ adb' = "unsure"
    /\ UNCHANGED <<server, sock, tasks, proxy_task, waited>>

Next ==
    \/ Prepared \/ Listens \/ Reply
    \/ \E how \in {"raised", "cancelled"} : EarlyEnd(how) \/ ConnectEnds(how)
    \/ \E c \in Conns : ServerConnects(c) \/ OnConnected(c) \/ ProxyEnds(c)
    \/ AliveEnds \/ CmdEnds \/ Wakes \/ CancelWait \/ Gathered
    \/ Disconnected \/ DisconnectRaises \/ CancelDisconnect

Spec == Init /\ [][Next]_vars

(* The event loop wakes attach_raw, and a task that was cancelled ends: go *)
(* after its finally, the others at the await that gets the CancelledError.*)
FairSpec ==
    /\ Spec
    /\ WF_vars(Wakes) /\ WF_vars(Gathered)
    /\ WF_vars(alive = "cancelled" /\ AliveEnds)
    /\ WF_vars(cmd = "cancelled" /\ CmdEnds)
    /\ \A c \in Conns : WF_vars(proxy[c] = "cancelled" /\ ProxyEnds(c))

-----------------------------------------------------------------------------
(* Properties.                                                             *)

Stopped == waited # 0 => ~\E t \in WaitedStates : Running(t)

(* The proxy that attach_raw waits for, the check of the device and the    *)
(* command are over before the ADB server is asked to disconnect, also     *)
(* when attach_raw is cancelled while it stops them (adb_proxy.py:445-450).*)
(* A proxy that took the place of another in proxy_task, or was made after *)
(* the reply to host:connect, is not among them and may outlive it.        *)
StoppedFirst == at \in {"disconnect", "over"} => Stopped

(* An attachment that got as far as to wait does not end, however it ends, *)
(* without host:disconnect; before that, only a proxy whose host:connect   *)
(* did not answer leaves the address behind (adb_proxy.py:426-459).        *)
AddressRemoved ==
    at = "over" /\ adb \in {"asked", "listed"} => waited = 0 /\ outcome # "returned"

(* When one of the three tasks has ended, the others end too               *)
(* (adb_proxy.py:441-450).                                                 *)
OneEndsAll ==
    at = "wait" /\ "ended" \in WaitedStates ~> at \in {"disconnect", "over"} /\ Stopped
=============================================================================
