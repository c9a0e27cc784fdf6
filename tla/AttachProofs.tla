----------------------------- MODULE AttachProofs -----------------------------
(***************************************************************************)
(* Theorems about Attach, for any number of connections and with or        *)
(* without a wait_for.  StoppedFirst and AddressRemoved rest on what a     *)
(* step of attach_raw knows when it runs: Order ties the listener, the     *)
(* address and the choice of the proxy to the place where attach_raw is;   *)
(* Chosen says that a proxy which is waited for was accepted before, so    *)
(* that no on_connected starts it again after it was stopped.              *)
(***************************************************************************)
EXTENDS Attach, TLAPS

(* The listener is open only for host:connect, and nothing is chosen or    *)
(* listed before it.                                                       *)
Order ==
    /\ server = "open" <=> at = "connect"
    /\ at \in {"prepare", "listen"} => adb = "none"
    /\ at \in {"prepare", "listen", "connect"} => waited = 0 /\ outcome = "none"
    /\ at \in {"wait", "gather"} => waited # 0

(* proxy_task and wait_tasks name connections that were taken.             *)
Chosen ==
    \A c \in Conns : sock[c] # "taken" => c # proxy_task /\ c # waited

Inv == TypeOK /\ Order /\ Chosen /\ StoppedFirst /\ AddressRemoved

-----------------------------------------------------------------------------
LEMMA InvInit == Init => Inv
    BY
    DEF Init, Inv, TypeOK, TaskStates, Order, Chosen, StoppedFirst, Stopped,
        AddressRemoved,
           Conns

LEMMA CancelledType ==
    ASSUME NEW t \in TaskStates
    PROVE  Cancelled(t) \in TaskStates
    BY DEF Cancelled, TaskStates

(* Cancelling the three tasks keeps their types, and what is a task.       *)
LEMMA CancelAllType ==
    ASSUME TypeOK, CancelAll
    PROVE  /\ proxy' \in [Conns -> TaskStates]
           /\ alive' \in TaskStates
           /\ cmd' \in TaskStates
           /\ \A c \in Conns : proxy[c] # "none" => proxy'[c] # "none"
    BY CancelledType DEF TypeOK, CancelAll, CmdCancelled, Cancelled

LEMMA TypeStep ==
    ASSUME TypeOK, [Next]_vars
    PROVE  TypeOK'
<1> USE AttachAssumption DEF TypeOK, TaskStates, tasks
<1>1. CASE UNCHANGED vars
    BY <1>1 DEF vars
<1>2. CASE Prepared \/ Listens
    BY <1>2 DEF Prepared, Listens
<1>3. CASE Reply
    BY <1>3 DEF Reply
<1>4. ASSUME NEW how \in {"raised", "cancelled"}, EarlyEnd(how) \/ ConnectEnds(how)
      PROVE  TypeOK'
    BY <1>4 DEF EarlyEnd, ConnectEnds
<1>5. ASSUME NEW c \in Conns, ServerConnects(c) \/ OnConnected(c) \/ ProxyEnds(c)
      PROVE  TypeOK'
    BY <1>5 DEF ServerConnects, OnConnected, TaskMade, ProxyEnds
<1>6. CASE AliveEnds \/ CmdEnds
    BY <1>6 DEF AliveEnds, CmdEnds
<1>7. CASE Wakes \/ CancelWait
    BY <1>7, CancelAllType DEF Wakes, CancelWait
<1>8. CASE Gathered
    BY <1>8 DEF Gathered, NextIsDisconnect
<1>9. CASE Disconnected \/ DisconnectRaises \/ CancelDisconnect
    BY <1>9 DEF Disconnected, DisconnectRaises, CancelDisconnect, Finish
<1> QED
    BY <1>1, <1>2, <1>3, <1>4, <1>5, <1>6, <1>7, <1>8, <1>9 DEF Next

LEMMA OrderStep ==
    ASSUME TypeOK, Order, [Next]_vars
    PROVE  Order'
<1> USE DEF Order, tasks
<1>1. CASE UNCHANGED vars
    BY <1>1 DEF vars
<1>2. CASE Prepared \/ Listens
    BY <1>2 DEF Prepared, Listens
<1>3. CASE Reply
    BY <1>3 DEF Reply
<1>4. ASSUME NEW how \in {"raised", "cancelled"}, EarlyEnd(how) \/ ConnectEnds(how)
      PROVE  Order'
    BY <1>4 DEF EarlyEnd, ConnectEnds
<1>5. ASSUME NEW c \in Conns, ServerConnects(c) \/ OnConnected(c) \/ ProxyEnds(c)
      PROVE  Order'
    BY <1>5 DEF ServerConnects, OnConnected, ProxyEnds
<1>6. CASE AliveEnds \/ CmdEnds
    BY <1>6 DEF AliveEnds, CmdEnds
<1>7. CASE Wakes \/ CancelWait
    BY <1>7 DEF Wakes, CancelWait, CancelAll
<1>8. CASE Gathered
    BY <1>8 DEF Gathered, NextIsDisconnect
<1>9. CASE Disconnected \/ DisconnectRaises \/ CancelDisconnect
    BY <1>9 DEF Disconnected, DisconnectRaises, CancelDisconnect, Finish
<1> QED
    BY <1>1, <1>2, <1>3, <1>4, <1>5, <1>6, <1>7, <1>8, <1>9 DEF Next

LEMMA ChosenStep ==
    ASSUME TypeOK, Chosen, [Next]_vars
    PROVE  Chosen'
<1> USE DEF TypeOK, Chosen, Conns
<1>1. ASSUME NEW c \in Conns, ServerConnects(c)
      PROVE  Chosen'
    BY <1>1 DEF ServerConnects
<1>2. ASSUME NEW c \in Conns, OnConnected(c)
      PROVE  Chosen'
    BY <1>2 DEF OnConnected
<1>3. CASE Reply
    BY <1>3 DEF Reply
<1>4. CASE UNCHANGED <<sock, proxy_task, waited>>
    BY <1>4
<1> QED
    BY <1>1, <1>2, <1>3, <1>4
    DEF Next, vars, tasks, Prepared, Listens, EarlyEnd, ConnectEnds, ProxyEnds, AliveEnds,
        CmdEnds, Wakes, CancelWait, Gathered, Disconnected, DisconnectRaises,
        CancelDisconnect

(* The tasks that were waited for stay stopped once gather() has returned: *)
(* only on_connected starts a task by then, and for another connection.    *)
LEMMA StoppedStep ==
    ASSUME Inv, [Next]_vars
    PROVE  StoppedFirst'
<1> USE DEF Inv, TypeOK, Order, StoppedFirst, Stopped, Running, WaitedStates, tasks
<1>1. CASE UNCHANGED vars
    BY <1>1 DEF vars
<1>2. CASE Prepared \/ Listens
    BY <1>2 DEF Prepared, Listens
<1>3. CASE Reply
    BY <1>3 DEF Reply
<1>4. ASSUME NEW how \in {"raised", "cancelled"}, EarlyEnd(how) \/ ConnectEnds(how)
      PROVE  StoppedFirst'
    BY <1>4 DEF EarlyEnd, ConnectEnds
<1>5. ASSUME NEW c \in Conns, ServerConnects(c)
      PROVE  StoppedFirst'
    BY <1>5 DEF ServerConnects
<1>6. ASSUME NEW c \in Conns, OnConnected(c)
      PROVE  StoppedFirst'
  <2>1. c # waited
      BY <1>6 DEF OnConnected, Chosen
  <2> QED
      BY <1>6, <2>1 DEF OnConnected, TaskMade
<1>7. ASSUME NEW c \in Conns, ProxyEnds(c)
      PROVE  StoppedFirst'
    BY <1>7 DEF ProxyEnds
<1>8. CASE AliveEnds \/ CmdEnds
    BY <1>8 DEF AliveEnds, CmdEnds
<1>9. CASE Wakes \/ CancelWait
    BY <1>9 DEF Wakes, CancelWait
<1>10. CASE Gathered
    BY <1>10 DEF Gathered, AllEnded
<1>11. CASE Disconnected \/ DisconnectRaises \/ CancelDisconnect
    BY <1>11 DEF Disconnected, DisconnectRaises, CancelDisconnect
<1> QED
    BY <1>1, <1>2, <1>3, <1>4, <1>5, <1>6, <1>7, <1>8, <1>9, <1>10, <1>11 DEF Next

LEMMA AddressStep ==
    ASSUME Inv, [Next]_vars
    PROVE  AddressRemoved'
<1> USE DEF Inv, Order, AddressRemoved, tasks
<1>1. CASE UNCHANGED vars
    BY <1>1 DEF vars
<1>2. CASE Prepared \/ Listens \/ Reply
    BY <1>2 DEF Prepared, Listens, Reply, NextIsDisconnect
<1>3. ASSUME NEW how \in {"raised", "cancelled"}, EarlyEnd(how) \/ ConnectEnds(how)
      PROVE  AddressRemoved'
    BY <1>3 DEF EarlyEnd, ConnectEnds
<1>4. ASSUME NEW c \in Conns, ServerConnects(c) \/ OnConnected(c) \/ ProxyEnds(c)
      PROVE  AddressRemoved'
    BY <1>4 DEF ServerConnects, OnConnected, ProxyEnds
<1>5. CASE AliveEnds \/ CmdEnds
    BY <1>5 DEF AliveEnds, CmdEnds
<1>6. CASE Wakes \/ CancelWait \/ Gathered
    BY <1>6 DEF Wakes, CancelWait, CancelAll, Gathered, NextIsDisconnect
<1>7. CASE Disconnected \/ DisconnectRaises \/ CancelDisconnect
    BY <1>7 DEF Disconnected, DisconnectRaises, CancelDisconnect
<1> QED
    BY <1>1, <1>2, <1>3, <1>4, <1>5, <1>6, <1>7 DEF Next

-----------------------------------------------------------------------------
(* The inductive invariant holds in every reachable state.                 *)
THEOREM AttachInvariant == Spec => []Inv
<1>1. Inv /\ [Next]_vars => Inv'
    BY TypeStep, OrderStep, ChosenStep, StoppedStep, AddressStep DEF Inv
<1> QED
    BY <1>1, InvInit, PTL DEF Spec

(* The variables of attach_raw always have their types.                    *)
THEOREM AttachTypes == Spec => []TypeOK
<1>1. Inv => TypeOK
    BY DEF Inv
<1> QED
    BY <1>1, AttachInvariant, PTL

(* However attach_raw comes to its host:disconnect, the proxy it waited    *)
(* for, the check of the device and the command are over by then           *)
(* (adb_proxy.py:445-450).                                                 *)
THEOREM TasksStoppedFirst == Spec => []StoppedFirst
<1>1. Inv => StoppedFirst
    BY DEF Inv
<1> QED
    BY <1>1, AttachInvariant, PTL

(* An attachment that waited for its tasks never ends with its address     *)
(* still listed and host:disconnect not sent (adb_proxy.py:426-459).       *)
THEOREM NoAddressLeft == Spec => []AddressRemoved
<1>1. Inv => AddressRemoved
    BY DEF Inv
<1> QED
    BY <1>1, AttachInvariant, PTL
=============================================================================
