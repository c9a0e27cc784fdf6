------------------------- MODULE ReverseTunnelsProofs -------------------------
(***************************************************************************)
(* Theorems about ReverseTunnels, for any number of requests and remotes.  *)
(* Life says which listener a request has at each stage, Entry what a      *)
(* request in the dict looks like: it is done, under its own remote, and   *)
(* open while go() runs.  They make OpenListenerOwned and RegisteredOpen   *)
(* inductive, because a listener that is closed is one that leaves the     *)
(* dict or never was in it.  For AgreesWithDevice, Agreed follows the one  *)
(* request that a remote without doubt may have through its stages.        *)
(***************************************************************************)
EXTENDS ReverseTunnels, TLAPS

Life(q) ==
    /\ req[q].st \in {"idle", "opened", "listen"} \/ req[q].op # "create" => listener[q] = "none"
    /\ req[q].st = "listen" => req[q].op = "create"
    /\ req[q].op = "create" /\ req[q].st \in {"asked", "handled"} => listener[q] = "open"
    /\ req[q].op = "remove" => req[q].remote \in Remotes
    /\ req[q].st = "handled" /\ req[q].ok => req[q].remote \in Remotes
    /\ listener[q] = "open" => \/ Active(q)
                               \/ req[q].st = "raised"
                               \/ \E r \in Remotes : reverse_listeners[r] = q

Entry(r) ==
    LET q == reverse_listeners[r] IN
    q # None =>
        /\ req[q].st = "done" /\ req[q].op = "create" /\ req[q].remote = r
        /\ up => listener[q] = "open"

(* Of a remote without doubt: one request at most is under way, and the    *)
(* device is ahead of the dict only while its reply is on its way.         *)
Agreed(r) ==
    up /\ r \notin unsure =>
        /\ \A p, q \in Requests :
              Active(p) /\ Active(q) /\ req[p].remote = r /\ req[q].remote = r => p = q
        /\ \A q \in Requests :
              req[q].st = "handled" /\ req[q].ok /\ req[q].remote = r =>
                  fwd[r] = IF req[q].op = "create" THEN q ELSE None
        /\ (\A q \in Requests :
              ~(req[q].st = "handled" /\ req[q].ok /\ req[q].remote = r)) =>
                  reverse_listeners[r] = fwd[r]

Listeners == (\A q \in Requests : Life(q)) /\ (\A r \in Remotes : Entry(r))

Inv == TypeOK /\ Listeners /\ (\A r \in Remotes : Agreed(r))

-----------------------------------------------------------------------------
LEMMA RequestFacts == Requests \subseteq Nat \ {0}
    BY TunnelsAssumption DEF Requests

LEMMA InvInit == Init => Inv
    BY TunnelsAssumption, RequestFacts
    DEF Init, Inv, TypeOK, Tasks, Listeners, Life, Entry, Agreed, Active, None

LEMMA TypeStep ==
    ASSUME TypeOK, Listeners, [Next]_vars
    PROVE  TypeOK'
<1>1. CASE UNCHANGED vars
    BY <1>1, RequestFacts DEF TypeOK, Tasks, Doubt, None, vars
<1>2. CASE GoFinally
    BY <1>2, RequestFacts DEF TypeOK, Tasks, Doubt, None, GoFinally, CloseRegistered
<1>3. ASSUME NEW q \in Requests, NEW r \in Remotes \cup {AnyPort}, StartCreate(q, r)
      PROVE  TypeOK'
  <2>1. req' \in [Requests -> Tasks]
      BY <1>3 DEF TypeOK, Tasks, StartCreate
  <2>2. unsure' \subseteq Remotes
      BY <1>3 DEF TypeOK, Doubt, StartCreate
  <2> QED
      BY <1>3, <2>1, <2>2 DEF TypeOK, StartCreate
<1>4. ASSUME NEW q \in Requests, NEW r \in Remotes, StartRemove(q, r)
      PROVE  TypeOK'
    BY ZenonT(40), <1>4, RequestFacts DEF TypeOK, Tasks, Doubt, None, StartRemove
<1>5. ASSUME NEW q \in Requests, RemoveAll(q)
      PROVE  TypeOK'
    BY ZenonT(40), <1>5, RequestFacts
    DEF TypeOK, Tasks, Doubt, None, RemoveAll, CloseRegistered, Cleared
<1>6. ASSUME NEW q \in Requests, Listens(q)
      PROVE  TypeOK'
    BY SMTT(20), <1>6, RequestFacts DEF TypeOK, Tasks, Doubt, None, Listens
<1>7. ASSUME NEW q \in Requests, ListenRaises(q)
      PROVE  TypeOK'
    BY SMTT(20), <1>7, RequestFacts DEF TypeOK, Tasks, Doubt, None, ListenRaises
<1>8. ASSUME NEW q \in Requests, ReadRaises(q)
      PROVE  TypeOK'
    BY SMTT(20), <1>8, RequestFacts DEF TypeOK, Tasks, Doubt, None, ReadRaises
<1>9. ASSUME NEW q \in Requests, DeviceForwards(q)
      PROVE  TypeOK'
  <2>1. PICK r \in Remotes :
          /\ req' = [req EXCEPT ![q] = [@ EXCEPT !.st = "handled", !.remote = r, !.ok = TRUE]]
          /\ fwd' = [fwd EXCEPT ![r] = q]
          /\ unsure' = unsure \cup Doubt(q, r)
      BY <1>9 DEF DeviceForwards
  <2>2. req' \in [Requests -> Tasks]
      BY <2>1 DEF TypeOK, Tasks
  <2>3. unsure' \subseteq Remotes /\ fwd' \in [Remotes -> Requests \cup {None}]
      BY <2>1 DEF TypeOK, Doubt
  <2> QED
      BY <1>9, <2>2, <2>3 DEF TypeOK, DeviceForwards
<1>10. ASSUME NEW q \in Requests, DeviceUnforwards(q)
      PROVE  TypeOK'
    BY ZenonT(40), <1>10, RequestFacts DEF TypeOK, Tasks, Doubt, None, DeviceUnforwards
<1>11. ASSUME NEW q \in Requests, DeviceFails(q)
      PROVE  TypeOK'
    BY ZenonT(40), <1>11, RequestFacts DEF TypeOK, Tasks, Doubt, None, DeviceFails
<1>12. ASSUME NEW q \in Requests, Created(q)
      PROVE  TypeOK'
    BY ZenonT(40), <1>12, RequestFacts
    DEF TypeOK, Tasks, Doubt, None, Created, Reply, Stored, OldClosed, Close
<1>13. ASSUME NEW q \in Requests, Removed(q)
      PROVE  TypeOK'
    BY ZenonT(40), <1>13, RequestFacts
    DEF TypeOK, Tasks, Doubt, None, Removed, Reply, Popped, OldClosed, Close
<1>14. ASSUME NEW q \in Requests, NotCreated(q)
      PROVE  TypeOK'
    BY <1>14, RequestFacts DEF TypeOK, Tasks, Doubt, None, NotCreated, Reply, Close
<1>15. ASSUME NEW q \in Requests, NotRemoved(q)
      PROVE  TypeOK'
    BY <1>15, RequestFacts DEF TypeOK, Tasks, Doubt, None, NotRemoved, Reply, Close
<1>16. ASSUME NEW q \in Requests, NEW r \in Remotes, StartCreate(q, r)
      PROVE  TypeOK'
    BY <1>3, <1>16
<1>17. ASSUME NEW q \in Requests, StartCreate(q, AnyPort)
      PROVE  TypeOK'
    BY <1>3, <1>17
<1>18. ASSUME NEW q \in Requests, Opens(q)
      PROVE  TypeOK'
    BY <1>18, RequestFacts DEF TypeOK, Tasks, None, Opens
<1> QED
    BY <1>1, <1>2, <1>4, <1>5, <1>6, <1>7, <1>8, <1>9, <1>10, <1>11, <1>12,
       <1>13, <1>14, <1>15,
       <1>16, <1>17, <1>18
    DEF Next

LEMMA ListenersStep ==
    ASSUME TypeOK, Listeners, [Next]_vars
    PROVE  Listeners'
<1>1. CASE UNCHANGED vars
    BY <1>1, RequestFacts DEF TypeOK, Listeners, None, vars, Life, Entry, Active
<1>2. CASE GoFinally
    BY <1>2, RequestFacts
    DEF TypeOK, Listeners, None, GoFinally, CloseRegistered, Registered, Life, Entry,
        Active
<1>3. ASSUME NEW q \in Requests, NEW r \in Remotes \cup {AnyPort}, StartCreate(q, r)
      PROVE  Listeners'
    BY <1>3, RequestFacts
    DEF TypeOK, Listeners, None, StartCreate, Life, Entry, Active, Tasks
<1>4. ASSUME NEW q \in Requests, NEW r \in Remotes, StartRemove(q, r)
      PROVE  Listeners'
    BY <1>4, RequestFacts
    DEF TypeOK, Listeners, None, StartRemove, Life, Entry, Active, Tasks
<1>5. ASSUME NEW q \in Requests, RemoveAll(q)
      PROVE  Listeners'
    BY <1>5, RequestFacts
    DEF TypeOK, Listeners, None, RemoveAll, CloseRegistered, Registered, Cleared, Life,
        Entry, Active, Tasks
<1>6. ASSUME NEW q \in Requests, Listens(q)
      PROVE  Listeners'
  <2>1. ASSUME NEW p \in Requests, p # q
        PROVE  Life(p)'
      BY <1>6, <2>1 DEF TypeOK, Listeners, Listens, Life, Active, Tasks
  <2>3. Life(q)'
      BY <1>6 DEF TypeOK, Listeners, Listens, Life, Active, Tasks
  <2>2. \A r \in Remotes : Entry(r)'
      BY <1>6 DEF TypeOK, Listeners, Listens, Entry, None, Tasks
  <2> QED
      BY <2>1, <2>2, <2>3 DEF Listeners
<1>7. ASSUME NEW q \in Requests, ListenRaises(q)
      PROVE  Listeners'
    BY <1>7, RequestFacts
    DEF TypeOK, Listeners, None, ListenRaises, Life, Entry, Active, Tasks
<1>8. ASSUME NEW q \in Requests, ReadRaises(q)
      PROVE  Listeners'
    BY <1>8, RequestFacts
    DEF TypeOK, Listeners, None, ReadRaises, Life, Entry, Active, Tasks
<1>9. ASSUME NEW q \in Requests, DeviceForwards(q)
      PROVE  Listeners'
    BY <1>9, RequestFacts
    DEF TypeOK, Listeners, None, DeviceForwards, Life, Entry, Active, Tasks
<1>10. ASSUME NEW q \in Requests, DeviceUnforwards(q)
      PROVE  Listeners'
    BY <1>10, RequestFacts
    DEF TypeOK, Listeners, None, DeviceUnforwards, Life, Entry, Active, Tasks
<1>11. ASSUME NEW q \in Requests, DeviceFails(q)
      PROVE  Listeners'
    BY <1>11, RequestFacts
    DEF TypeOK, Listeners, None, DeviceFails, Life, Entry, Active, Tasks
<1>12. ASSUME NEW q \in Requests, Created(q)
      PROVE  Listeners'
    BY <1>12, RequestFacts
    DEF TypeOK, Listeners, None, Created, Reply, Stored, OldClosed, Close, Life, Entry,
        Active, Tasks
<1>13. ASSUME NEW q \in Requests, Removed(q)
      PROVE  Listeners'
    BY <1>13, RequestFacts
    DEF TypeOK, Listeners, None, Removed, Reply, Popped, OldClosed, Close, Life, Entry,
        Active, Tasks
<1>14. ASSUME NEW q \in Requests, NotCreated(q)
      PROVE  Listeners'
    BY <1>14, RequestFacts
    DEF TypeOK, Listeners, None, NotCreated, Reply, Close, Life, Entry, Active, Tasks
<1>15. ASSUME NEW q \in Requests, NotRemoved(q)
      PROVE  Listeners'
    BY <1>15, RequestFacts
    DEF TypeOK, Listeners, None, NotRemoved, Reply, Close, Life, Entry, Active, Tasks
<1>16. ASSUME NEW q \in Requests, NEW r \in Remotes, StartCreate(q, r)
      PROVE  Listeners'
    BY <1>3, <1>16
<1>17. ASSUME NEW q \in Requests, StartCreate(q, AnyPort)
      PROVE  Listeners'
    BY <1>3, <1>17
<1>18. ASSUME NEW q \in Requests, Opens(q)
      PROVE  Listeners'
    BY <1>18, RequestFacts DEF TypeOK, Listeners, None, Opens, Life, Entry, Active, Tasks
<1> QED
    BY <1>1, <1>2, <1>4, <1>5, <1>6, <1>7, <1>8, <1>9, <1>10, <1>11, <1>12,
       <1>13, <1>14, <1>15,
       <1>16, <1>17, <1>18
    DEF Next

LEMMA AgreedStep ==
    ASSUME TypeOK, Listeners, [Next]_vars, NEW s \in Remotes, Agreed(s)
    PROVE  Agreed(s)'
<1>1. CASE UNCHANGED vars
    BY <1>1, RequestFacts DEF TypeOK, Listeners, None, Agreed, Active, vars
<1>2. CASE GoFinally
    BY <1>2, RequestFacts DEF TypeOK, Listeners, None, Agreed, Active, GoFinally
<1>3. ASSUME NEW q \in Requests, NEW r \in Remotes \cup {AnyPort}, StartCreate(q, r)
      PROVE  Agreed(s)'
  <2>1. CASE r = s /\ Overlaps(q, s)
      BY <1>3, <2>1, TunnelsAssumption DEF StartCreate, Doubt, Agreed
  <2>2. CASE r = s /\ ~Overlaps(q, s)
      BY <1>3, <2>2 DEF TypeOK, Agreed, Active, StartCreate, Overlaps, Tasks
  <2>3. CASE r # s
      BY <1>3, <2>3 DEF TypeOK, Agreed, Active, StartCreate, Tasks
  <2> QED
      BY <2>1, <2>2, <2>3
<1>4. ASSUME NEW q \in Requests, NEW r \in Remotes, StartRemove(q, r)
      PROVE  Agreed(s)'
    BY <1>4, RequestFacts
    DEF TypeOK, Listeners, None, Agreed, Active, StartRemove, Doubt, Overlaps, Tasks
<1>5. ASSUME NEW q \in Requests, RemoveAll(q)
      PROVE  Agreed(s)'
    BY <1>5, RequestFacts
    DEF TypeOK, Listeners, None, Agreed, Active, RemoveAll, Cleared, Tasks
<1>6. ASSUME NEW q \in Requests, Listens(q)
      PROVE  Agreed(s)'
    BY <1>6, RequestFacts DEF TypeOK, Listeners, None, Agreed, Active, Listens, Tasks
<1>7. ASSUME NEW q \in Requests, ListenRaises(q)
      PROVE  Agreed(s)'
    BY <1>7, RequestFacts DEF TypeOK, Listeners, None, Agreed, Active, ListenRaises, Tasks
<1>8. ASSUME NEW q \in Requests, ReadRaises(q)
      PROVE  Agreed(s)'
  <2>1. CASE req[q].remote = s
      BY <1>8, <2>1, TunnelsAssumption DEF Agreed, ReadRaises
  <2>2. CASE req[q].remote # s
      BY <1>8, <2>2 DEF TypeOK, Agreed, Active, ReadRaises, Tasks
  <2> QED
      BY <2>1, <2>2
<1>9. ASSUME NEW q \in Requests, DeviceForwards(q)
      PROVE  Agreed(s)'
    BY <1>9, RequestFacts
    DEF TypeOK, Listeners, None, Agreed, Active, DeviceForwards, Doubt, Overlaps, Tasks
<1>10. ASSUME NEW q \in Requests, DeviceUnforwards(q)
      PROVE  Agreed(s)'
    BY <1>10, RequestFacts
    DEF TypeOK, Listeners, None, Agreed, Active, DeviceUnforwards, Tasks
<1>11. ASSUME NEW q \in Requests, DeviceFails(q)
      PROVE  Agreed(s)'
    BY <1>11, RequestFacts DEF TypeOK, Listeners, None, Agreed, Active, DeviceFails, Tasks
<1>12. ASSUME NEW q \in Requests, Created(q)
      PROVE  Agreed(s)'
    BY <1>12, RequestFacts
    DEF TypeOK, Listeners, None, Agreed, Active, Created, Reply, Stored, Tasks, Life
<1>13. ASSUME NEW q \in Requests, Removed(q)
      PROVE  Agreed(s)'
    BY <1>13, RequestFacts
    DEF TypeOK, Listeners, None, Agreed, Active, Removed, Reply, Popped, Tasks, Life
<1>14. ASSUME NEW q \in Requests, NotCreated(q)
      PROVE  Agreed(s)'
    BY <1>14, RequestFacts
    DEF TypeOK, Listeners, None, Agreed, Active, NotCreated, Reply, Tasks
<1>15. ASSUME NEW q \in Requests, NotRemoved(q)
      PROVE  Agreed(s)'
    BY <1>15, RequestFacts
    DEF TypeOK, Listeners, None, Agreed, Active, NotRemoved, Reply, Tasks
<1>16. ASSUME NEW q \in Requests, NEW r \in Remotes, StartCreate(q, r)
      PROVE  Agreed(s)'
    BY <1>3, <1>16
<1>17. ASSUME NEW q \in Requests, StartCreate(q, AnyPort)
      PROVE  Agreed(s)'
    BY <1>3, <1>17
<1>18. ASSUME NEW q \in Requests, Opens(q)
      PROVE  Agreed(s)'
    BY <1>18, RequestFacts DEF TypeOK, None, Agreed, Active, Opens, Tasks
<1> QED
    BY <1>1, <1>2, <1>4, <1>5, <1>6, <1>7, <1>8, <1>9, <1>10, <1>11, <1>12,
       <1>13, <1>14, <1>15,
       <1>16, <1>17, <1>18
    DEF Next

-----------------------------------------------------------------------------
(* The inductive invariant holds in every reachable state.                 *)
THEOREM TunnelsInvariant == Spec => []Inv
<1>1. Inv /\ [Next]_vars => Inv'
    BY TypeStep, ListenersStep, AgreedStep DEF Inv
<1> QED
    BY <1>1, InvInit, PTL DEF Spec

(* The tasks, the dict and the forwards always have their types.           *)
THEOREM TunnelsTypes == Spec => []TypeOK
<1>1. Inv => TypeOK
    BY DEF Inv
<1> QED
    BY <1>1, TunnelsInvariant, PTL

(* Whatever the order in which the replies of any number of requests       *)
(* arrive, an open listener has an owner (adb_proxy.py:207-228).           *)
THEOREM ListenersOwned == Spec => []OpenListenerOwned
<1>1. Inv => OpenListenerOwned
    BY DEF Inv, Listeners, Life, OpenListenerOwned
<1> QED
    BY <1>1, TunnelsInvariant, PTL

(* No request closes the listener that another one has registered, and     *)
(* none is registered twice (adb_proxy.py:216-252).                        *)
THEOREM RegisteredStayOpen == Spec => []RegisteredOpen
<1>1. Inv => RegisteredOpen
    BY DEF Inv, Listeners, Entry, RegisteredOpen, Registered
<1> QED
    BY <1>1, TunnelsInvariant, PTL

(* The dict and the device agree on every remote that no two requests      *)
(* fought over (adb_proxy.py:214-256).                                     *)
THEOREM DeviceAgrees == Spec => []AgreesWithDevice
<1>1. Inv => AgreesWithDevice
    BY RequestFacts DEF Inv, Agreed, AgreesWithDevice, Overlaps, Active
<1> QED
    BY <1>1, TunnelsInvariant, PTL
=============================================================================
