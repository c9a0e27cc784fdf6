------------------------- MODULE ListenReverseProofs -------------------------
(***************************************************************************)
(* Theorems about ListenReverse and the mapping of PortMapping, for any    *)
(* number of connections, ports and attempts, whether or not a listener    *)
(* that closes waits for its connections.  A mapping to us is either the   *)
(* one that the context of map_port stands for (Owned) or the work of a    *)
(* call that failed; and the listener is left only when that context is    *)
(* over (Unmapped).  A connect() is in the set for as long as it runs      *)
(* (Registered), so that the finally, which cancels what is in the set,    *)
(* can only miss the ones that are accepted after it.                      *)
(***************************************************************************)
EXTENDS ListenReverse, TLAPS

(* Another attempt is made only while there are some left, and a context   *)
(* that was entered has a port.                                            *)
Attempts ==
    /\ map = "adds" => tries < Retries
    /\ map \in {"held", "removes"} => port \in Ports

Owned ==
    \A p \in Ports :
        router[p] = "ours" => p \in doubt \/ (map \in {"held", "removes"} /\ port = p)

Unmapped == main # "serves" => map \in {"off", "over"}

(* A connect() that runs is in the set.                                    *)
Registered == \A c \in Conns : task[c] = "running" => c \in connections

Inv == TypeOK /\ Attempts /\ Owned /\ Unmapped /\ Registered /\ OnlyLateRun

-----------------------------------------------------------------------------
LEMMA InvInit == Init => Inv
    BY MappingAssumption
    DEF Init, MapInit, Inv, TypeOK, MapType, Attempts, Owned, Unmapped, Registered,
        OnlyLateRun

(* What a call of the router that fails does to the mappings.              *)
LEMMA MayAddKeeps ==
    ASSUME MapType, NEW q \in Ports, MayAdd(q)
    PROVE  /\ router' \in [Ports -> {"free", "ours", "foreign"}]
           /\ doubt' \subseteq Ports
           /\ doubt \subseteq doubt'
           /\ \A p \in Ports : router'[p] = "ours" => router[p] = "ours" \/ p \in doubt'
    BY DEF MapType, MayAdd

(* A step of the context of map_port: its types and the mapping it owns.   *)
LEMMA MapStep ==
    ASSUME MapType, Attempts, Owned, MapGoesOn
    PROVE  (MapType /\ Attempts /\ Owned)' /\ map' \in {"adds", "held", "over"}
<1> USE MappingAssumption
<1>1. CASE Removes
    BY <1>1 DEF Removes, MapType, Attempts, Owned
<1>2. CASE RemoveFails
    BY <1>2 DEF RemoveFails, MapType, Attempts, Owned
<1>3. ASSUME NEW p \in Ports, Adds(p)
      PROVE  (MapType /\ Attempts /\ Owned)' /\ map' = "held"
    BY <1>3 DEF Adds, MapType, Attempts, Owned
<1>4. ASSUME NEW q \in Ports, AddFails(q)
      PROVE  (MapType /\ Attempts /\ Owned)' /\ map' \in {"adds", "over"}
    <2>1. MayAdd(q) /\ map = "adds" /\ tries' = tries + 1 /\ port' = port
          /\ map' = IF tries' < Retries THEN map ELSE "over"
        BY <1>4 DEF AddFails
    <2>2. MapType' /\ Attempts'
        BY <2>1, MayAddKeeps DEF MapType, Attempts
    <2>3. Owned'
        BY <2>1, MayAddKeeps DEF Owned
    <2> QED
        BY <2>1, <2>2, <2>3
<1>5. ASSUME NEW q \in Ports, AddInterrupted(q)
      PROVE  (MapType /\ Attempts /\ Owned)' /\ map' = "over"
    <2>1. MayAdd(q) /\ map = "adds" /\ map' = "over" /\ tries' = tries /\ port' = port
        BY <1>5 DEF AddInterrupted
    <2>2. MapType' /\ Attempts'
        BY <2>1, MayAddKeeps DEF MapType, Attempts
    <2>3. Owned'
        BY <2>1, MayAddKeeps DEF Owned
    <2> QED
        BY <2>1, <2>2, <2>3
<1> QED
    BY <1>1, <1>2, <1>3, <1>4, <1>5 DEF MapGoesOn

LEMMA OthersStep ==
    ASSUME MapType, Attempts, Owned, NEW p \in Ports, OtherAdds(p)
    PROVE  (MapType /\ Attempts /\ Owned)'
    BY DEF OtherAdds, MapType, Attempts, Owned

LEMMA LeavesStep ==
    ASSUME MapType, Attempts, Owned, Leaves
    PROVE  (MapType /\ Attempts /\ Owned)'
    BY DEF Leaves, LeavesContext, MapType, Attempts, Owned

-----------------------------------------------------------------------------
(* The part of listen_reverse that the mapping is about.                   *)
MapInv == MapType /\ Attempts /\ Owned

LEMMA MapInvStep ==
    ASSUME Inv, [Next]_vars
    PROVE  (MapInv /\ Unmapped)'
<1>1. MapInv /\ Unmapped
    BY DEF Inv, TypeOK, MapInv
<1>2. CASE UNCHANGED vars
    BY <1>1, <1>2 DEF vars, mapVars, MapInv, MapType, Attempts, Owned, Unmapped
<1>3. CASE Maps
    BY <1>1, <1>3, MapStep
    DEF Maps, MapInv, Unmapped, MapGoesOn, Removes, RemoveFails, Adds,
       AddFails, AddInterrupted
<1>4. CASE Stops
    BY <1>1, <1>4, LeavesStep
    DEF Stops, MapInv, MapType, Attempts, Owned, Unmapped, mapVars
<1>5. CASE RouterChanges
    BY <1>1, <1>5, OthersStep DEF RouterChanges, OtherAdds, MapInv, Unmapped
<1>6. CASE Finally
    BY <1>1, <1>6 DEF Finally, MapInv, MapType, Attempts, Owned, Unmapped, mapVars
<1>7. CASE GatherEnds
    BY <1>1, <1>7 DEF GatherEnds, MapInv, MapType, Attempts, Owned, Unmapped, mapVars
<1>8. ASSUME NEW c \in Conns, Incoming(c)
      PROVE  (MapInv /\ Unmapped)'
    BY <1>1, <1>8 DEF Incoming, MapInv, MapType, Attempts, Owned, Unmapped, mapVars
<1>9. ASSUME NEW c \in Conns, Accept(c)
      PROVE  (MapInv /\ Unmapped)'
    BY <1>1, <1>9 DEF Accept, MapInv, MapType, Attempts, Owned, Unmapped, mapVars
<1>10. ASSUME NEW c \in Conns, TaskEnds(c)
       PROVE  (MapInv /\ Unmapped)'
    BY <1>1, <1>10 DEF TaskEnds, MapInv, MapType, Attempts, Owned, Unmapped, mapVars
<1>11. ASSUME NEW c \in Conns, HandlerResumes(c)
       PROVE  (MapInv /\ Unmapped)'
    BY <1>1, <1>11 DEF HandlerResumes, MapInv, MapType, Attempts, Owned, Unmapped, mapVars
<1> QED
    BY <1>2, <1>3, <1>4, <1>5, <1>6, <1>7, <1>8, <1>9, <1>10, <1>11 DEF Next

(* The types of the tasks, and which of them may run.                      *)
LEMMA TasksStep ==
    ASSUME Inv, [Next]_vars
    PROVE  (TypeOK /\ Registered /\ OnlyLateRun)'
<1> USE DEF Inv, TypeOK, Registered, OnlyLateRun, Ended
<1>1. MapType'
    BY MapInvStep DEF MapInv
<1>2. CASE UNCHANGED vars
    BY <1>1, <1>2 DEF vars, tasks
<1>3. CASE Maps
    BY <1>1, <1>3
    DEF Maps, tasks, MapGoesOn, Unmapped, Removes, RemoveFails, Adds, AddFails,
       AddInterrupted
<1>4. CASE Stops
    BY <1>1, <1>4 DEF Stops, tasks
<1>5. CASE RouterChanges
    BY <1>1, <1>5 DEF RouterChanges, tasks
<1>6. CASE Finally
    <2>1. /\ \A c \in Conns : task'[c] = IF c \in connections /\ task[c] = "running"
                                         THEN "cancelled" ELSE task[c]
          /\ task' \in [Conns -> {"none", "running", "cancelled"} \cup Ended]
        BY <1>6 DEF Finally, Cancels
    <2> QED
        BY <1>1, <1>6, <2>1 DEF Finally
<1>7. CASE GatherEnds
    BY <1>1, <1>7 DEF GatherEnds, tasks
<1>8. ASSUME NEW c \in Conns, Incoming(c)
      PROVE  (TypeOK /\ Registered /\ OnlyLateRun)'
    BY <1>1, <1>8 DEF Incoming
<1>9. ASSUME NEW c \in Conns, Accept(c)
      PROVE  (TypeOK /\ Registered /\ OnlyLateRun)'
    BY <1>1, <1>9 DEF Accept, AddedTask
<1>10. ASSUME NEW c \in Conns, TaskEnds(c)
       PROVE  (TypeOK /\ Registered /\ OnlyLateRun)'
    BY <1>1, <1>10 DEF TaskEnds
<1>11. ASSUME NEW c \in Conns, HandlerResumes(c)
       PROVE  (TypeOK /\ Registered /\ OnlyLateRun)'
    BY <1>1, <1>11 DEF HandlerResumes
<1> QED
    BY <1>2, <1>3, <1>4, <1>5, <1>6, <1>7, <1>8, <1>9, <1>10, <1>11 DEF Next

-----------------------------------------------------------------------------
(* The inductive invariant holds in every reachable state.                 *)
THEOREM ListenerInvariant == Spec => []Inv
<1>1. Inv /\ [Next]_vars => Inv'
    BY MapInvStep, TasksStep DEF Inv, MapInv
<1> QED
    BY <1>1, InvInit, PTL DEF Spec

(* The variables always have their types; no more attempts are made to map *)
(* a port than there may be (upnp.py:89-112).                              *)
THEOREM ListenerTypes == Spec => []TypeOK
<1>1. Inv => TypeOK
    BY DEF Inv
<1> QED
    BY <1>1, ListenerInvariant, PTL

(* The finally tells every connect() to end that was accepted before it:   *)
(* what runs on was accepted later (adb_proxy.py:536-555, 618-621).        *)
THEOREM OnlyLateTasksRun == Spec => []OnlyLateRun
<1>1. Inv => OnlyLateRun
    BY DEF Inv
<1> QED
    BY <1>1, ListenerInvariant, PTL

(* Without its listener a mapping to us is one that a call of the router   *)
(* which failed left (upnp.py:114-124, adb_proxy.py:558-616).              *)
THEOREM MappingHasListener == Spec => []MappedIsListening
<1>1. Inv => MappedIsListening
    BY DEF Inv, Owned, Unmapped, MappedIsListening
<1> QED
    BY <1>1, ListenerInvariant, PTL
=============================================================================
