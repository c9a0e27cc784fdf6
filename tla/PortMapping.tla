----------------------------- MODULE PortMapping -----------------------------
(***************************************************************************)
(* UPnP.map_port of upnp.py: a context that maps a random external port of *)
(* the router to the listener, tries again when that fails, and removes    *)
(* the mapping when it is left.  An answer of the router may be lost after *)
(* it has done what it was asked.                                          *)
(***************************************************************************)
EXTENDS Naturals, FiniteSets

CONSTANTS
    Ports,    \* the external ports
    NoPort,   \* none of them
    Retries   \* _PORT_MAPPING_RETRIES

ASSUME MappingAssumption == Retries \in Nat \ {0} /\ NoPort \notin Ports

VARIABLES
    map,     \* map_port: "off" without UPnP; adds (awaits add_port_mapping),
             \* held (has yielded), removes (awaits delete_port_mapping), over
    tries,   \* the attempts that failed
    port,    \* ext_port
    router,  \* whose mapping each external port has
    doubt    \* history: ports with a call of ours whose answer was an error

mapVars == <<map, tries, port, router, doubt>>

MapType ==
    /\ map \in {"off", "adds", "held", "removes", "over"}
    /\ tries \in 0 .. Retries
    /\ port \in Ports \cup {NoPort}
    /\ router \in [Ports -> {"free", "ours", "foreign"}]
    /\ doubt \subseteq Ports

(* The mappings of others are there before.                                *)
MapInit ==
    /\ map \in {"off", "adds"}
    /\ tries = 0
    /\ port = NoPort
    /\ router \in [Ports -> {"free", "foreign"}]
    /\ doubt = {}

-----------------------------------------------------------------------------
Adds(p) ==
    /\ map = "adds"
    /\ router[p] # "foreign"
    /\ router' = [router EXCEPT ![p] = "ours"]
    /\ port' = p
    /\ map' = "held"
    /\ UNCHANGED <<tries, doubt>>

(* The effect of a call on p that ends with an error, if it has one.       *)
MayAdd(p) ==
    /\ router' \in {router} \cup
           (IF router[p] = "foreign" THEN {} ELSE {[router EXCEPT ![p] = "ours"]})
    /\ doubt' = IF router' = router THEN doubt ELSE doubt \cup {p}

(* An UpnpError: the next candidate, and a RuntimeError after the last.    *)
AddFails(p) ==
    /\ map = "adds"
    /\ MayAdd(p)
    /\ tries' = tries + 1
    /\ map' = IF tries' < Retries THEN map ELSE "over"
    /\ UNCHANGED port

(* Another exception, or a cancellation.                                   *)
AddInterrupted(p) ==
    /\ map = "adds"
    /\ MayAdd(p)
    /\ map' = "over"
    /\ UNCHANGED <<tries, port>>

(* Mutant: the mapping is removed only when nothing was raised.            *)
LeavesAtOnce == map' \in {"removes", "over"}

(* The body of the context ends, is cancelled or raises: the finally.      *)
LeavesContext == map' = "removes"

Leaves ==
    /\ map = "held"
    /\ LeavesContext
    /\ UNCHANGED <<tries, port, router, doubt>>

Removes ==
    /\ map = "removes"
    /\ router' = [router EXCEPT ![port] = "free"]
    /\ map' = "over"
    /\ UNCHANGED <<tries, port, doubt>>

(* An UpnpError, which is logged, another exception or a cancellation; the *)
(* mapping may be gone.                                                    *)
RemoveFails ==
    /\ map = "removes"
    /\ router' \in {router, [router EXCEPT ![port] = "free"]}
    /\ doubt' = doubt \cup {port}
    /\ map' = "over"
    /\ UNCHANGED <<tries, port>>

(* External: other clients of the router take free ports.                  *)
OtherAdds(p) ==
    /\ router[p] = "free"
    /\ router' = [router EXCEPT ![p] = "foreign"]
    /\ UNCHANGED <<map, tries, port, doubt>>

MapGoesOn ==
    \/ Removes \/ RemoveFails
    \/ \E p \in Ports : Adds(p) \/ AddFails(p) \/ AddInterrupted(p)
=============================================================================
