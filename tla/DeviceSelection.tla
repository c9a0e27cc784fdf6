--------------------------- MODULE DeviceSelection ---------------------------
(***************************************************************************)
(* find_devices of aws.py: the ids that the user gave are looked for in    *)
(* the pages of devices that the cloud lists, and become one filter of     *)
(* either devices or instances.                                            *)
(***************************************************************************)
EXTENDS FiniteSets

CONSTANTS
    Ids,  \* what the user may give as an id
    Arns  \* of the devices and instances in the list

VARIABLES
    wanted,     \* device_ids; empty when a device pool is given instead
    listed,     \* history: what was listed
    unmatched,  \* unmatched_ids
    matched,    \* matched_devices and matched_instances
    filter      \* the arns returned; empty before

selection == <<wanted, listed, unmatched, matched, filter>>

(* A device of the public fleet or an instance of a device of another, and *)
(* what it is called: its arn, the end of it, its names.                   *)
Listable == [arn : Arns, kind : {"device", "instance"}, names : SUBSET Ids]

SelectionType ==
    /\ wanted \subseteq Ids
    /\ listed \subseteq Listable
    /\ unmatched \subseteq wanted
    /\ matched \in [{"device", "instance"} -> SUBSET Arns]
    /\ filter \subseteq Arns

SelectionInit ==
    /\ wanted \in SUBSET Ids
    /\ listed = {}
    /\ unmatched = wanted
    /\ matched = [k \in {"device", "instance"} |-> {}]
    /\ filter = {}

(* Mutant: an id that was found is not looked for again.                   *)
MatchesNew(item) == item.names \cap unmatched # {}

Matches(item) == item.names \cap wanted # {}

Lists(item) ==
    /\ filter = {}
    /\ \A other \in listed : other.arn # item.arn
    /\ listed' = listed \cup {item}
    /\ unmatched' = unmatched \ item.names
    /\ matched' = IF Matches(item)
                  THEN [matched EXCEPT ![item.kind] = @ \cup {item.arn}]
                  ELSE matched
    /\ UNCHANGED <<wanted, filter>>

(* After the last page; otherwise a KeyError or a ValueError.              *)
Selects ==
    /\ filter = {}
    /\ unmatched = {}
    /\ matched["device"] = {} \/ matched["instance"] = {}
    /\ filter' = matched["device"] \cup matched["instance"]
    /\ UNCHANGED <<wanted, listed, unmatched, matched>>

Selected == wanted = {} \/ filter # {}

-----------------------------------------------------------------------------
(* Whatever the order and the pages, the filter has everything in the list *)
(* that an id names, every id names something in it, and it is of one kind *)
(* (aws.py:119-161).                                                       *)
FilterIsExact ==
    filter # {} =>
        LET chosen == {item \in listed : item.arn \in filter} IN
        /\ chosen = {item \in listed : item.names \cap wanted # {}}
        /\ \A id \in wanted : \E item \in chosen : id \in item.names
        /\ Cardinality({item.kind : item \in chosen}) = 1
=============================================================================
