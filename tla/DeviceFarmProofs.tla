--------------------------- MODULE DeviceFarmProofs ---------------------------
(***************************************************************************)
(* Theorems about DeviceFarm and the selection of devices, for any set of  *)
(* uploads, ids and arns.  The uploads that exist are followed through the *)
(* context managers: Kept ties the cloud to the place where each upload    *)
(* is, Pushes says that the stack has the exits of exactly those that were *)
(* entered, and Reached what run() knows of all of them.  The filter is    *)
(* exact because matched and unmatched are, of what was listed so far.     *)
(***************************************************************************)
EXTENDS DeviceFarm, FiniteSetTheorems, SequenceTheorems, TLAPS

(* Each entered upload has one exit on the stack, and nothing else has.    *)
Pushes ==
    /\ \A i, j \in 1 .. Len(stack) : stack[i] = stack[j] => i = j
    /\ \A u \in Uploads : up[u] = "entered" <=> \E i \in 1 .. Len(stack) : stack[i] = u

(* An upload exists from its creation to its deletion, and not beyond,     *)
(* unless a call failed.                                                   *)
Kept ==
    \A u \in Uploads :
        /\ up[u] \in {"uploads", "entered"} => u \in cloud
        /\ up[u] = "creates" => u \notin cloud
        /\ up[u] = "over" => u \notin cloud \/ u \in doubt

(* Where run() is tells where the uploads are, except for those that       *)
(* gather() left behind.                                                   *)
Reached ==
    /\ main \in {"schedules", "polls", "stops"} => \A u \in Uploads : up[u] = "entered"
    /\ main = "unwinds" =>
         \A u \in Uploads : up[u] \in {"entered", "exiting", "over"} \/ u \in doubt
    /\ main = "closed" => \A u \in Uploads : up[u] = "over" \/ u \in doubt
    /\ main = "enters" => \A u \in Uploads : up[u] # "exiting"

(* The run is stopped before run() goes on.                                *)
Stopped ==
    /\ main \in {"enters", "schedules"} => job = "none"
    /\ job = "scheduled" /\ ~jobDoubt => main \in {"polls", "stops"}

(* No arn is listed twice; matched has what an id names of what is listed, *)
(* unmatched the ids that name none of it.                                 *)
Found ==
    /\ \A item, other \in listed : item.arn = other.arn => item = other
    /\ \A k \in {"device", "instance"} : \A a \in Arns :
           a \in matched[k] <=>
               \E item \in listed : item.arn = a /\ item.kind = k /\ Matches(item)
    /\ \A id \in wanted \ unmatched : \E item \in listed : id \in item.names

Filtered ==
    filter # {} =>
        /\ unmatched = {}
        /\ matched["device"] = {} \/ matched["instance"] = {}
        /\ filter = matched["device"] \cup matched["instance"]

Inv ==
    /\ TypeOK /\ Pushes /\ Kept /\ Reached /\ Stopped
    /\ Found /\ Filtered

-----------------------------------------------------------------------------
LEMMA NoExits ==
    ASSUME NEW S
    PROVE  <<>> \in Seq(S) /\ Len(<<>>) = 0
    OBVIOUS

(* A stack without repetitions is no longer than there are uploads.        *)
LEMMA StackFits ==
    ASSUME NEW s \in Seq(Uploads), \A i, j \in 1 .. Len(s) : s[i] = s[j] => i = j
    PROVE  Len(s) <= Cardinality(Uploads)
<1>1. IsFiniteSet(Uploads) /\ Len(s) \in Nat
    BY UploadsAssumption
<1>2. Cardinality(1 .. Len(s)) = IF 1 > Len(s) THEN 0 ELSE Len(s) - 1 + 1
    BY <1>1, FS_Interval
<1>3. s \in Injection(1 .. Len(s), Uploads)
    BY DEF Injection, IsInjective
<1> QED
    BY <1>1, <1>2, <1>3, FS_Injection

(* A stack without its last exit.                                          *)
LEMMA Front ==
    ASSUME NEW s \in Seq(Uploads), Len(s) \in Nat \ {0}
    PROVE  /\ SubSeq(s, 1, Len(s) - 1) \in Seq(Uploads)
           /\ Len(SubSeq(s, 1, Len(s) - 1)) = Len(s) - 1
           /\ \A i \in 1 .. Len(s) - 1 : SubSeq(s, 1, Len(s) - 1)[i] = s[i]
<1> DEFINE n == Len(s) - 1
<1> DEFINE front == SubSeq(s, 1, n)
<1>1. n \in Nat /\ \A i \in 1 .. n : s[i] \in Uploads
    OBVIOUS
<1>2. /\ front \in Seq(Uploads)
      /\ Len(front) = IF 1 <= n THEN n - 1 + 1 ELSE 0
      /\ \A i \in 1 .. n - 1 + 1 : front[i] = s[1 + i - 1]
    BY <1>1, SubSeqProperties
<1> HIDE DEF n, front
<1>3. Len(front) = n /\ \A i \in 1 .. n : front[i] = s[i]
    BY <1>1, <1>2
<1> QED
    BY <1>2, <1>3 DEF n, front

LEMMA InvInit == Init => Inv
<1> SUFFICES ASSUME Init PROVE Inv
    OBVIOUS
<1>1. stack \in Seq(Uploads) /\ Len(stack) = 0
    BY NoExits DEF Init
<1>2. Pushes
    BY <1>1 DEF Init, Pushes
<1>3. SelectionType /\ Found /\ Filtered
    BY DEF Init, SelectionInit, SelectionType, Found, Filtered
<1>4. TypeOK
    <2>1. jobDoubt \in BOOLEAN
        BY DEF Init
    <2> QED
        BY <1>1, <1>2, <1>3, <2>1, StackFits DEF Init, TypeOK, Pushes
<1>5. Kept /\ Reached /\ Stopped
    BY DEF Init, Kept, Reached, Stopped
<1> QED
    BY <1>2, <1>3, <1>4, <1>5 DEF Inv

-----------------------------------------------------------------------------
(* The selection.                                                          *)

SelectionInv == SelectionType /\ Found /\ Filtered

LEMMA ListsStep ==
    ASSUME SelectionInv, NEW item \in Listable, Lists(item)
    PROVE  SelectionInv'
<1> USE DEF SelectionInv, SelectionType
<1>1. /\ filter = {} /\ filter' = filter /\ wanted' = wanted
      /\ \A other \in listed : other.arn # item.arn
      /\ listed' = listed \cup {item}
      /\ unmatched' = unmatched \ item.names
    BY DEF Lists
<1>2. item.arn \in Arns /\ item.kind \in {"device", "instance"}
    BY DEF Listable
<1>3. matched' \in [{"device", "instance"} -> SUBSET Arns]
    BY <1>2 DEF Lists
<1>4. \A k \in {"device", "instance"} : \A a \in Arns :
          a \in matched'[k] <=> a \in matched[k] \/ (a = item.arn /\ k = item.kind /\ Matches(item))
    BY <1>2 DEF Lists
<1>5. SelectionType'
    BY <1>1, <1>3
<1>6. Found'
    BY <1>1, <1>4 DEF Found, Matches
<1> QED
    BY <1>1, <1>5, <1>6 DEF Filtered

LEMMA SelectsStep ==
    ASSUME SelectionInv, Selects
    PROVE  SelectionInv'
    BY DEF SelectionInv, SelectionType, Found, Filtered, Selects, Matches

LEMMA SelectionStep ==
    ASSUME SelectionInv, [Next]_vars
    PROVE  SelectionInv'
<1>1. CASE UNCHANGED selection
    BY <1>1 DEF selection, SelectionInv, SelectionType, Found, Filtered, Matches
<1>2. CASE FindsDevices
    BY <1>2, ListsStep, SelectsStep DEF FindsDevices
<1>3. UNCHANGED selection \/ FindsDevices
    BY DEF Next, vars, GatherReturns, GatherRaises, CancelGather, ExitBegins, Unwound,
       Schedules, ScheduleFails, Completes, PollSees, PollCancelled, Stops, StopFails,
       Creates, CreateFails, Enters, UploadFails, Deletes, DeleteFails, Aborts
<1> QED
    BY <1>1, <1>2, <1>3

(* What matched and unmatched have makes the filter what it should be.     *)
LEMMA ExactFilter == SelectionInv => FilterIsExact
<1> SUFFICES ASSUME SelectionInv, filter # {}
             PROVE  LET chosen == {item \in listed : item.arn \in filter} IN
                    /\ chosen = {item \in listed : item.names \cap wanted # {}}
                    /\ \A id \in wanted : \E item \in chosen : id \in item.names
                    /\ Cardinality({item.kind : item \in chosen}) = 1
    BY DEF FilterIsExact
<1> DEFINE chosen == {item \in listed : item.arn \in filter}
<1> USE DEF SelectionInv, SelectionType, Matches
<1>1. \A item \in listed : item.arn \in Arns /\ item.kind \in {"device", "instance"}
    BY DEF Listable
<1>2. PICK k \in {"device", "instance"} : filter = matched[k]
    BY DEF Filtered
<1>3. \A item \in listed : Matches(item) => item.arn \in filter
    BY <1>1 DEF Found, Filtered
<1>4. \A item \in chosen : Matches(item) /\ item.kind = k
    BY <1>1, <1>2 DEF Found
<1>5. chosen = {item \in listed : item.names \cap wanted # {}}
    BY <1>3, <1>4
<1>6. \A id \in wanted : \E item \in chosen : id \in item.names
    <2> SUFFICES ASSUME NEW id \in wanted
                 PROVE  \E item \in chosen : id \in item.names
        OBVIOUS
    <2>1. PICK item \in listed : id \in item.names
        BY DEF Found, Filtered
    <2>2. item \in chosen
        BY <2>1, <1>5
    <2> QED
        BY <2>1, <2>2
<1>7. Cardinality({item.kind : item \in chosen}) = 1
    <2>1. PICK a \in filter : TRUE
        OBVIOUS
    <2>2. \E item \in listed : item.arn = a
        BY <1>2, <2>1 DEF Found
    <2>3. {item.kind : item \in chosen} = {k}
        BY <1>4, <2>2
    <2> QED
        BY <2>3, FS_Singleton
<1> QED
    BY <1>5, <1>6, <1>7

-----------------------------------------------------------------------------
(* The uploads and the run.                                                *)
LEMMA StackStep ==
    ASSUME Inv, [Next]_vars
    PROVE  stack' \in Seq(Uploads) /\ Pushes'
<1> USE DEF Inv, TypeOK, Pushes
<1>1. CASE UNCHANGED <<up, stack>>
    BY <1>1
<1>2. CASE CancelGather
    BY <1>2 DEF CancelGather
<1>3. CASE ExitBegins
    <2> DEFINE n == Len(stack)
    <2>1. n \in Nat \ {0} /\ stack[n] \in Uploads
        BY <1>3, NoExits DEF ExitBegins
    <2>2. /\ stack' \in Seq(Uploads)
          /\ Len(stack') = n - 1
          /\ \A i \in 1 .. n - 1 : stack'[i] = stack[i]
        BY <1>3, <2>1, Front DEF ExitBegins
    <2>3. /\ up' \in [Uploads -> {"creates", "uploads", "entered", "deletes", "exiting", "over"}]
          /\ \A u \in Uploads : up'[u] = IF u = stack[n] THEN "exiting" ELSE up[u]
        BY <1>3, <2>1 DEF ExitBegins
    <2>4. \A u \in Uploads : up'[u] = "entered" <=> \E i \in 1 .. n - 1 : stack[i] = u
        BY <2>1, <2>3
    <2> QED
        BY SMTT(20), <2>1, <2>2, <2>4
<1>4. ASSUME NEW u \in Uploads, Enters(u)
      PROVE  stack' \in Seq(Uploads) /\ Pushes'
    <2> DEFINE n == Len(stack)
    <2>1. n \in Nat
        OBVIOUS
    <2>2. /\ stack' \in Seq(Uploads)
          /\ Len(stack') = n + 1
          /\ stack'[n + 1] = u
          /\ \A i \in 1 .. n : stack'[i] = stack[i]
        BY <1>4 DEF Enters, Pushed
    <2>3. \A i \in 1 .. n : stack[i] # u
        BY <1>4 DEF Enters
    <2>4. \A v \in Uploads : up'[v] = IF v = u THEN "entered" ELSE up[v]
        BY <1>4 DEF Enters
    <2>5. \A i, j \in 1 .. n + 1 : stack'[i] = stack'[j] => i = j
        BY <2>1, <2>2, <2>3
    <2>6. \A v \in Uploads : up'[v] = "entered" <=> \E i \in 1 .. n + 1 : stack'[i] = v
        BY <2>1, <2>2, <2>4
    <2> QED
        BY <2>2, <2>5, <2>6
<1>5. ASSUME NEW u \in Uploads,
             \/ Creates(u) \/ CreateFails(u) \/ UploadFails(u)
             \/ Deletes(u) \/ DeleteFails(u) \/ Aborts(u)
      PROVE  stack' \in Seq(Uploads) /\ Pushes'
    <2>1. /\ stack' = stack
          /\ up[u] # "entered"
          /\ \E s \in {"uploads", "over", "deletes"} : up' = [up EXCEPT ![u] = s]
        BY <1>5 DEF Creates, CreateFails, UploadFails, Fails, Deletes, DeleteFails, Aborts
    <2> QED
        BY <2>1
<1>6. UNCHANGED <<up, stack>> \/ CancelGather \/ ExitBegins
      \/ \E u \in Uploads : \/ Creates(u) \/ CreateFails(u) \/ Enters(u)
                            \/ UploadFails(u) \/ Deletes(u) \/ DeleteFails(u)
                            \/ Aborts(u)
    BY DEF Next, vars, GatherReturns, GatherRaises, Unwound, FindsDevices, Schedules,
       ScheduleFails, Completes, PollSees, PollCancelled, Stops, StopFails
<1> QED
    BY <1>1, <1>2, <1>3, <1>4, <1>5, <1>6

LEMMA TypeStep ==
    ASSUME Inv, [Next]_vars
    PROVE  TypeOK'
<1> DEFINE States == {"creates", "uploads", "entered", "deletes", "exiting", "over"}
<1>1. stack' \in Seq(Uploads) /\ Len(stack') <= Cardinality(Uploads) /\ SelectionType'
    BY StackStep, StackFits, SelectionStep DEF Inv, TypeOK, SelectionInv, Pushes
<1>2. jobDoubt' \in BOOLEAN
    BY DEF Inv, TypeOK, Next, vars, GatherReturns, GatherRaises, CancelGather, ExitBegins,
       Unwound, FindsDevices, Schedules, ScheduleFails, Completes, PollSees, PollCancelled,
       Stops, StopFails, Creates, CreateFails, Enters, UploadFails, Deletes, DeleteFails, Aborts
<1>3. main' \in {"enters", "schedules", "polls", "stops", "unwinds", "closed"}
    BY DEF Inv, TypeOK, Next, vars, GatherReturns, GatherRaises, CancelGather, ExitBegins,
       Unwound, FindsDevices, Schedules, ScheduleFails, Completes, PollSees, PollCancelled,
       StopsTheRun, Stops, StopFails, Creates, CreateFails, Enters, UploadFails, Deletes,
       DeleteFails, Aborts
<1>4. up' \in [Uploads -> States]
    BY DEF Inv, TypeOK, Next, vars, GatherReturns, GatherRaises, CancelGather, ExitBegins,
       Unwound, FindsDevices, Schedules, ScheduleFails, Completes, PollSees, PollCancelled,
       Stops, StopFails, Creates, CreateFails, Enters, UploadFails, Fails, Deletes,
       DeleteFails, Aborts
<1>5. cloud' \subseteq Uploads
    BY DEF Inv, TypeOK, Next, vars, GatherReturns, GatherRaises, CancelGather, ExitBegins,
       Unwound, FindsDevices, Schedules, ScheduleFails, Completes, PollSees, PollCancelled,
       Stops, StopFails, Creates, CreateFails, Enters, UploadFails, Deletes, DeleteFails, Aborts
<1>6. doubt' \subseteq Uploads
    BY DEF Inv, TypeOK, Next, vars, GatherReturns, GatherRaises, CancelGather, ExitBegins,
       Unwound, FindsDevices, Schedules, ScheduleFails, Completes, PollSees, PollCancelled,
       Stops, StopFails, Creates, CreateFails, Enters, UploadFails, Deletes, DeleteFails, Aborts
<1>7. job' \in {"none", "scheduled", "completed", "stopped"}
    BY DEF Inv, TypeOK, Next, vars, GatherReturns, GatherRaises, CancelGather, ExitBegins,
       Unwound, FindsDevices, Schedules, ScheduleFails, Completes, PollSees, PollCancelled,
       Stops, StopFails, Creates, CreateFails, Enters, UploadFails, Deletes, DeleteFails, Aborts
<1> QED
    BY <1>1, <1>2, <1>3, <1>4, <1>5, <1>6, <1>7 DEF TypeOK

(* What happens to one upload leaves the others, and run(), as they are.   *)
LEMMA UploadStep ==
    ASSUME Inv, NEW u \in Uploads,
           \/ Creates(u) \/ CreateFails(u) \/ Enters(u) \/ UploadFails(u)
           \/ Deletes(u) \/ DeleteFails(u) \/ Aborts(u)
    PROVE  (Kept /\ Reached /\ Stopped)'
<1> USE DEF Inv, TypeOK, Kept, Reached, Stopped, Live
<1>1. CASE Creates(u)
    BY <1>1 DEF Creates
<1>2. CASE CreateFails(u)
    BY <1>2 DEF CreateFails
<1>3. CASE Enters(u)
    BY <1>3 DEF Enters
<1>4. CASE UploadFails(u)
    BY <1>4 DEF UploadFails, Fails
<1>5. CASE Deletes(u)
    BY <1>5 DEF Deletes
<1>6. CASE DeleteFails(u)
    BY <1>6 DEF DeleteFails
<1>7. CASE Aborts(u)
    BY <1>7 DEF Aborts
<1> QED
    BY <1>1, <1>2, <1>3, <1>4, <1>5, <1>6, <1>7

LEMMA RunStep ==
    ASSUME Inv, [Next]_vars
    PROVE  (Kept /\ Reached /\ Stopped)'
<1> USE DEF Inv, TypeOK, Kept, Reached, Stopped
<1>1. CASE UNCHANGED vars
    BY <1>1 DEF vars
<1>2. CASE GatherReturns
    BY <1>2 DEF GatherReturns
<1>3. CASE GatherRaises
    BY <1>3 DEF GatherRaises, Done
<1>4. CASE CancelGather
    BY <1>4 DEF CancelGather
<1>5. CASE ExitBegins
    <2>1. Len(stack) \in Nat \ {0} /\ stack[Len(stack)] \in Uploads
        BY <1>5, NoExits DEF ExitBegins
    <2>2. up[stack[Len(stack)]] = "entered"
        BY <2>1 DEF Pushes
    <2> QED
        BY <1>5, <2>1, <2>2 DEF ExitBegins
<1>6. CASE Unwound
    <2>1. \A u \in Uploads : up[u] # "entered"
        BY <1>6 DEF Unwound, Pushes
    <2> QED
        BY <1>6, <2>1 DEF Unwound, Exiting
<1>7. CASE FindsDevices
    BY <1>7 DEF FindsDevices
<1>8. CASE Schedules
    BY <1>8 DEF Schedules
<1>9. CASE ScheduleFails
    BY <1>9 DEF ScheduleFails
<1>10. CASE Completes
    BY <1>10 DEF Completes
<1>11. CASE PollSees
    BY <1>11 DEF PollSees
<1>12. CASE PollCancelled
    BY <1>12 DEF PollCancelled, StopsTheRun
<1>13. CASE Stops
    BY <1>13 DEF Stops
<1>14. CASE StopFails
    BY <1>14 DEF StopFails
<1>15. ASSUME NEW u \in Uploads,
              \/ Creates(u) \/ CreateFails(u) \/ Enters(u) \/ UploadFails(u)
              \/ Deletes(u) \/ DeleteFails(u) \/ Aborts(u)
       PROVE  (Kept /\ Reached /\ Stopped)'
    BY <1>15, UploadStep
<1> QED
    BY <1>1, <1>2, <1>3, <1>4, <1>5, <1>6, <1>7, <1>8, <1>9, <1>10, <1>11, <1>12, <1>13,
       <1>14, <1>15 DEF Next

-----------------------------------------------------------------------------
(* The inductive invariant holds in every reachable state.                 *)
THEOREM FarmInvariant == Spec => []Inv
<1>1. Inv /\ [Next]_vars => Inv'
    BY TypeStep, StackStep, RunStep, SelectionStep DEF Inv, TypeOK, SelectionInv
<1> QED
    BY <1>1, InvInit, PTL DEF Spec

(* The variables always have their types, and the stack never has more     *)
(* exits than there are uploads (aws.py:222-280, util.py:17-29).           *)
THEOREM FarmTypes == Spec => []TypeOK
<1>1. Inv => TypeOK
    BY DEF Inv
<1> QED
    BY <1>1, FarmInvariant, PTL

(* A run that may go on has all its uploads: it is stopped before the      *)
(* first of them is deleted (aws.py:222-280).                              *)
THEOREM RunHasItsUploads == Spec => []JobHasUploads
<1>1. Inv => JobHasUploads
    BY DEF Inv, TypeOK, Kept, Reached, Stopped, JobHasUploads
<1> QED
    BY <1>1, FarmInvariant, PTL

(* Once run() has left, only uploads remain that a failed call, or         *)
(* gather(), left behind (aws.py:163-280, util.py:24).                     *)
THEOREM NoUploadLeft == Spec => []NothingLeft
<1>1. Inv => NothingLeft
    BY DEF Inv, TypeOK, Kept, Reached, NothingLeft
<1> QED
    BY <1>1, FarmInvariant, PTL

(* The devices that run() schedules on are exactly those that the ids      *)
(* name, of one kind, and each id names one (aws.py:119-161).              *)
THEOREM SelectionIsExact == Spec => []FilterIsExact
<1>1. Inv => FilterIsExact
    BY ExactFilter DEF Inv, TypeOK, SelectionInv
<1> QED
    BY <1>1, FarmInvariant, PTL
=============================================================================
