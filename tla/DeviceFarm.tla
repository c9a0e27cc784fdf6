----------------------------- MODULE DeviceFarm -----------------------------
(***************************************************************************)
(* run() of aws.py: uploads entered concurrently by gather_contexts of     *)
(* util.py, a run that is scheduled with them on devices of a list or of a *)
(* pool, polled, and stopped; then the uploads are deleted.  A call of the *)
(* client may raise or be cancelled before or after the cloud has done its *)
(* part.                                                                   *)
(***************************************************************************)
EXTENDS Naturals, Sequences, FiniteSets, DeviceSelection

CONSTANT Uploads

ASSUME UploadsAssumption == IsFiniteSet(Uploads)

VARIABLES
    main,     \* run(): enters (awaits gather), schedules, polls, stops (awaits
              \* stop_run), unwinds (the AsyncExitStack), closed
    up,       \* the context manager of each upload; "deletes": in the finally of
              \* its own entry, "exiting": in the one that the stack calls
    stack,    \* the exits pushed on the AsyncExitStack
    cloud,    \* the uploads that exist
    job,      \* the run that was scheduled
    doubt,    \* history: uploads with a failed call, or left behind by gather()
    jobDoubt  \* history: schedule_run or stop_run failed

vars == <<main, up, stack, cloud, job, doubt, jobDoubt, selection>>

TypeOK ==
    /\ main \in {"enters", "schedules", "polls", "stops", "unwinds", "closed"}
    /\ up \in [Uploads -> {"creates", "uploads", "entered", "deletes", "exiting", "over"}]
    /\ stack \in Seq(Uploads) /\ Len(stack) <= Cardinality(Uploads)
    /\ cloud \subseteq Uploads
    /\ job \in {"none", "scheduled", "completed", "stopped"}
    /\ doubt \subseteq Uploads
    /\ jobDoubt \in BOOLEAN
    /\ SelectionType

Init ==
    /\ main = "enters"
    /\ up = [u \in Uploads |-> "creates"]
    /\ stack = <<>>
    /\ cloud = {}
    /\ job = "none"
    /\ doubt = {}
    /\ jobDoubt = FALSE
    /\ SelectionInit

Live == main # "closed"  \* the client is open

-----------------------------------------------------------------------------
(* Entering one upload, a task that gather() made.                         *)

(* create_upload returns, or raises after it had its effect or before.     *)
Creates(u) ==
    /\ Live
    /\ up[u] = "creates"
    /\ up' = [up EXCEPT ![u] = "uploads"]
    /\ cloud' = cloud \cup {u}
    /\ UNCHANGED <<main, stack, job, doubt, jobDoubt, selection>>

CreateFails(u) ==
    /\ Live
    /\ up[u] = "creates"
    /\ up' = [up EXCEPT ![u] = "over"]
    /\ cloud' \in {cloud, cloud \cup {u}}
    /\ doubt' = doubt \cup {u}
    /\ UNCHANGED <<main, stack, job, jobDoubt, selection>>

(* Mutant: the exit is pushed twice.                                       *)
PushedTwice(u) == stack \o <<u, u>>

Pushed(u) == Append(stack, u)

(* The status is SUCCEEDED: the context is entered and its exit pushed,    *)
(* whatever run() does by now.                                             *)
Enters(u) ==
    /\ Live
    /\ up[u] = "uploads"
    /\ up' = [up EXCEPT ![u] = "entered"]
    /\ stack' = Pushed(u)
    /\ UNCHANGED <<main, cloud, job, doubt, jobDoubt, selection>>

(* Mutant: an upload that failed is not deleted.                           *)
FailsAtOnce == "over"

Fails == "deletes"

(* The status is FAILED, or put() or get_upload raises.                    *)
UploadFails(u) ==
    /\ Live
    /\ up[u] = "uploads"
    /\ up' = [up EXCEPT ![u] = Fails]
    /\ UNCHANGED <<main, stack, cloud, job, doubt, jobDoubt, selection>>

(* delete_upload, in the finally, ends; or raises, with or without effect. *)
Deletes(u) ==
    /\ Live
    /\ up[u] \in {"deletes", "exiting"}
    /\ up' = [up EXCEPT ![u] = "over"]
    /\ cloud' = cloud \ {u}
    /\ UNCHANGED <<main, stack, job, doubt, jobDoubt, selection>>

DeleteFails(u) ==
    /\ Live
    /\ up[u] \in {"deletes", "exiting"}
    /\ up' = [up EXCEPT ![u] = "over"]
    /\ cloud' \in {cloud, cloud \ {u}}
    /\ doubt' = doubt \cup {u}
    /\ UNCHANGED <<main, stack, job, jobDoubt, selection>>

(* Without the client every call of a task that is left raises.            *)
Aborts(u) ==
    /\ ~Live
    /\ up[u] \in {"creates", "uploads", "deletes"}
    /\ up' = [up EXCEPT ![u] = "over"]
    /\ UNCHANGED <<main, stack, cloud, job, doubt, jobDoubt, selection>>

-----------------------------------------------------------------------------
(* gather() and the stack around it.                                       *)
Done(u) == up[u] \in {"entered", "over"}

GatherReturns ==
    /\ main = "enters"
    /\ \A u \in Uploads : up[u] = "entered"
    /\ main' = "schedules"
    /\ UNCHANGED <<up, stack, cloud, job, doubt, jobDoubt, selection>>

(* The first exception ends gather(); the tasks that have not ended go on, *)
(* and nobody waits for them.                                              *)
GatherRaises ==
    /\ main = "enters"
    /\ \E u \in Uploads : up[u] = "over"
    /\ main' = "unwinds"
    /\ doubt' = doubt \cup {u \in Uploads : ~Done(u)}
    /\ UNCHANGED <<up, stack, cloud, job, jobDoubt, selection>>

(* run() is cancelled while it waits: gather() passes it on to the tasks   *)
(* that have not ended; a delete under way may or may not have its effect. *)
CancelGather ==
    /\ main = "enters"
    /\ \A u \in Uploads : up[u] # "over"
    /\ up' = [u \in Uploads |-> CASE up[u] = "uploads" -> "deletes"
                                  [] up[u] \in {"creates", "deletes"} -> "over"
                                  [] OTHER -> up[u]]
    /\ \E x \in SUBSET {u \in Uploads : up[u] = "creates"},
          y \in SUBSET {u \in Uploads : up[u] = "deletes"} :
          cloud' = (cloud \cup x) \ y
    /\ doubt' = doubt \cup {u \in Uploads : up[u] \in {"creates", "deletes"}}
    /\ main' = IF \A u \in Uploads : up[u] = "entered" THEN "unwinds" ELSE main
    /\ UNCHANGED <<stack, job, jobDoubt, selection>>

Exiting == \E u \in Uploads : up[u] = "exiting"

(* __aexit__ takes the last exit pushed, also one pushed meanwhile, and    *)
(* goes on when it raises.                                                 *)
ExitBegins ==
    /\ main = "unwinds"
    /\ ~Exiting
    /\ stack # <<>>
    /\ up' = [up EXCEPT ![stack[Len(stack)]] = "exiting"]
    /\ stack' = SubSeq(stack, 1, Len(stack) - 1)
    /\ UNCHANGED <<main, cloud, job, doubt, jobDoubt, selection>>

Unwound ==
    /\ main = "unwinds"
    /\ ~Exiting
    /\ stack = <<>>
    /\ main' = "closed"
    /\ UNCHANGED <<up, stack, cloud, job, doubt, jobDoubt, selection>>

-----------------------------------------------------------------------------
(* The run.                                                                *)

(* With ids, find_devices goes on by one entry of a page, or returns.      *)
FindsDevices ==
    /\ main = "schedules"
    /\ wanted # {}
    /\ Selects \/ \E item \in Listable : Lists(item)
    /\ UNCHANGED <<main, up, stack, cloud, job, doubt, jobDoubt>>

Schedules ==
    /\ main = "schedules"
    /\ Selected
    /\ main' = "polls"
    /\ job' = "scheduled"
    /\ UNCHANGED <<up, stack, cloud, doubt, jobDoubt, selection>>

(* find_devices, find_devicepool_arn or schedule_run raises or is          *)
(* cancelled; the last may have had its effect.                            *)
ScheduleFails ==
    /\ main = "schedules"
    /\ main' = "unwinds"
    /\ \/ Selected /\ job' = "scheduled" /\ jobDoubt' = TRUE
       \/ UNCHANGED <<job, jobDoubt>>
    /\ UNCHANGED <<up, stack, cloud, doubt, selection>>

(* External: the run ends in the cloud.                                    *)
Completes ==
    /\ job = "scheduled"
    /\ job' = "completed"
    /\ UNCHANGED <<main, up, stack, cloud, doubt, jobDoubt, selection>>

(* get_run says COMPLETED; every error of it is retried.                   *)
PollSees ==
    /\ main = "polls"
    /\ job = "completed"
    /\ main' = "stops"
    /\ UNCHANGED <<up, stack, cloud, job, doubt, jobDoubt, selection>>

(* Mutant: a cancellation leaves without stopping the run.                 *)
LeavesTheRun == "unwinds"

StopsTheRun == "stops"

(* A CancelledError ends the loop and is forgotten.                        *)
PollCancelled ==
    /\ main = "polls"
    /\ main' = StopsTheRun
    /\ UNCHANGED <<up, stack, cloud, job, doubt, jobDoubt, selection>>

Stops ==
    /\ main = "stops"
    /\ main' = "unwinds"
    /\ job' = IF job = "scheduled" THEN "stopped" ELSE job
    /\ UNCHANGED <<up, stack, cloud, doubt, jobDoubt, selection>>

StopFails ==
    /\ main = "stops"
    /\ main' = "unwinds"
    /\ jobDoubt' = TRUE
    /\ UNCHANGED <<up, stack, cloud, job, doubt, selection>>

Next ==
    \/ GatherReturns \/ GatherRaises \/ CancelGather \/ ExitBegins \/ Unwound
    \/ FindsDevices \/ Schedules \/ ScheduleFails
    \/ Completes \/ PollSees \/ PollCancelled \/ Stops \/ StopFails
    \/ \E u \in Uploads : \/ Creates(u) \/ CreateFails(u) \/ Enters(u)
                          \/ UploadFails(u) \/ Deletes(u) \/ DeleteFails(u)
                          \/ Aborts(u)

Spec == Init /\ [][Next]_vars

-----------------------------------------------------------------------------
(* Properties.                                                             *)

(* As long as a run may go on, all its uploads exist: it is scheduled with *)
(* all of them and told to stop before the first is deleted, whatever      *)
(* fails or is cancelled, unless it is schedule_run or stop_run itself     *)
(* (aws.py:222-280).                                                       *)
JobHasUploads == job = "scheduled" /\ ~jobDoubt => cloud = Uploads

(* When run() has left, an upload remains only if a call for it failed or  *)
(* was cancelled, or if it was still being entered when gather() raised    *)
(* (util.py:24): every other one was deleted by its own finally or by the  *)
(* stack.                                                                  *)
NothingLeft == main = "closed" => cloud \subseteq doubt
=============================================================================
