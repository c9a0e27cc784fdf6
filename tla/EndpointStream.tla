--------------------------- MODULE EndpointStream ---------------------------
(***************************************************************************)
(* One call of Endpoint.open_stream, read_stream or devices (endpoint.py): *)
(* a path of commands, each answered by a status, and then the payload.    *)
(* The ADB server at the other end may refuse a command, answer nonsense,  *)
(* end the connection or lose it, and the caller may be cancelled at every *)
(* await.                                                                  *)
(***************************************************************************)
EXTENDS Naturals, Sequences, SequencesExt

CONSTANTS
    Path,     \* number of commands
    MaxUnits  \* bound: units of payload

ASSUME EndpointAssumption == Path \in Nat \ {0} /\ MaxUnits \in Nat

VARIABLES
    method,    \* the method that was called
    call,      \* what it awaits: the connection, a status, the reason of a
               \* FAIL, the payload; or over
    outcome,   \* how it ended
    accepted,  \* commands it knows to be accepted
    writer,    \* its end of the connection
    asked,     \* the commands that the ADB server has not read
    wire,      \* what it has not read of the ADB server
    server,    \* the other end; "fails": it has the reason of a FAIL to send
    sent,      \* units of payload of the ADB server
    got,       \* units of payload that were read
    cut        \* history: was it cancelled during the dialogue?

vars == <<method, call, outcome, accepted, writer, asked, wire, server, sent, got, cut>>

caller == <<method, call, outcome, accepted, writer, got, cut>>

(* A payload is a list of devices as far as devices() looks into it; a     *)
(* "torn" unit is a line that has no state of a device.                    *)
Units == {"line", "torn"}

TypeOK ==
    /\ method \in {"open_stream", "read_stream", "devices"}
    /\ call \in {"connect", "status", "reason", "payload", "over"}
    /\ outcome \in {"none", "returned", "raised", "wasCancelled"}
    /\ accepted \in 0 .. Path
    /\ writer \in {"none", "open", "closed"}
    /\ asked \in 0 .. 1
    /\ wire \in Seq({"OKAY", "FAIL", "reason", "junk"} \cup Units)
    /\ server \in {"serves", "fails", "streams", "ended", "reset"}
    /\ sent \in 0 .. MaxUnits
    /\ got \in 0 .. MaxUnits
    /\ cut \in BOOLEAN

Init ==
    /\ method \in {"open_stream", "read_stream", "devices"}
    /\ call = "connect" /\ outcome = "none" /\ accepted = 0 /\ writer = "none"
    /\ asked = 0 /\ wire = <<>> /\ server = "serves" /\ sent = 0 /\ got = 0
    /\ cut = FALSE

-----------------------------------------------------------------------------
(* The call is over; whether its writer is closed is said by the caller of *)
(* this operator.                                                          *)
Over(how) ==
    /\ call' = "over"
    /\ outcome' = how
    /\ UNCHANGED <<method, accepted, server, sent>>

(* Mutant: the except of open_stream does not close.                       *)
RaiseKeeps == UNCHANGED writer

(* An exception, not a cancellation, closes the writer.                    *)
RaiseCloses == writer' = "closed"

(* connect(), and the first command is written.                            *)
Connects ==
    /\ call = "connect"
    /\ call' = "status"
    /\ writer' = "open"
    /\ asked' = 1
    /\ UNCHANGED <<method, outcome, accepted, wire, server, sent, got, cut>>

ConnectRaises ==
    /\ call = "connect"
    /\ Over("raised")
    /\ UNCHANGED <<writer, asked, wire, got, cut>>

(* Mutants: the status is taken by a read() of whatever there is, or is    *)
(* only looked at.                                                         *)
AllRead == <<>>

NothingRead == wire

StatusRead == Tail(wire)

(* OKAY: the next command is written, or the stream is open; open_stream   *)
(* returns it.                                                             *)
Accepted ==
    /\ call = "status"
    /\ wire # <<>>
    /\ Head(wire) = "OKAY"
    /\ wire' = StatusRead
    /\ accepted' = accepted + 1
    /\ IF accepted + 1 < Path
       THEN asked' = 1 /\ UNCHANGED <<call, outcome>>
       ELSE /\ call' = IF method = "open_stream" THEN "over" ELSE "payload"
            /\ outcome' = IF method = "open_stream" THEN "returned" ELSE outcome
            /\ UNCHANGED asked
    /\ UNCHANGED <<method, writer, server, sent, got, cut>>

(* FAIL: the reason is read, by its length.                                *)
Refused ==
    /\ call = "status"
    /\ wire # <<>>
    /\ Head(wire) = "FAIL"
    /\ wire' = Tail(wire)
    /\ call' = "reason"
    /\ UNCHANGED <<method, outcome, accepted, writer, asked, server, sent, got, cut>>

(* What cannot go on: the end or the loss of the connection in the middle  *)
(* of a status or a reason, a loss also before what has arrived.  (Mutant: *)
(* an end is taken for a short read.)                                      *)
NotBroken == server = "reset"

Broken == server = "reset" \/ (server = "ended" /\ wire = <<>>)

(* The exceptions of the dialogue: the reason of a FAIL, a status that is  *)
(* neither, a broken connection.                                           *)
DialogueRaises ==
    /\ \/ call \in {"status", "reason"} /\ Broken
       \/ /\ wire # <<>>
          /\ \/ call = "reason" /\ Head(wire) = "reason"
             \/ call = "status" /\ Head(wire) = "junk"
    /\ Over("raised")
    /\ RaiseCloses
    /\ UNCHANGED <<asked, wire, got, cut>>

(* read() returns at the end of the payload, or raises.  devices() raises  *)
(* on a line that it cannot split.  The finally closes.                    *)
PayloadRead ==
    /\ call = "payload"
    /\ server = "ended"
    /\ got' = Len(wire)
    /\ wire' = <<>>
    /\ Over(IF method = "devices" /\ Contains(wire, "torn") THEN "raised" ELSE "returned")
    /\ writer' = "closed"
    /\ UNCHANGED <<asked, cut>>

PayloadRaises ==
    /\ call = "payload"
    /\ server = "reset"
    /\ Over("raised")
    /\ writer' = "closed"
    /\ UNCHANGED <<asked, wire, got, cut>>

(* A cancellation: the except of open_stream is not for it, the finally of *)
(* read_stream is.                                                         *)
Cancelled ==
    /\ call # "over"
    /\ Over("wasCancelled")
    /\ writer' = IF call = "payload" THEN "closed" ELSE writer
    /\ cut' = (call \in {"status", "reason"})
    /\ UNCHANGED <<asked, wire, got>>

-----------------------------------------------------------------------------
(* External: the ADB server.                                               *)
ServerAnswers ==
    /\ server = "serves"
    /\ asked = 1
    /\ asked' = 0
    /\ \/ /\ wire' = Append(wire, "OKAY")
          /\ server' = IF accepted + 1 = Path THEN "streams" ELSE server
       \/ wire' = Append(wire, "FAIL") /\ server' = "fails"
       \/ wire' = Append(wire, "junk") /\ UNCHANGED server
    /\ UNCHANGED <<caller, sent>>

ServerExplains ==
    /\ server = "fails"
    /\ server' = "serves"
    /\ wire' = Append(wire, "reason")
    /\ UNCHANGED <<caller, asked, sent>>

ServerSends ==
    /\ server = "streams"
    /\ sent < MaxUnits
    /\ sent' = sent + 1
    /\ \E u \in Units : wire' = Append(wire, u)
    /\ UNCHANGED <<caller, asked, server>>

(* Its end of the connection is closed, or the connection lost.            *)
ServerEnds ==
    /\ writer # "none"
    /\ server \in {"serves", "fails", "streams"}
    /\ server' \in {"ended", "reset"}
    /\ UNCHANGED <<caller, asked, wire, sent>>

CallerGoesOn ==
    Accepted \/ Refused \/ DialogueRaises \/ PayloadRead \/ PayloadRaises

Next ==
    \/ Connects \/ ConnectRaises \/ CallerGoesOn \/ Cancelled
    \/ ServerAnswers \/ ServerExplains \/ ServerSends \/ ServerEnds

Spec == Init /\ [][Next]_vars

(* The event loop runs the call when it can go on.                         *)
FairSpec == Spec /\ WF_vars(CallerGoesOn)

-----------------------------------------------------------------------------
(* Properties.                                                             *)

(* What is returned is an accepted stream from its first unit on: no part  *)
(* of the dialogue is taken for payload, no payload that came with the     *)
(* last OKAY is lost, and read() stops at the end of the stream only       *)
(* (endpoint.py:166-193).                                                  *)
ReturnsAll ==
    outcome = "returned" =>
        /\ accepted = Path
        /\ IF method = "open_stream"
           THEN Len(wire) = sent /\ ToSet(wire) \subseteq Units
           ELSE got = sent /\ server = "ended"

(* Only a cancellation in the middle of the dialogue leaves the connection *)
(* open, apart from the one that is returned (endpoint.py:183-193).        *)
ClosedUnlessCut ==
    call = "over" /\ writer = "open" =>
        cut \/ (outcome = "returned" /\ method = "open_stream")

(* The end of the connection ends the call, wherever it is.                *)
EndsWithServer ==
    server \in {"ended", "reset"} /\ writer = "open" ~> call = "over"
=============================================================================
