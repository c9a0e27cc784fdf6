------------------------- MODULE EndpointStreamProofs -------------------------
(***************************************************************************)
(* Theorems about EndpointStream, for a path and a payload of any length.  *)
(* The argument is that the caller and the ADB server stay in step:        *)
(* between a command and its status nothing else is on the wire, and once  *)
(* the last command was accepted the wire holds exactly the units that     *)
(* were sent.  That is what Begin, Dialogue, Reason and Payload say of the *)
(* four places where the caller can wait, and Returned of a stream that    *)
(* open_stream has handed on.                                              *)
(***************************************************************************)
EXTENDS EndpointStream, TLAPS

(* Nothing has happened before connect() returns.                          *)
Begin ==
    call = "connect" =>
        /\ accepted = 0 /\ writer = "none" /\ asked = 0 /\ wire = <<>>
        /\ server = "serves" /\ sent = 0

Quiet == server # "streams" /\ sent = 0

(* The last command was accepted.                                          *)
LastOkay == server \notin {"serves", "fails"}

(* A status is awaited: the server has not answered, or has refused, or    *)
(* has accepted; behind the last OKAY there may be payload.                *)
Dialogue ==
    call = "status" =>
        /\ writer = "open" /\ accepted < Path
        /\ \/ asked = 1 /\ wire = <<>> /\ Quiet
           \/ asked = 0 /\ wire \in {<<"FAIL">>, <<"FAIL", "reason">>, <<"junk">>} /\ Quiet
           \/ /\ asked = 0 /\ wire # <<>> /\ wire[1] = "OKAY"
              /\ accepted + 1 < Path => Len(wire) = 1 /\ Quiet
              /\ accepted + 1 = Path => LastOkay /\ Len(wire) = sent + 1
              /\ \A i \in 2 .. Len(wire) : wire[i] \in Units

Reason ==
    call = "reason" =>
        writer = "open" /\ asked = 0 /\ wire \in {<<>>, <<"reason">>} /\ Quiet

(* A reason that is still to be sent is behind its FAIL.                   *)
Explained ==
    server = "fails" =>
        /\ asked = 0
        /\ call = "status" => wire = <<"FAIL">>
        /\ call = "reason" => wire = <<>>

(* The wire has the payload and nothing but the payload.                   *)
AllPayload ==
    /\ accepted = Path /\ asked = 0 /\ LastOkay
    /\ Len(wire) = sent
    /\ \A i \in 1 .. Len(wire) : wire[i] \in Units

Payload == call = "payload" => AllPayload /\ method # "open_stream"

Returned ==
    outcome = "returned" =>
        /\ call = "over"
        /\ method = "open_stream" => AllPayload
        /\ method # "open_stream" => accepted = Path /\ got = sent /\ server = "ended"

Inv ==
    /\ TypeOK
    /\ Begin /\ Dialogue /\ Reason /\ Explained /\ Payload /\ Returned
    /\ ClosedUnlessCut

-----------------------------------------------------------------------------
LEMMA EmptySeq ==
    ASSUME NEW S
    PROVE  /\ <<>> \in Seq(S)
           /\ \A s \in Seq(S) : Len(s) = 0 => s = <<>>
    OBVIOUS

(* What there is of a FAIL and its reason.                                 *)
LEMMA FailSeqs ==
    /\ Tail(<<"FAIL">>) = <<>> /\ Tail(<<"FAIL", "reason">>) = <<"reason">>
    /\ Append(<<>>, "reason") = <<"reason">>
    /\ Append(<<>>, "FAIL") = <<"FAIL">> /\ Append(<<>>, "junk") = <<"junk">>
    /\ Append(<<"FAIL">>, "reason") = <<"FAIL", "reason">>
<1>1. Tail(<<"FAIL">>) \in Seq({"FAIL"}) /\ Len(Tail(<<"FAIL">>)) = 0
    OBVIOUS
<1>2. Tail(<<"FAIL">>) = <<>>
    BY <1>1, EmptySeq
<1>3. Append(<<>>, "reason") = <<"reason">>
    OBVIOUS
<1>4. Append(<<>>, "FAIL") = <<"FAIL">>
    OBVIOUS
<1>5. Append(<<>>, "junk") = <<"junk">>
    OBVIOUS
<1>6. Append(<<"FAIL">>, "reason") = <<"FAIL", "reason">>
  <2> DEFINE s == Append(<<"FAIL">>, "reason")
  <2>1. s \in Seq({"FAIL", "reason"}) /\ Len(s) = 2 /\ s[1] = "FAIL" /\ s[2] = "reason"
      OBVIOUS
  <2>2. s = [i \in 1 .. 2 |-> s[i]] /\ 1 .. 2 = {1, 2}
      BY <2>1
  <2>3. <<"FAIL", "reason">> = [i \in 1 .. 2 |-> <<"FAIL", "reason">>[i]]
      OBVIOUS
  <2> QED
      BY <2>1, <2>2, <2>3
<1>7. Tail(<<"FAIL", "reason">>) = <<"reason">>
    OBVIOUS
<1> QED
    BY <1>2, <1>3, <1>4, <1>5, <1>6, <1>7

LEMMA InvInit == Init => Inv
<1>1. Init => TypeOK
  <2>1. Init => wire \in Seq({"OKAY", "FAIL", "reason", "junk"} \cup Units)
      BY EmptySeq DEF Init
  <2>2. Init => accepted \in 0 .. Path /\ sent \in 0 .. MaxUnits /\ got \in 0 .. MaxUnits
      BY EndpointAssumption DEF Init
  <2>3. Init => cut \in BOOLEAN
      BY DEF Init
  <2>4. Init => asked \in 0 .. 1
      BY DEF Init
  <2> QED
      BY <2>1, <2>2, <2>3, <2>4 DEF Init, TypeOK
<1>2. Init => Begin /\ Dialogue /\ Reason /\ Explained /\ Payload /\ Returned /\ ClosedUnlessCut
    BY
    DEF Init, Begin, Dialogue, Reason, Explained, Payload, LastOkay, Returned,
        ClosedUnlessCut
<1> QED
    BY <1>1, <1>2 DEF Inv

(* An exception ends the call: its invariants are those of a call that is  *)
(* over and has not returned.                                              *)
LEMMA OverKeeps ==
    ASSUME Inv, NEW how \in {"raised", "wasCancelled"}, Over(how),
           UNCHANGED <<asked, wire, got>>, cut' \in BOOLEAN,
           writer' \in {"none", "open", "closed"}, writer' = "open" => cut'
    PROVE  Inv'
    BY
    DEF Inv, TypeOK, Over, Begin, Dialogue, Reason, Explained, Payload, LastOkay, Returned,
        ClosedUnlessCut

LEMMA InvStep ==
    ASSUME Inv, [Next]_vars
    PROVE  Inv'
<1> USE EndpointAssumption
<1>1. CASE UNCHANGED vars
    BY <1>1
    DEF vars, Inv, TypeOK, Begin, Dialogue, Reason, Explained, Payload, AllPayload,
        LastOkay, Returned, Quiet, ClosedUnlessCut
<1>2. CASE Connects
    BY <1>2
    DEF Connects, Inv, TypeOK, Begin, Dialogue, Reason, Explained, Payload, LastOkay,
        Returned, Quiet, ClosedUnlessCut
<1>3. CASE ConnectRaises
    BY <1>3, OverKeeps DEF ConnectRaises, Inv, TypeOK, Begin
<1>4. CASE Accepted
  <2>1. /\ call = "status" /\ wire # <<>> /\ wire[1] = "OKAY"
        /\ wire' = Tail(wire) /\ accepted' = accepted + 1
      BY <1>4 DEF Accepted, StatusRead, Inv, TypeOK
  <2>2. /\ asked = 0
        /\ accepted + 1 < Path => Len(wire) = 1 /\ Quiet
        /\ accepted + 1 = Path => LastOkay /\ Len(wire) = sent + 1
        /\ \A i \in 2 .. Len(wire) : wire[i] \in Units
      BY <2>1 DEF Inv, Dialogue
  <2>3. wire' \in Seq({"OKAY", "FAIL", "reason", "junk"} \cup Units)
      BY <2>1 DEF Inv, TypeOK
  <2>4. Len(wire') = Len(wire) - 1 /\ \A i \in 1 .. Len(wire') : wire'[i] \in Units
      BY <2>1, <2>2 DEF Inv, TypeOK
  <2>5. CASE accepted + 1 < Path
    <3>3. Len(wire) = 1
        BY <2>2, <2>5
    <3>2. Len(wire') = 0
        BY <2>4, <3>3
    <3>1. wire' = <<>>
        BY <2>3, <3>2, EmptySeq
    <3> QED
        BY <1>4, <2>1, <2>2, <2>5, <3>1
        DEF Accepted, Inv, TypeOK, Begin, Dialogue, Reason, Explained, Payload, LastOkay,
            Returned, Quiet,
            ClosedUnlessCut
  <2>6. CASE accepted + 1 = Path
      BY <1>4, <2>1, <2>2, <2>3, <2>4, <2>6
      DEF Accepted, Inv, TypeOK, Begin, Dialogue, Reason, Explained, Payload,
          AllPayload, LastOkay, Returned,
          Quiet, ClosedUnlessCut
  <2> QED
      BY <2>1, <2>5, <2>6 DEF Inv, TypeOK, Dialogue
<1>5. CASE Refused
  <2>1. /\ wire \in {<<"FAIL">>, <<"FAIL", "reason">>} /\ wire' = Tail(wire)
        /\ Quiet /\ asked = 0 /\ (server = "fails" => wire = <<"FAIL">>)
      BY <1>5 DEF Refused, Inv, TypeOK, Dialogue, Explained
  <2>2. wire' \in {<<>>, <<"reason">>} /\ (server = "fails" => wire' = <<>>)
      BY <2>1, FailSeqs
  <2> QED
      BY <1>5, <2>1, <2>2
      DEF Refused, Inv, TypeOK, Begin, Dialogue, Reason, Explained, Payload, LastOkay,
          Returned, Quiet,
          ClosedUnlessCut
<1>6. CASE DialogueRaises
    BY <1>6, OverKeeps DEF DialogueRaises, RaiseCloses, Inv, TypeOK
<1>7. CASE PayloadRead
    BY <1>7, EmptySeq
    DEF PayloadRead, Over, Inv, TypeOK, Begin, Dialogue, Reason, Explained, Payload,
        AllPayload,
        Returned, ClosedUnlessCut
<1>8. CASE PayloadRaises
    BY <1>8, OverKeeps DEF PayloadRaises, Inv, TypeOK
<1>9. CASE Cancelled
  <2>1. cut' \in BOOLEAN /\ (call \in {"status", "reason"} => cut')
    <3>1. cut' = (call \in {"status", "reason"})
        BY <1>9 DEF Cancelled
    <3>2. CASE call \in {"status", "reason"}
        BY <3>1, <3>2
    <3>3. CASE call \notin {"status", "reason"}
        BY <3>1, <3>3
    <3> QED
        BY <3>2, <3>3
  <2>2. /\ Over("wasCancelled") /\ UNCHANGED <<asked, wire, got>>
        /\ writer' = IF call = "payload" THEN "closed" ELSE writer
        /\ call \in {"connect", "status", "reason", "payload"}
      BY <1>9 DEF Cancelled, Inv, TypeOK
  <2>3. writer' \in {"none", "open", "closed"} /\ (writer' = "open" => cut')
      BY <2>1, <2>2 DEF Inv, TypeOK, Begin
  <2> QED
      BY <2>1, <2>2, <2>3, OverKeeps
<1>10. CASE ServerAnswers
  <2>1. \/ wire' = Append(wire, "OKAY") \/ wire' = Append(wire, "FAIL")
        \/ wire' = Append(wire, "junk")
      BY <1>10 DEF ServerAnswers
  <2>2. TypeOK'
      BY <1>10, <2>1 DEF ServerAnswers, caller, Inv, TypeOK
  <2>3. ASSUME call = "status" PROVE Dialogue'
    <3>1. wire = <<>> /\ Quiet
        BY <1>10, <2>3 DEF ServerAnswers, Inv, Dialogue
    <3> QED
        BY <1>10, <2>1, <2>3, <3>1, FailSeqs
        DEF ServerAnswers, caller, Inv, TypeOK, Dialogue, Quiet, LastOkay
  <2>4. Dialogue'
      BY <1>10, <2>3 DEF ServerAnswers, caller, Dialogue
  <2>5. Explained'
    <3>1. ASSUME call = "status" PROVE wire = <<>>
        BY <1>10, <3>1 DEF ServerAnswers, Inv, Dialogue
    <3>2. call # "reason"
        BY <1>10 DEF ServerAnswers, Inv, Reason
    <3>3. asked' = 0 /\ (server' = "fails" => wire' = Append(wire, "FAIL") \/ server = "fails")
        BY <1>10 DEF ServerAnswers
    <3> QED
        BY <1>10, <3>1, <3>2, <3>3, FailSeqs DEF ServerAnswers, caller, Explained
  <2>6. (Begin /\ Reason /\ Payload /\ Returned /\ ClosedUnlessCut)'
      BY <1>10
      DEF ServerAnswers, caller, Inv, Begin, Reason, Payload, AllPayload, LastOkay, Returned,
          ClosedUnlessCut
  <2> QED
      BY <2>2, <2>4, <2>5, <2>6 DEF Inv
<1>11. CASE ServerSends
  <2>1. PICK u \in Units : wire' = Append(wire, u)
      BY <1>11 DEF ServerSends
  <2>2. /\ Len(wire') = Len(wire) + 1
        /\ \A i \in 1 .. Len(wire) : wire'[i] = wire[i]
        /\ wire'[Len(wire) + 1] = u
      BY <2>1 DEF Inv, TypeOK
  <2>3. TypeOK'
      BY <1>11, <2>1 DEF ServerSends, caller, Inv, TypeOK
  <2>4. AllPayload => AllPayload'
      BY <1>11, <2>2 DEF ServerSends, caller, AllPayload, LastOkay, Inv, TypeOK
  <2>5. Dialogue'
      BY <1>11, <2>2 DEF ServerSends, caller, Inv, TypeOK, Dialogue, Quiet, LastOkay
  <2>6. (Begin /\ Reason /\ Explained /\ Payload /\ Returned /\ ClosedUnlessCut)'
      BY <1>11, <2>4
      DEF ServerSends, caller, Inv, Begin, Reason, Explained, Payload, LastOkay, Returned,
          Quiet, ClosedUnlessCut
  <2> QED
      BY <2>3, <2>5, <2>6 DEF Inv
<1>12. CASE ServerExplains
  <2>1. /\ server = "fails" /\ server' = "serves" /\ wire' = Append(wire, "reason")
        /\ UNCHANGED <<caller, asked, sent>>
      BY <1>12 DEF ServerExplains
  <2>2. TypeOK'
      BY <2>1 DEF caller, Inv, TypeOK
  <2>3. /\ call = "status" => wire' = <<"FAIL", "reason">>
        /\ call = "reason" => wire' = <<"reason">>
      BY <2>1, FailSeqs DEF Inv, Explained
  <2> QED
      BY <2>1, <2>2, <2>3
      DEF caller, Inv, Begin, Dialogue, Reason, Explained, Payload, AllPayload, LastOkay,
          Returned, Quiet, ClosedUnlessCut
<1>13. CASE ServerEnds
    BY <1>13
    DEF ServerEnds, caller, Inv, TypeOK, Begin, Dialogue, Reason, Explained, Payload,
        AllPayload, LastOkay, Returned, Quiet, ClosedUnlessCut
<1> QED
    BY <1>1, <1>2, <1>3, <1>4, <1>5, <1>6, <1>7, <1>8, <1>9, <1>10, <1>11, <1>12, <1>13
    DEF Next, CallerGoesOn

-----------------------------------------------------------------------------
(* The inductive invariant holds in every reachable state.                 *)
THEOREM EndpointInvariant == Spec => []Inv
    BY InvInit, InvStep, PTL DEF Spec

(* The variables of a call always have their types; in particular it never *)
(* reads more units than there can be.                                     *)
THEOREM EndpointTypes == Spec => []TypeOK
<1>1. Inv => TypeOK
    BY DEF Inv
<1> QED
    BY <1>1, EndpointInvariant, PTL

(* What open_stream, read_stream or devices returns is the whole payload   *)
(* of an accepted stream and nothing else (endpoint.py:166-193).           *)
THEOREM ReturnsWholePayload == Spec => []ReturnsAll
<1>1. Inv => ReturnsAll
    BY DEF Inv, TypeOK, Returned, AllPayload, LastOkay, ReturnsAll, ToSet
<1> QED
    BY <1>1, EndpointInvariant, PTL

(* A call leaves a connection open only if it returns it, or was cancelled *)
(* in the middle of the dialogue (endpoint.py:183-193).                    *)
THEOREM LeavesNoConnection == Spec => []ClosedUnlessCut
<1>1. Inv => ClosedUnlessCut
    BY DEF Inv
<1> QED
    BY <1>1, EndpointInvariant, PTL
=============================================================================
