----------------------------- MODULE AdbSession -----------------------------
(***************************************************************************)
(* The proxy between its two peers: the ADB server at the other end of the *)
(* multiplexed connection, and one connection to the device per stream.    *)
(* Neither peer is code of the repository: they are what adb_proxy.py      *)
(* expects of them.  The ADB server names its sockets by RemoteIds and     *)
(* keeps one WRTE per socket unacknowledged.                               *)
(***************************************************************************)
EXTENDS AdbProxy

CONSTANTS
    OpenIds,     \* sockets with which the ADB server opens streams
    ServerMax,   \* largest payload the ADB server announces
    MaxWrites,   \* bound: WRTE commands the ADB server sends per socket
    MaxMade      \* bound: units a device connection produces

ASSUME SessionAssumption ==
    /\ OpenIds \subseteq RemoteIds
    /\ ServerMax \in Nat \ {0}
    /\ MaxWrites \in Nat
    /\ MaxMade \in Nat
    /\ Cardinality(OpenIds) + MaxReverse <= MaxId  \* no OPEN is left unread

(* A socket: st, the local id of its peer at the proxy, whether it may     *)
(* send a WRTE, whether it owes an OKAY for one, and the number it sent.   *)
VARIABLE srv

Sockets == [st : {"idle", "opening", "open", "closed"}, peer : {0} \cup Ids,
            credit : BOOLEAN, owes : BOOLEAN, sent : Nat]

vars == <<proxyVars, srv>>

Idle == [st |-> "idle", peer |-> 0, credit |-> FALSE, owes |-> FALSE, sent |-> 0]

Init == ProxyInit /\ srv = [r \in RemoteIds |-> Idle]

-----------------------------------------------------------------------------
(* The ADB server.                                                         *)
proxySide == <<next_local_id, streams, chan, closes, tasks, go, max_data_len, dev>>

Reply(m) == toProxy' = Append(toProxy, m)

(* The first command of the proxy, m, is handled.                          *)
ServerTakes(cmd) ==
    /\ conn = "up"
    /\ toServer # <<>>
    /\ Head(toServer).cmd = cmd
    /\ toServer' = Tail(toServer)
    /\ UNCHANGED <<proxySide, conn>>

ServerCnxn ==
    /\ ServerTakes("CNXN")
    /\ Reply(Command("CNXN", 0, ServerMax, 0))
    /\ UNCHANGED srv

(* OKAY opens the socket or acknowledges its WRTE; a socket closed in the  *)
(* meantime answers CLSE.                                                  *)
ServerOkay ==
    /\ ServerTakes("OKAY")
    /\ LET m == Head(toServer)
           r == m.arg1
       IN  IF srv[r].st = "closed"
           THEN Reply(Command("CLSE", r, m.arg0, 0)) /\ UNCHANGED srv
           ELSE /\ srv' = [srv EXCEPT ![r].st = "open", ![r].peer = m.arg0,
                                      ![r].credit = TRUE]
                /\ UNCHANGED toProxy

ServerWrte ==
    /\ ServerTakes("WRTE")
    /\ LET r == Head(toServer).arg1 IN
       srv' = IF srv[r].st = "open" THEN [srv EXCEPT ![r].owes = TRUE] ELSE srv
    /\ UNCHANGED toProxy

(* CLSE of an open stream is answered; with local id 0 it refuses an OPEN. *)
ServerClse ==
    /\ ServerTakes("CLSE")
    /\ LET m == Head(toServer)
           r == m.arg1
       IN  /\ srv' = [srv EXCEPT ![r].st = "closed"]
           /\ IF srv[r].st = "open"
              THEN Reply(Command("CLSE", r, m.arg0, 0))
              ELSE UNCHANGED toProxy

(* OPEN by the proxy: a new socket that may write at once, or a refusal.   *)
ServerOpen ==
    /\ ServerTakes("OPEN")
    /\ LET l == Head(toServer).arg0 IN
       \/ \E r \in RemoteIds \ OpenIds :
             /\ srv[r].st = "idle"
             /\ srv' = [srv EXCEPT ![r] = [Idle EXCEPT !.st = "open", !.peer = l,
                                                       !.credit = TRUE]]
             /\ Reply(Command("OKAY", r, l, 0))
       \/ Reply(Command("CLSE", 0, l, 0)) /\ UNCHANGED srv

(* A client of the ADB server opens a stream, writes, reads what arrived,  *)
(* closes.                                                                 *)
Connected == conn = "up" /\ (toProxy # <<>> \/ go # "handshake")

ClientOpens(r) ==
    /\ Connected
    /\ r \in OpenIds
    /\ srv[r].st = "idle"
    /\ srv' = [srv EXCEPT ![r].st = "opening"]
    /\ Reply(Command("OPEN", r, 0, 0))
    /\ UNCHANGED <<proxySide, conn, toServer>>

ClientWrites(r) ==
    /\ conn = "up"
    /\ srv[r].st = "open"
    /\ srv[r].credit
    /\ srv[r].sent < MaxWrites
    /\ srv' = [srv EXCEPT ![r].sent = @ + 1, ![r].credit = FALSE]
    /\ Reply(Command("WRTE", r, srv[r].peer, srv[r].sent + 1))
    /\ UNCHANGED <<proxySide, conn, toServer>>

ClientReads(r) ==
    /\ conn = "up"
    /\ srv[r].st = "open"
    /\ srv[r].owes
    /\ srv' = [srv EXCEPT ![r].owes = FALSE]
    /\ Reply(Command("OKAY", r, srv[r].peer, 0))
    /\ UNCHANGED <<proxySide, conn, toServer>>

ClientCloses(r) ==
    /\ conn = "up"
    /\ srv[r].st \in {"opening", "open"}
    /\ srv' = [srv EXCEPT ![r].st = "closed"]
    /\ IF srv[r].st = "open"
       THEN Reply(Command("CLSE", r, srv[r].peer, 0))
       ELSE UNCHANGED toProxy
    /\ UNCHANGED <<proxySide, conn, toServer>>

(* The connection is lost; what the proxy was sent can still be read.      *)
ServerLost ==
    /\ conn = "up"
    /\ conn' = "lost"
    /\ toServer' = <<>>
    /\ UNCHANGED <<proxySide, toProxy, srv>>

ServerHandles == ServerCnxn \/ ServerOkay \/ ServerWrte \/ ServerClse \/ ServerOpen

ServerNext ==
    \/ ServerHandles \/ ServerLost
    \/ \E r \in RemoteIds : \/ ClientOpens(r) \/ ClientWrites(r)
                            \/ ClientReads(r) \/ ClientCloses(r)

-----------------------------------------------------------------------------
(* The device behind a stream produces data, ends its side, or resets.     *)
DeviceKeeps(l) ==
    /\ dev[l].st = "open"
    /\ UNCHANGED <<next_local_id, streams, chan, closes, tasks, loop, toServer, srv>>

DeviceProduces(l) ==
    /\ DeviceKeeps(l)
    /\ dev[l].made < MaxMade
    /\ dev' = [dev EXCEPT ![l].made = @ + 1]

DeviceEnds(l) ==
    /\ DeviceKeeps(l)
    /\ \E st \in {"eof", "reset"} : dev' = [dev EXCEPT ![l].st = st]

DeviceNext == \E l \in Ids : DeviceProduces(l) \/ DeviceEnds(l)

-----------------------------------------------------------------------------
Next == (ProxyNext /\ UNCHANGED srv) \/ ServerNext \/ DeviceNext

(* An ADB server that is there reads its commands, and its clients read.   *)
Fairness ==
    /\ ProxyFairness
    /\ WF_vars(ServerHandles)
    /\ \A r \in RemoteIds : WF_vars(ClientReads(r))

Spec == Init /\ [][Next]_vars

FairSpec == Spec /\ Fairness

-----------------------------------------------------------------------------
(* Properties.                                                             *)

Count(q, Sel(_)) == Cardinality({i \in DOMAIN q : Sel(q[i])})

(* Every variable has its type.                                            *)
TypeOK ==
    /\ next_local_id \in 1 .. MaxId + 1
    /\ streams \subseteq Ids
    /\ chan \in [Ids -> Channels]
    /\ closes \in [Ids -> Nat]
    /\ tasks \in Seq(Tasks)
    /\ go \in {"handshake", "run", "stop", "aborted", "done", "failed"}
    /\ max_data_len \in Nat
    /\ conn \in {"up", "lost", "closed"}
    /\ toProxy \in Seq(Commands(Nat))
    /\ toServer \in Seq(Commands(Ids))
    /\ dev \in [Ids -> Devices]
    /\ srv \in [RemoteIds -> Sockets]

(* However the end of the device, a failing write, the CLSE of the server  *)
(* and the teardown meet, close() issues at most one CLSE per stream, and  *)
(* none while the stream is registered (adb_proxy.py:118-130).             *)
OneClose ==
    \A l \in Ids : closes[l] <= 1 /\ (l \in streams => closes[l] = 0)

(* A sink runs exactly as long as its stream is registered: no close()     *)
(* leaves one behind that nobody would cancel, none is cancelled early.    *)
NoOrphanSink ==
    \A l \in Ids : l \in streams <=> chan[l].sink \in {"acquire", "read"}

(* The writer to the device is open exactly as long as the stream is       *)
(* registered, whichever of its closers comes first.                       *)
NoOrphanWriter ==
    \A l \in Ids : chan[l].writer = "open" <=> l \in streams

(* One WRTE per OKAY: for each open socket of the server, the permits of   *)
(* its stream, the OKAYs on their way and the WRTEs not acknowledged are   *)
(* one at most (ready_to_send, adb_proxy.py:75, 91-107, 294, 346-352).     *)
Permits(l) ==
    LET r == chan[l].rid IN
       chan[l].ready
       + (IF chan[l].open = "okSent" THEN 1 ELSE 0)
       + (IF chan[l].sink = "read" THEN 1 ELSE 0)
       + Count(tasks, LAMBDA t : t.op = "ready" /\ t.id = l)
       + Count(toProxy, LAMBDA m : m.cmd = "OKAY" /\ m.arg1 = l)
       + Count(toServer, LAMBDA m : m.cmd = "WRTE" /\ m.arg0 = l)
       + (IF r # 0 /\ srv[r].peer = l /\ srv[r].owes THEN 1 ELSE 0)

FlowControl == \A l \in Ids : Permits(l) <= 1

(* What goes out for a stream names the socket of the ADB server that is   *)
(* its peer, also for a stream of the device, whose remote id is 0 until   *)
(* the OKAY (adb_proxy.py:201, 351): nothing overtakes that OKAY.          *)
RightPeer ==
    \A i \in DOMAIN toServer :
        LET m == toServer[i] IN
        m.cmd \in {"WRTE", "CLSE"} /\ m.arg0 # 0 =>
            /\ m.arg1 \in RemoteIds
            /\ srv[m.arg1].st = "open" => srv[m.arg1].peer = m.arg0

(* An OPEN of the ADB server that is not answered is in one place: on its  *)
(* way, a task, or answered by an OKAY or a CLSE on its way back; it is    *)
(* neither lost nor answered twice (open_channel's two sends).             *)
OpenAnsweredOnce ==
    \A r \in RemoteIds : srv[r].st = "opening" /\ conn = "up" =>
        1 = Count(toProxy, LAMBDA m : m.cmd = "OPEN" /\ m.arg0 = r)
            + Count(tasks, LAMBDA t : t.op = "open" /\ chan[t.id].rid = r)
            + Cardinality({l \in Ids : chan[l].open = "connecting" /\ chan[l].rid = r})
            + Count(toServer, LAMBDA m : /\ m.arg1 = r
                                         /\ \/ m.cmd = "OKAY"
                                            \/ m.cmd = "CLSE" /\ m.arg0 = 0)

(* When go() has ended, every stream that its finally found has gone       *)
(* through its close() (adb_proxy.py:369-372).                             *)
CleanTeardown ==
    go \in {"done", "failed"} =>
        \A l \in Ids : chan[l].td # "no" => chan[l].td = "done" /\ l \notin streams

(* A WRTE is sent for a registered stream only, or between the OKAY and    *)
(* the CLSE of an answer: once close() has begun, the sink sends nothing,  *)
(* though it is cancelled later.                                           *)
NoWrteAfterClose ==
    [][\A l \in Ids :
        /\ Len(toServer') > Len(toServer)
        /\ toServer'[Len(toServer')].cmd = "WRTE"
        /\ toServer'[Len(toServer')].arg0 = l
        => l \in streams \/ chan[l].open = "okayAnswer"]_vars

-----------------------------------------------------------------------------
(* The streams that the multiplexer makes of all this.                     *)

Answering(l) == chan[l].open \in {"okayAnswer", "dataAnswer"}

StreamState(l) ==
    CASE l \in streams \/ Answering(l) -> "open"
      [] chan[l].open \in {"none", "connecting"} -> "new"
      [] OTHER -> "over"

(* The socket of the ADB server at the other end; before it knows of its   *)
(* peer, nothing was written.                                              *)
SocketOf(l) ==
    IF \E r \in RemoteIds : srv[r].peer = l
    THEN srv[CHOOSE r \in RemoteIds : srv[r].peer = l]
    ELSE Idle

Acked(s) == IF s.credit \/ s.sent = 0 THEN s.sent ELSE s.sent - 1

Unread(l) ==
    Count(toServer, LAMBDA m : m.cmd = "WRTE" /\ m.arg0 = l)
    + (IF SocketOf(l).owes THEN 1 ELSE 0)

Service == INSTANCE StreamService WITH
    state  <- [l \in Ids |-> StreamState(l)],
    sent   <- [l \in Ids |-> SocketOf(l).sent],
    got    <- [l \in Ids |-> dev[l].got],
    acked  <- [l \in Ids |-> Acked(SocketOf(l))],
    unread <- [l \in Ids |-> Unread(l)]

(* The multiplexer implements StreamService: out of commands, tasks and    *)
(* permits come streams that are opened and closed once, deliver in order, *)
(* and acknowledge no write before the device has it (adb_proxy.py:77-130, *)
(* 258-361).                                                               *)
ImplementsStreams == Service!Spec

-----------------------------------------------------------------------------
(* Liveness, as long as go() runs on its connection.                       *)
Over == conn # "up" \/ go # "run"

(* The close of a socket by the ADB server ends the stream, also when it   *)
(* crosses the open_channel that has not answered yet.                     *)
ServerCloseEndsStream ==
    \A l \in Ids :
        (l \in streams /\ chan[l].rid # 0 /\ srv[chan[l].rid].st = "closed")
            ~> (l \notin streams \/ Over)

(* The end of the device's connection reaches the socket of the server:    *)
(* the sink, which looks only when it holds a permit, gets one.            *)
DeviceEndClosesSocket ==
    \A l \in Ids :
        (l \in streams /\ dev[l].st \in {"eof", "reset"})
            ~> \/ l \notin streams /\ (chan[l].rid # 0 => srv[chan[l].rid].st = "closed")
               \/ Over

(* When the connection is lost go() ends, and so do the close() tasks of   *)
(* its teardown, whatever close() each of them meets.                      *)
LostConnectionEnds ==
    conn = "lost" ~> /\ go \in {"done", "aborted", "failed"}
                     /\ \A l \in Ids : chan[l].td \in {"no", "done"}
=============================================================================
