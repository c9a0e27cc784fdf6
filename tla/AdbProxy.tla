------------------------------ MODULE AdbProxy ------------------------------
(***************************************************************************)
(* The multiplexer at the heart of adbproxy: class AdbProxy (go, recv_cmd, *)
(* send_cmd, open_channel) and class AdbProxyChannel (write, ready, sink,  *)
(* close) of adbproxy/adb_proxy.py.                                        *)
(*                                                                         *)
(* The program is one asyncio event loop.  An action is what one task does *)
(* between two awaits that may suspend it.  Tasks that the reading loop    *)
(* creates start in the order of their creation (the FIFO `tasks'); a      *)
(* suspended task may resume at any later time.                            *)
(***************************************************************************)
EXTENDS Naturals, Sequences, FiniteSets

CONSTANTS
    MaxId,       \* bound: number of local stream ids a behaviour may use
    RemoteIds,   \* ids of the sockets of the ADB server
    ProxyMax,    \* largest payload the proxy announces in its CNXN
    MaxReverse,  \* bound: number of connections accepted from the device
    WaitTakesCoroutines
        \* does asyncio.wait() take bare coroutines?  Yes before Python 3.11;
        \* from 3.11 on it raises TypeError

ASSUME ProxyAssumption ==
    /\ MaxId \in Nat
    /\ RemoteIds \subseteq Nat \ {0}
    /\ ProxyMax \in Nat \ {0}
    /\ MaxReverse \in Nat
    /\ WaitTakesCoroutines \in BOOLEAN

Ids == 1 .. MaxId

VARIABLES
    next_local_id,  \* AdbProxy.next_local_id
    streams,        \* the keys of the dict AdbProxy.streams
    chan,           \* what belongs to one local id: tasks, AdbProxyChannel
    closes,         \* history: CLSE commands issued with this local id
    tasks,          \* created tasks that have not started, oldest first
    go,             \* where the task of AdbProxy.go() is
    max_data_len,   \* AdbProxy.max_data_len
    conn,           \* the TCP connection with the ADB server
    toProxy,        \* commands of the ADB server not yet read
    toServer,       \* commands of the proxy not yet read by the ADB server
    dev             \* the connection to the device behind each stream

loop == <<go, max_data_len, conn, toProxy>>   \* no task but go() writes these

proxyVars == <<next_local_id, streams, chan, closes, tasks, loop, toServer, dev>>

-----------------------------------------------------------------------------
(* Commands of the ADB protocol; data stands for the payload: the number   *)
(* of units a WRTE of the proxy carries, the position of a WRTE of the     *)
(* ADB server among those of its socket.                                   *)
Command(cmd, arg0, arg1, data) ==
    [cmd |-> cmd, arg0 |-> arg0, arg1 |-> arg1, data |-> data]

Commands(ids) == [cmd : {"CNXN", "OPEN", "OKAY", "WRTE", "CLSE"},
                  arg0 : {0} \cup ids, arg1 : Nat, data : Nat]

Tasks == [op : {"open", "close", "ready", "write"}, id : Ids, data : Nat]

(* One local id:                                                           *)
(*   open    the open_channel task: it waits for the endpoint, has sent    *)
(*           the OKAY of a stream, or that of the answer to a reverse:     *)
(*           request, or the data of that answer; "accepted" for a stream  *)
(*           of the device, which has no such task                         *)
(*   sink    the sink task of the channel                                  *)
(*   ready   the semaphore ready_to_send                                   *)
(*   rid     remote_id                                                     *)
(*   writer  the writer of the connection to the device                    *)
(*   closer  the task that waits in close() for the sink to end            *)
(*   drain   is a write() task suspended in drain()?                       *)
(*   td      the close() coroutine that the teardown makes                 *)
Channels ==
    [open : {"none", "connecting", "okSent", "okayAnswer", "dataAnswer", "accepted",
             "ended"},
     sink : {"none", "acquire", "read", "cancel", "done"},
     ready : Nat,
     rid : Nat,
     writer : {"none", "open", "closed"},
     closer : {"none", "server", "write", "teardown"},
     drain : BOOLEAN,
     td : {"no", "queued", "running", "done"}]

Unused == [open |-> "none", sink |-> "none", ready |-> 0, rid |-> 0,
           writer |-> "none", closer |-> "none", drain |-> FALSE, td |-> "no"]

(* The device side of one stream: st, the units it produced and the proxy  *)
(* read, and the last WRTE of the ADB server handed to it.                 *)
Devices == [st : {"none", "open", "eof", "reset"},
            made : Nat, read : Nat, got : Nat]

NoDevice == [st |-> "none", made |-> 0, read |-> 0, got |-> 0]

(* go() has sent its CNXN and waits for that of the ADB server.            *)
ProxyInit ==
    /\ next_local_id = 1
    /\ streams = {}
    /\ chan = [l \in Ids |-> Unused]
    /\ closes = [l \in Ids |-> 0]
    /\ tasks = <<>>
    /\ go = "handshake"
    /\ max_data_len = ProxyMax
    /\ conn = "up"
    /\ toProxy = <<>>
    /\ toServer = <<Command("CNXN", 0, ProxyMax, 0)>>
    /\ dev = [l \in Ids |-> NoDevice]

-----------------------------------------------------------------------------
(* send_cmd: the two write() calls are one step.  On a connection that is  *)
(* not up nothing is sent; drain() may then raise (SendRaises) or not.     *)
Send(m) == toServer' = IF conn = "up" THEN Append(toServer, m) ELSE toServer

SendRaises == conn # "up"

(* Sending CLSE from close(), with the history of it.                      *)
SendClse(l) ==
    /\ closes' = [closes EXCEPT ![l] = @ + 1]
    /\ Send(Command("CLSE", l, chan[l].rid, 0))

Spawn(op, l, data) == tasks' = Append(tasks, [op |-> op, id |-> l, data |-> data])

(* The first command in the buffer is read by the loop of go().            *)
Recv(cmd) ==
    /\ toProxy # <<>>
    /\ Head(toProxy).cmd = cmd
    /\ toProxy' = Tail(toProxy)

(* A task starts: the event loop takes the oldest one.                     *)
Start(op, l) ==
    /\ tasks # <<>>
    /\ Head(tasks).op = op
    /\ Head(tasks).id = l
    /\ tasks' = Tail(tasks)

(* Mutants: close() forgets to cancel the sink; close() forgets the writer.*)
EnterCloseKeepsSink(c, registered, who) == [c EXCEPT !.writer = "closed"]

EnterCloseKeepsWriter(c, registered, who) ==
    IF registered THEN [c EXCEPT !.sink = "cancel", !.closer = who] ELSE c

(* Channel.close() entered by a task other than the sink: whoever finds    *)
(* the id in streams deletes it, closes the writer, cancels the sink and   *)
(* waits for it; a later caller only closes the writer.                    *)
EnterClose(c, registered, who) ==
    IF registered
    THEN [c EXCEPT !.writer = "closed", !.sink = "cancel", !.closer = who]
    ELSE [c EXCEPT !.writer = "closed"]

(* Mutant: close() leaves the stream in the dict.                          *)
SinkClosesKeeps(l) ==
    /\ chan' = [chan EXCEPT ![l].writer = "closed", ![l].sink = "done"]
    /\ IF l \in streams THEN SendClse(l) ELSE UNCHANGED <<closes, toServer>>
    /\ UNCHANGED streams

(* Channel.close() entered by the sink itself: it does not wait.           *)
SinkCloses(l) ==
    /\ streams' = streams \ {l}
    /\ chan' = [chan EXCEPT ![l].writer = "closed", ![l].sink = "done"]
    /\ IF l \in streams THEN SendClse(l) ELSE UNCHANGED <<closes, toServer>>

(* AdbProxyChannel.__init__ and its registration under the local id.       *)
Register(l, c) ==
    /\ streams' = streams \cup {l}
    /\ chan' = [chan EXCEPT ![l] = [c EXCEPT !.sink = "acquire", !.writer = "open"]]
    /\ dev' = [dev EXCEPT ![l].st = "open"]

-----------------------------------------------------------------------------
(* The loop of go(): reading and dispatching commands.                     *)

untouched == <<streams, closes, conn, toServer, dev>>

(* Whatever comes before the CNXN of the ADB server is dropped; the CNXN   *)
(* lowers max_data_len.                                                    *)
RecvHandshake ==
    /\ go = "handshake"
    /\ toProxy # <<>>
    /\ toProxy' = Tail(toProxy)
    /\ LET m == Head(toProxy) IN
       IF m.cmd = "CNXN"
       THEN /\ go' = "run"
            /\ max_data_len' = IF m.arg1 < max_data_len THEN m.arg1 ELSE max_data_len
       ELSE UNCHANGED <<go, max_data_len>>
    /\ UNCHANGED <<untouched, next_local_id, chan, tasks>>

(* OPEN: a local id is taken and open_channel becomes a task.              *)
RecvOpen ==
    /\ go = "run"
    /\ Recv("OPEN")
    /\ next_local_id <= MaxId
    /\ next_local_id' = next_local_id + 1
    /\ chan' = [chan EXCEPT ![next_local_id].rid = Head(toProxy).arg0]
    /\ Spawn("open", next_local_id, 0)
    /\ UNCHANGED <<untouched, go, max_data_len>>

(* Mutant: the stream is looked up by the id of the ADB server.            *)
TargetSwapped(m) == m.arg0

(* The local id under which CLSE, OKAY and WRTE look for a stream.         *)
Target(m) == m.arg1

(* CLSE, OKAY and WRTE: the stream is looked up now, its method runs as a  *)
(* task later; nothing happens for an id that is not registered.           *)
RecvClse ==
    /\ go = "run"
    /\ Recv("CLSE")
    /\ LET l == Target(Head(toProxy)) IN
       IF l \in streams THEN Spawn("close", l, 0) ELSE UNCHANGED tasks
    /\ UNCHANGED <<untouched, next_local_id, chan, go, max_data_len>>

(* Mutant: the remote id that comes with OKAY is dropped.                  *)
RidKept(l, m) == chan[l].rid

RidTaken(l, m) == m.arg0

RecvOkay ==
    /\ go = "run"
    /\ Recv("OKAY")
    /\ LET l == Target(Head(toProxy)) IN
       IF l \in streams
       THEN /\ chan' = [chan EXCEPT ![l].rid = RidTaken(l, Head(toProxy))]
            /\ Spawn("ready", l, 0)
       ELSE UNCHANGED <<chan, tasks>>
    /\ UNCHANGED <<untouched, next_local_id, go, max_data_len>>

RecvWrte ==
    /\ go = "run"
    /\ Recv("WRTE")
    /\ LET l == Target(Head(toProxy)) IN
       IF l \in streams THEN Spawn("write", l, Head(toProxy).data) ELSE UNCHANGED tasks
    /\ UNCHANGED <<untouched, next_local_id, chan, go, max_data_len>>

-----------------------------------------------------------------------------
(* The tasks that the loop created, each up to its first suspension.       *)

(* open_channel asks the endpoint for the stream and waits.                *)
StartOpen(l) ==
    /\ Start("open", l)
    /\ chan' = [chan EXCEPT ![l].open = "connecting"]
    /\ UNCHANGED <<next_local_id, streams, closes, loop, toServer, dev>>

StartReady(l) ==
    /\ Start("ready", l)
    /\ chan' = [chan EXCEPT ![l].ready = @ + 1]
    /\ UNCHANGED <<next_local_id, streams, closes, loop, toServer, dev>>

(* close(send_close_cmd=False): the ADB server has closed the stream.      *)
StartClose(l) ==
    /\ Start("close", l)
    /\ streams' = streams \ {l}
    /\ chan' = [chan EXCEPT ![l] = EnterClose(@, l \in streams, "server")]
    /\ UNCHANGED <<next_local_id, closes, loop, toServer, dev>>

(* write(): the data goes to the device unless that connection is over;    *)
(* then drain() returns, waits or raises.                                  *)
Writable(l) == chan[l].writer = "open" /\ dev[l].st # "reset"

HandOver(l, d) == dev' = IF Writable(l) THEN [dev EXCEPT ![l].got = d] ELSE dev

(* Mutant: acknowledged though the write raised.                           *)
WriteAcksAlways(l) ==
    /\ Send(Command("OKAY", l, chan[l].rid, 0))
    /\ UNCHANGED <<streams, closes>>

WriteAcks(l) ==
    /\ Writable(l) \/ chan[l].writer = "closed"
    /\ Send(Command("OKAY", l, chan[l].rid, 0))
    /\ UNCHANGED <<streams, closes>>

(* Any exception of write(), that of send_cmd included, closes the stream. *)
WriteRaises(l, c) ==
    /\ ~Writable(l) \/ dev[l].st = "eof" \/ SendRaises
    /\ streams' = streams \ {l}
    /\ chan' = [chan EXCEPT ![l] = EnterClose(c, l \in streams, "write")]
    /\ UNCHANGED <<closes, toServer>>

StartWrite(l) ==
    /\ Start("write", l)
    /\ HandOver(l, Head(tasks).data)
    /\ \/ WriteAcks(l) /\ UNCHANGED chan
       \/ /\ Writable(l)
          /\ chan' = [chan EXCEPT ![l].drain = TRUE]
          /\ UNCHANGED <<streams, closes, toServer>>
       \/ WriteRaises(l, chan[l])
    /\ UNCHANGED <<next_local_id, loop>>

(* A write() that waited in drain() goes on.                               *)
WriteDrained(l) ==
    /\ chan[l].drain
    /\ \/ WriteAcks(l) /\ chan' = [chan EXCEPT ![l].drain = FALSE]
       \/ WriteRaises(l, [chan[l] EXCEPT !.drain = FALSE])
    /\ UNCHANGED <<next_local_id, tasks, loop, dev>>

-----------------------------------------------------------------------------
(* open_channel after the endpoint answered.                               *)

(* The stream is registered, the ADB server told, and ready() comes after  *)
(* the drain().                                                            *)
OpenSucceeds(l) ==
    /\ chan[l].open = "connecting"
    /\ Register(l, [chan[l] EXCEPT !.open = "okSent"])
    /\ Send(Command("OKAY", l, chan[l].rid, 0))
    /\ UNCHANGED <<next_local_id, closes, tasks, loop>>

(* Mutant: the first permit is forgotten.                                  *)
NoFirstPermit(n) == n

FirstPermit(n) == n + 1

OpenReady(l) ==
    /\ chan[l].open = "okSent"
    /\ chan' = [chan EXCEPT ![l].open = "ended", ![l].ready = FirstPermit(@)]
    /\ UNCHANGED <<next_local_id, streams, closes, tasks, loop, toServer, dev>>

(* send_cmd raised: the registered stream stays, and never gets ready().   *)
OpenUnannounced(l) ==
    /\ chan[l].open = "okSent"
    /\ SendRaises
    /\ chan' = [chan EXCEPT ![l].open = "ended"]
    /\ UNCHANGED <<next_local_id, streams, closes, tasks, loop, toServer, dev>>

(* Mutant: the failure is not reported.                                    *)
ReportsNothing(l) == UNCHANGED toServer

(* The except of open_channel: CLSE with local id 0.                       *)
ReportsFailure(l) == Send(Command("CLSE", 0, chan[l].rid, 0))

(* The endpoint raised: there is no stream.                                *)
OpenFails(l) ==
    /\ chan[l].open = "connecting"
    /\ chan' = [chan EXCEPT ![l].open = "ended"]
    /\ ReportsFailure(l)
    /\ UNCHANGED <<next_local_id, streams, closes, tasks, loop, dev>>

(* A reverse: request has no stream.  When its work is done, its answer is *)
(* an OKAY, a WRTE and a CLSE, each after the drain() of the one before.   *)
AnswerBegins(l) ==
    /\ chan[l].open = "connecting"
    /\ chan' = [chan EXCEPT ![l].open = "okayAnswer"]
    /\ Send(Command("OKAY", l, chan[l].rid, 0))
    /\ UNCHANGED <<next_local_id, streams, closes, tasks, loop, dev>>

AnswerData(l) ==
    /\ chan[l].open = "okayAnswer"
    /\ chan' = [chan EXCEPT ![l].open = "dataAnswer"]
    /\ Send(Command("WRTE", l, chan[l].rid, 1))
    /\ UNCHANGED <<next_local_id, streams, closes, tasks, loop, dev>>

AnswerEnds(l) ==
    /\ chan[l].open = "dataAnswer"
    /\ chan' = [chan EXCEPT ![l].open = "ended"]
    /\ SendClse(l)
    /\ UNCHANGED <<next_local_id, streams, tasks, loop, dev>>

(* A send_cmd of the answer raised.                                        *)
AnswerRaises(l) ==
    /\ chan[l].open \in {"okayAnswer", "dataAnswer"}
    /\ SendRaises
    /\ chan' = [chan EXCEPT ![l].open = "ended"]
    /\ ReportsFailure(l)
    /\ UNCHANGED <<next_local_id, streams, closes, tasks, loop, dev>>

(* on_connected of a reverse tunnel: the device connects to the listener.  *)
Accepted == {l \in Ids : chan[l].open = "accepted"}

ReverseAccept ==
    /\ go # "handshake"
    /\ next_local_id <= MaxId
    /\ Cardinality(Accepted) < MaxReverse
    /\ next_local_id' = next_local_id + 1
    /\ Register(next_local_id, [Unused EXCEPT !.open = "accepted"])
    /\ Send(Command("OPEN", next_local_id, 0, 0))
    /\ UNCHANGED <<closes, tasks, loop>>

-----------------------------------------------------------------------------
(* sink(): from the device to the ADB server.                              *)

(* Mutant: the sink does not wait for a permit.                            *)
PermittedAlways(l) == TRUE

Permitted(l) == chan[l].ready > 0

SinkAcquire(l) ==
    /\ chan[l].sink = "acquire"
    /\ Permitted(l)
    /\ chan' = [chan EXCEPT ![l].sink = "read", ![l].ready = @ - 1]
    /\ UNCHANGED <<next_local_id, streams, closes, tasks, loop, toServer, dev>>

(* Mutant: after a WRTE the sink reads on with the same permit.            *)
ReadsOn == "read"

AfterChunk == "acquire"

(* reader.read(max_data_len) returns what there is, at most max_data_len.  *)
SinkReads(l) ==
    /\ chan[l].sink = "read"
    /\ dev[l].st \in {"open", "eof"}
    /\ \E n \in 1 .. max_data_len :
        /\ n <= dev[l].made - dev[l].read
        /\ dev' = [dev EXCEPT ![l].read = @ + n]
        /\ Send(Command("WRTE", l, chan[l].rid, n))
    /\ chan' = [chan EXCEPT ![l].sink = AfterChunk]
    /\ UNCHANGED <<next_local_id, streams, closes, tasks, loop>>

(* The send_cmd of a chunk raises at once or, suspended in its drain(),    *)
(* later.                                                                  *)
SinkSendRaises(l) ==
    /\ SendRaises
    /\ \/ /\ chan[l].sink = "read"
          /\ dev[l].st \in {"open", "eof"}
          /\ dev[l].read < dev[l].made
       \/ chan[l].sink = "acquire" /\ dev[l].read > 0

(* End of file, a reset, or a send_cmd that raises.                        *)
SinkEnds(l) ==
    /\ \/ /\ chan[l].sink = "read"
          /\ \/ dev[l].st = "reset"
             \/ dev[l].st = "eof" /\ dev[l].read = dev[l].made
       \/ SinkSendRaises(l)
    /\ SinkCloses(l)
    /\ UNCHANGED <<next_local_id, tasks, loop, dev>>

(* The CancelledError is swallowed; the finally closes once more.          *)
SinkCancelled(l) ==
    /\ chan[l].sink = "cancel"
    /\ SinkCloses(l)
    /\ UNCHANGED <<next_local_id, tasks, loop, dev>>

(* Who waited in close() for the sink goes on: only the close() of write() *)
(* tells the ADB server.                                                   *)
CloserResumes(l) ==
    /\ chan[l].closer # "none"
    /\ chan[l].sink = "done"
    /\ IF chan[l].closer = "write" THEN SendClse(l) ELSE UNCHANGED <<closes, toServer>>
    /\ chan' = [chan EXCEPT ![l].closer = "none",
                            ![l].td = IF chan[l].closer = "teardown" THEN "done" ELSE @]
    /\ UNCHANGED <<next_local_id, streams, tasks, loop, dev>>

-----------------------------------------------------------------------------
(* The finally of go().                                                    *)

(* recv_cmd raises or the task is cancelled.  One close() per registered   *)
(* stream is made and given to asyncio.wait(), which may raise TypeError.  *)
GoStops ==
    /\ go \in {"handshake", "run"}
    /\ IF streams = {}
       THEN go' = "done" /\ conn' = "closed" /\ UNCHANGED chan
       ELSE /\ go' = IF WaitTakesCoroutines THEN "stop" ELSE "failed"
            /\ chan' = [l \in Ids |-> IF l \in streams
                                       THEN [chan[l] EXCEPT !.td = "queued"]
                                       ELSE chan[l]]
            /\ UNCHANGED conn
    /\ UNCHANGED <<next_local_id, streams, closes, tasks, max_data_len, toProxy,
                   toServer, dev>>

(* Mutant: a close() that finds the stream gone waits, and is not told.    *)
TeardownWaitsAlways(l) == "running"

(* A close() that finds the stream gone does not wait for its sink.        *)
TeardownWaits(l) == IF l \in streams THEN "running" ELSE "done"

(* These tasks are younger than every other that has not started.          *)
TeardownClose(l) ==
    /\ go # "failed"
    /\ tasks = <<>>
    /\ chan[l].td = "queued"
    /\ streams' = streams \ {l}
    /\ chan' = [chan EXCEPT ![l] =
           [EnterClose(@, l \in streams, "teardown") EXCEPT !.td = TeardownWaits(l)]]
    /\ UNCHANGED <<next_local_id, closes, tasks, loop, toServer, dev>>

(* Mutant: the first close() that ends is enough.                          *)
FirstClosed == \E l \in Ids : chan[l].td = "done"

AllClosed == \A l \in Ids : chan[l].td \in {"no", "done"}

GoEnds ==
    /\ go = "stop"
    /\ AllClosed
    /\ go' = "done"
    /\ conn' = "closed"
    /\ UNCHANGED <<next_local_id, streams, chan, closes, tasks, max_data_len,
                   toProxy, toServer, dev>>

(* attach_raw cancels go() while it waits: the close() tasks go on, the    *)
(* writer is not closed.                                                   *)
GoInterrupted ==
    /\ go = "stop"
    /\ go' = "aborted"
    /\ UNCHANGED <<next_local_id, streams, chan, closes, tasks, max_data_len, conn,
                   toProxy, toServer, dev>>

-----------------------------------------------------------------------------
RecvSome == RecvHandshake \/ RecvOpen \/ RecvClse \/ RecvOkay \/ RecvWrte

StartSome(l) == StartOpen(l) \/ StartReady(l) \/ StartClose(l) \/ StartWrite(l)

SinkSome(l) == SinkAcquire(l) \/ SinkReads(l) \/ SinkEnds(l) \/ SinkCancelled(l)

AnswerGoesOn(l) == AnswerData(l) \/ AnswerEnds(l) \/ AnswerRaises(l)

OpenSome(l) ==
    \/ OpenSucceeds(l) \/ OpenReady(l) \/ OpenUnannounced(l) \/ OpenFails(l)
    \/ AnswerBegins(l) \/ AnswerGoesOn(l)

ProxyNext ==
    \/ RecvSome \/ ReverseAccept \/ GoStops \/ GoEnds \/ GoInterrupted
    \/ \E l \in Ids : \/ StartSome(l) \/ WriteDrained(l) \/ OpenSome(l)
                      \/ SinkSome(l) \/ CloserResumes(l) \/ TeardownClose(l)

(* The event loop runs every task that can go on; an ADB server that went  *)
(* away is noticed.  Nothing is assumed of drain() towards the device, of  *)
(* the endpoint that opens a stream, or of a cancellation.                 *)
ProxyFairness ==
    /\ WF_proxyVars(RecvSome)
    /\ WF_proxyVars(conn = "lost" /\ toProxy = <<>> /\ GoStops)
    /\ WF_proxyVars(GoEnds)
    /\ \A l \in Ids : /\ WF_proxyVars(StartSome(l))
                      /\ WF_proxyVars(OpenReady(l))
                      /\ WF_proxyVars(AnswerGoesOn(l))
                      /\ WF_proxyVars(SinkSome(l))
                      /\ WF_proxyVars(CloserResumes(l))
                      /\ WF_proxyVars(TeardownClose(l))
=============================================================================
