# A TLA+ model of adb-proxy

adb-proxy makes an Android device that is attached to one machine appear on
another. Towards the ADB server of the second machine it plays a device
connected over TCP, speaking the multiplexed ADB protocol; towards the ADB
server of the first machine it plays an application that opens one connection
per stream. All of it is asyncio code in one event loop, so what is hard is
the order in which tasks, callbacks, commands and cancellations meet. That is
what the modules here are about.

Throughout, **a step of a model is what one task does between two awaits that
may suspend it**. Paths are relative to `src/adbproxy/` unless they begin
otherwise.

## 1. Inventory

### Multiplexer: `AdbProxy`, `AdbProxyChannel` (`adb_proxy.py:47-372`)

* *State*: `next_local_id`, the dict `streams`, `max_data_len`; per channel
  `remote_id`, the semaphore `ready_to_send`, the reader and writer of the
  connection to the device, the `sink_task`.
* *Operations*: `go()` exchanges `CNXN`, then dispatches `OPEN`, `CLSE`,
  `OKAY`, `WRTE`, each into a new task; `open_channel`; `write`, `ready`,
  `sink`, `close` of a channel; the finally of `go()`.
* *Interactions*: the ADB server by commands in both directions; the device by
  one byte stream per channel; `attach_raw`, which owns and cancels `go()`.
* *Hard*: four callers of `close()` that meet around one await; a flow control
  of one unacknowledged `WRTE` that is spread over a semaphore, tasks and two
  queues; stream ids looked up in one step and used in a later one; a remote id
  that is unknown at first for reverse streams; teardown during all of this.
* *Correct when*: one `CLSE` per stream at most; a sink and an open writer
  exactly as long as the stream is registered; one permit per stream; what is
  acknowledged was delivered; commands name the right socket; each `OPEN` is
  answered once; ends propagate in both directions; the teardown is complete.

### Reverse tunnels: `reverse_create`, `reverse_remove`, `reverse_remove_all` (`adb_proxy.py:195-256, 266-281, 366-367`)

* *State*: `reverse_listeners`, the listeners themselves, the forwards that the
  device keeps.
* *Interactions*: each request is a task; it asks the device over a connection
  of its own. The listeners' callbacks make streams of the multiplexer.
* *Hard*: replies overtake one another; a read that raises half way; requests
  still under way when `go()` ends.
* *Correct when*: every open listener is owned by a request or by the dict, a
  registered one is open, and the dict agrees with the device.

### Attachment: `attach_raw`, `connect` (`adb_proxy.py:374-491`)

* *State*: `proxy_task[0]`, the listener, `wait_tasks`; outside, the address in
  the ADB server's list of devices.
* *Operations*: choose the device, read three properties, listen,
  `host:connect`, wait for the first of proxy, device check and command,
  cancel and gather them, `host:disconnect`.
* *Hard*: the callback of the listener against the reply to `host:connect`;
  cancellation at each await; the clean-up itself is interrupted.
* *Correct when*: no task of the wait outlives it; the address is given back.

### Reverse connections: `listen_reverse` (`adb_proxy.py:494-623`)

* *State*: the set `connections` of tasks, shared by the handlers and the
  finally; with UPnP the port that `map_port` has mapped to the listener.
* *Hard*: connections come and go while the finally walks and gathers the set;
  `gather()` ends at the first exception; port, listener and tasks must go in
  this order whatever ends the wait.
* *Correct when*: the finally misses no connection that was accepted before it, no
  port is mapped to a listener that is gone, and the finally ends.

### Port mapping: `UPnP.map_port`, `UPnP.discover` (`upnp.py`)

* *State*: the candidate, the attempts, the router's table.
* *Hard*: a mapping made although the answer was an error; a removal that fails;
  other clients of the router on the same ports.

### Host shell: `spawn` (`endpoint.py:30-113`), `shell_factory` (`adb_proxy.py:666-720`)

* *State*: the descriptors of the terminal, the subprocess, a `StreamReader`, an
  output pump, the SSH channel, the exit code.
* *Hard*: the order in which the subprocess's end of the terminal, the held
  descriptor and the buffered output go away; a subprocess that closes its
  output and runs on, or a process of its own that outlives it; failure between
  two descriptors, also when the subprocess is already there; a client that stops
  reading or goes away.
* *Correct when*: a terminal does not end before its subprocess; output of a
  pipe is complete or the pump knows that it was cut; nothing is held for ever.

### Endpoint streams: `open_stream`, `read_stream`, `devices` (`endpoint.py:163-204`)

* *State*: one connection per call, the position in the dialogue of commands and
  statuses, then the payload.
* *Hard*: what the server sends and what it is read as must not slip; the
  connection may end or be lost anywhere; a cancellation during the dialogue is
  not an `Exception`.
* *Correct when*: what is returned is the whole payload of an accepted stream,
  and no call leaves its connection open unless it is cancelled in the dialogue.

### Device Farm: `run`, `upload`, `devicefarm` (`aws.py`), `gather_contexts` (`util.py:15-24`)

The devices found in a list by what the user calls them (`find_devices`), three
uploads entered concurrently, a run that is scheduled, polled once a
second with every error retried, stopped in the end. State lives in the cloud.
Hard: one upload failing while others are under way; errors in the clean-up.
*Correct when* the filter names exactly what was asked for, uploads exist as
long as the run may use them, the run is over before they go, and what remains
has a failed call behind it.

### The rest

`connect_reverse` with `MySSHServer` (`adb_proxy.py:626-664, 722-737`):
library calls and a comparison of passwords. `SshEndpoint`, `LocalEndpoint`:
delegation. `use_tunnels`, `main.py`: argument parsing and nested SSH
connections. `util.py`: formatting and parsing. None keeps state that
concurrency could disturb; none is modelled.

## 2. Modules

| Module | Models | Composition |
|---|---|---|
| `AdbProxy` | the multiplexer | open system: `ProxyInit`, `ProxyNext`, `ProxyFairness` |
| `AdbSession` | its peers, the ADB server and the devices | extends `AdbProxy`, closes it, states its properties |
| `StreamService` | abstract specification: what a client is promised of its streams | implemented by `AdbSession` (`ImplementsStreams`) |
| `AdbSessionProofs` | theorems about `AdbSession`: types, the life of a stream, the teardown | extends `AdbSession`, `TLAPS` |
| `AdbSessionPeerProofs` | theorems about `AdbSession`: the ids, flow control, the answer to an `OPEN`, the refinement of `StreamService` | extends `AdbSessionProofs` |
| `ReverseTunnels` | requests, listeners and the dict of them | stands alone |
| `Attach` | `attach_raw` | stands alone; its `proxy` task is `go` of `AdbProxy` |
| `EndpointStream` | one call of `open_stream`, `read_stream` or `devices` | stands alone; used by `open_channel`, the reverse requests and `attach_raw` |
| `PortMapping` | `map_port` and the router | open system: `MapInit` and one operator per step |
| `ListenReverse` | `listen_reverse` | extends `PortMapping`, whose steps it schedules; its task is `Attach` |
| `HostShell` | `spawn` and `shell_factory` | stands alone |
| `DeviceSelection` | `find_devices` | open system: `SelectionInit`, `Lists`, `Selects` |
| `DeviceFarm` | `run`, `upload`, `gather_contexts` | extends `DeviceSelection` |
| `ReverseTunnelsProofs`, `AttachProofs`, `EndpointStreamProofs`, `ListenReverseProofs`, `HostShellProofs`, `DeviceFarmProofs` | theorems about the module of that name; `ListenReverseProofs` and `DeviceFarmProofs` also about the module it extends | each extends its module and `TLAPS` |

Each module defines a few *mutants* next to the definition they change: the same
operator with a plausible bug. Every property of a passing run is violated by at
least one of them under the same configuration, which is how we know that the
property says something about the code. Mutants are part of no specification.

### `AdbProxy` and `AdbSession`

`chan[l]` gathers everything that belongs to local id `l`: the state of its
`open_channel` task (`open`), of its sink, the semaphore (`ready`), the remote
id (`rid`), the writer, the task that waits inside `close()` (`closer`), a
`write()` in `drain()` and the coroutine that the teardown made (`td`).
`streams` is the key set of the dict. The payload of a `WRTE` of the proxy is
its length, of one of the server its position; nothing else of it matters.

| Code | Actions |
|---|---|
| `go()`: `CNXN`, dispatch (312-359) | `RecvHandshake`, `RecvOpen`, `RecvClse`, `RecvOkay`, `RecvWrte` |
| `create_task` and the event loop's queue | `Spawn`, `Start`: started in order of creation |
| `open_channel` (258-298) | `StartOpen`, `OpenSucceeds`, `OpenReady`, `OpenUnannounced`, `OpenFails` |
| answer to a `reverse:` request (230-232, 244-246, 254-256) | `AnswerBegins`, `AnswerData`, `AnswerEnds`, `AnswerRaises` |
| `write` (77-88) | `StartWrite`, `WriteDrained`, through `WriteAcks` and `WriteRaises` |
| `ready`, `sink` (90-116) | `StartReady`, `SinkAcquire`, `SinkReads`, `SinkEnds`, `SinkCancelled` |
| `close` (118-130), by caller | `EnterClose`, `CloserResumes` (server, write, teardown), `SinkCloses` (the sink) |
| listener callback (196-205) | `ReverseAccept` |
| finally of `go()` (363-372) | `GoStops`, `TeardownClose`, `GoEnds`, `GoInterrupted` |

The FIFO of tasks matters: a sink task made by the constructor starts before
any `close()` that a later command spawns, so it is never cancelled before its
`try`. It is also why a `ready` cannot overtake an earlier `write`. Tasks that
were suspended, by contrast, resume in any order.

Two facts about asyncio are parameters or choices. `WaitTakesCoroutines` says
whether `asyncio.wait()` takes bare coroutines (before Python 3.11) or raises.
`drain()` on a broken connection may raise or return: `SendRaises` allows the
first, the ordinary actions the second. A sink meets it only while it sends or
waits in the `drain()` of what it has sent (`SinkSendRaises`).

`AdbSession` adds what the code expects of its surroundings: an ADB server that
keeps one `WRTE` per socket unacknowledged, answers the `CLSE` of an open
stream, opens, writes, reads and closes at will; devices that produce data,
reach their end or are reset; the loss of the connection at any moment. These
are external: modelled from how the code uses them.

### `StreamService`

The promise to a client of the ADB server, without commands, tasks, permits or
ids of the other side: per stream a `state` (new, open, over), the writes `sent`,
how far the device `got` them, how many are `acked`, and whether a payload for
the client is `unread`. `AdbSession` implements it under the mapping at its end:
`StreamState` reads the state off `streams` and the `open_channel` task,
`SocketOf` finds the socket of the ADB server behind a stream, `Acked` and
`Unread` count what the socket owes and what is in the queue. The refinement
says in one formula what several invariants would say in parts: no stream opens
or closes twice, a write is delivered once, in order and to an open stream only,
it is acknowledged when the device has it or the stream is over, and the client
has one payload to read at most.

### `EndpointStream`

`call` is the await at which the call stands, `wire` what the caller has not read
and `asked` whether the server has a command to answer. `Accepted`, `Refused`,
`DialogueRaises` are the outcomes of one status; `PayloadRead` is `read()` to the
end, with the parsing of `devices()`; `Cancelled` is possible at every await and
closes the writer only where a finally does. The server is external: it accepts,
refuses and then explains (`ServerExplains`), answers nonsense, sends, ends the
connection or loses it; it may do so between `FAIL` and the reason too.

### `ReverseTunnels`

`req[q]` is one `open_channel` task with a `reverse:` name, made when `go()` reads
the `OPEN` (`Opens`) and started later, perhaps after the finally. `Listens`,
`DeviceForwards`/`DeviceUnforwards`/`DeviceFails` and
`Created`/`NotCreated`/`Removed`/`NotRemoved` are the three steps a request goes
through; requests interleave freely, so the order in which the device handles
them and the order in which the answers arrive are independent. `ReadRaises` is
`read_stream` raising before or after the device has done its part. `unsure` is
a history variable: the remotes on which two requests overlapped, one raised,
or `killforward-all` was used; there the proxy cannot know what the device
thinks.

### `Attach`

`at` is the await at which `attach_raw` stands. `ServerConnects` and
`OnConnected` are separate because the callback of a listener runs later than
the connection is made, even after the listener is closed. `CancelWait`,
`ConnectEnds`, `EarlyEnd` and `CancelDisconnect` are a cancellation at each
await. `adb` is the address in the ADB server's list.

### `PortMapping` and `ListenReverse`

`router` is the table of the router, which other clients use too (`OtherAdds`);
`map` the await at which `map_port` stands. Every call may have had its effect
although it ends with an error (`MayAdd`, `RemoveFails`); `doubt` is the history
of that. `handler[c]` is `on_connected`, `task[c]` its `connect_task`,
`connections` the set. `Maps` is a step of `map_port`, `Stops` the end of the
wait or a cancellation, which leaves the mapping first and closes the listener
then; `Finally` cancels; `GatherEnds` has the two ways in which `gather()`
without `return_exceptions` ends. `late` is a history variable: the connections
that were accepted when the finally had begun. `OnlyLateRun` says with it that
the set `connections` was complete when the finally walked it: a `connect()` that
still runs and was not cancelled is late.

`ListenerWaits` says whether closing the listener waits for its connections to
end, as `asyncio.Server.wait_closed()` does from Python 3.12.1 on. The project
asks for Python 3.10 or later and sets no upper limit (`README.md:32`,
`pyproject.toml:7`), so both values are real. The runs have `FALSE`, Python 3.10 to
3.12.0. With `TRUE` TLC refutes `StopEnds`: one live connection keeps the finally
that would cancel it from beginning. The theorems hold for both.

### `HostShell`

`factory` is the await at which `shell_factory` and the `spawn()` it calls stand.
`fds` holds the descriptors of the proxy. `OpenPty` takes three; `AfterFork`
says which are left when the subprocess runs (`ForkOnTerminal`, then
`ReaderConnects` and `WriterConnects`; `ForkOnPipes` is the other mode). Each call
of `spawn()` may raise instead: `HoldFails` (the `dup()` of the slave), `ForkFails`,
and with the subprocess already running `ConnectFails`. What is open then stays
open, against the comment of `endpoint.py:73-75`: the task that closes the held slave
"once the subprocess exits" is made last (113), so when line 98 or 102-105 raises
nobody waits for the subprocess and the descriptor outlives it. `NothingHeld`
says that no more than this and the master is left.

`TransportEnds` distinguishes the two kinds of end: a pipe has an end of file, the
master of a terminal fails with `EIO`, which reaches the `StreamReader` as an
exception. `StreamReader.read` looks at the exception when it is called: a pump
that *waits* in it and is *woken* by data returns the data, whatever came since; one
that calls it, at its start or when it comes back from `drain()`, meets the
exception before what is buffered (`AtEnd`). A `StreamReader` above its limit
pauses its transport (`Limit`), and the pump reads on only after its `drain()`,
which may last as long as the client does not read; both together are how a client
holds back the subprocess. The channel is closed by `process.exit()`
(`FactoryExits`, `SpawnFails`) or by the pump, whose finally closes its stream
(`PumpEnds`), or is lost. A pump that writes or drains then is *cut* by an
exception, which is not the same as *done*. `Started` and `Resumed` are the order
of asyncio: what is scheduled runs before what the selector finds next.

### `DeviceFarm`

`FindsDevices` is one entry of the list or the return of `find_devices`; the list
is chosen entry by entry, so every order and every set of names occurs. What an
id is compared with (arn, its end, names) is the set `names` of an entry.
`up[u]` is the context manager of an upload, entered by a task of `gather()`;
`stack` the exits pushed on the `AsyncExitStack`, in the order in which the
entries end; `cloud` and `job` what exists outside. Every call ends in one of two
actions, the second of which is its exception or cancellation. `GatherRaises`
leaves the tasks that have not ended to themselves; they may still push an exit
while the stack unwinds, and what they do after that nobody undoes. `Aborts` is
what becomes of them once the client is closed. `doubt` and `jobDoubt` are
history: the calls that failed.

## 3. Runs

| Run | Bounds | States | Shows |
|---|---|---|---|
| `session_open` | 1 stream opened by the server, 2 writes each way, limits 2 and 1 | 109 698 | `TypeOK`, `OneClose`, `NoOrphanSink`, `NoOrphanWriter`, `FlowControl`, `OpenAnsweredOnce`, `ImplementsStreams`, `NoWrteAfterClose`, `ServerCloseEndsStream`, `DeviceEndClosesSocket`, `LostConnectionEnds` |
| `session_reverse` | 1 stream of the device, 2 writes each way | 94 690 | `RightPeer`, `ImplementsStreams`, `DeviceEndClosesSocket` |
| `session_two` | 1 stream of each kind, no data | 1 022 405 | `RightPeer`, `CleanTeardown` |
| `session_wait311` | as `session_open`, no data, Python 3.11 | violation | `CleanTeardown` fails |
| `reverse_tunnels` | 3 requests, 2 remotes and "any port" | 133 750 | `TypeOK`, `OpenListenerOwned`, `RegisteredOpen`, `AgreesWithDevice` |
| `attach` | 2 connections, with a command | 492 | `TypeOK`, `StoppedFirst`, `AddressRemoved`, `OneEndsAll` |
| `endpoint_streams` | 2 commands, 3 units of payload | 899 | `TypeOK`, `ReturnsAll`, `ClosedUnlessCut`, `EndsWithServer` |
| `listen_reverse` | 3 connections, 2 ports, 2 attempts | 607 812 | `TypeOK`, `OnlyLateRun`, `MappedIsListening`, `StopEnds` |
| `listen_reverse_pending` | 2 connections, 1 port | violation | `PendingFinished` fails |
| `host_shell` | 3 units of output, limit 1 | 2 126 | `TypeOK`, `NoEndBeforeExit`, `PipeIsComplete`, `NothingHeld` |
| `host_shell_eof` | 2 units of output | violation | `CleanEof` fails |
| `device_farm` | 3 uploads, 2 ids, 2 entries of the list | 143 196 | `TypeOK`, `JobHasUploads`, `NothingLeft`, `FilterIsExact` |

**Why the bounds are enough.** Channels share only `streams`, the command queues,
the FIFO of tasks and the teardown, so one stream shows what the callers of
`close()` do to one another, and two (`session_two`) show ids mixed up and a
teardown that meets one stream opening and another closing. Two writes each way
make the second permit come from an `OKAY` and the first from `open_channel`; a
server limit below the proxy's makes the smaller one count and two units of data
take two chunks. Three tunnel requests are what it takes for one to replace a
tunnel while another removes it. Two connections make `proxy_task[0]` be
overwritten. Three reverse connections let one end normally, one raise and one
come late; two ports and two attempts let one attempt fail with an effect and
the other succeed. Two commands make a first, a middle and a last status. Two
ids and two entries make one id name two entries, two ids one, and a mixture. The code enters three uploads. With three units, output can be at once sent, buffered and still in
the kernel, and a limit of one lets the reader pause. `MaxId`, `MaxReverse`,
`MaxWrites`, `MaxMade`, `MaxUnits`, `MaxRequests`, `MaxConns` and the finite sets are the only bounds; all are guards of the action
that would exceed them. Deadlock is not checked: every system here may stop.

**Fairness.** `ProxyFairness` is weak fairness of what the event loop does with
a task that can run (reading a buffered command, starting a task, resuming one
whose await is over), and of noticing that the ADB server is gone. Nothing is
assumed of the device: not that it answers an open request, nor that `drain()`
towards it returns. `AdbSession` adds that an ADB server that is there reads
its commands, and that its clients read; without the second, flow control
rightly stops a stream. `Attach`, `ListenReverse` and `HostShell` assume that a
cancelled task ends and that the event loop runs tasks and transports and
connects a pipe or fails; no task
that was not cancelled is assumed to end. A call of the router is answered or
fails in the end (the client library has a timeout). A `drain()` towards the SSH
client is assumed to end only once the channel is not open. `EndpointStream`
assumes that the call goes on when it can, and nothing of the server.
`DeviceFarm` states safety only.

### What the violations say

* `session_wait311`: line 370 gives coroutines to `asyncio.wait()`. README.md:32
  promises Python 3.10 and later; from 3.11 on the call raises, and a teardown
  with a stream registered closes neither the streams nor the connection.
* `listen_reverse_pending`: the comment of line 619 says that pending connections
  are finished, but the first task to end by an exception ends `gather()` and
  `listen_reverse` with it, whether it raised by itself, as in the trace, or was
  cancelled by the loop before. In the second case a `CancelledError` leaves
  `listen_reverse` although nobody cancelled it.
* `host_shell_eof`: the comment of `endpoint.py:110` expects a clean end after
  the buffer has drained. What comes is `EIO`, an exception of the `StreamReader`. A
  pump that waits in `read()` does not lose by it, but one that comes back from
  `drain()` meets the exception before what was buffered meanwhile, and ends. In
  the trace a first chunk came while `spawn` was connecting the writer.

## 4. Proofs

Every invariant that a run checks is also a theorem, and so are the action
property and the refinement of `StreamService`, for all values of the constants that satisfy the named assumption of its module (`ProxyAssumption`,
`SessionAssumption`, `TunnelsAssumption`, `AttachAssumption`,
`EndpointAssumption`, `MappingAssumption`, `ListenerAssumption`,
`ShellAssumption`, `UploadsAssumption`): any number of streams, sockets, requests
and connections, any limits. TLC found each inductive invariant true on the
small instance of its run before it was proved.

| Module | Theorem | Says |
|---|---|---|
| `AdbSessionProofs` | `SafetyInvariant` | `Spec => [](TypeOK /\ Shape)` |
| | `TypeCorrect` | `TypeOK` |
| | `ClosedOnce` | `OneClose` |
| | `SinkPerStream` | `NoOrphanSink` |
| | `WriterPerStream` | `NoOrphanWriter` |
| | `TeardownClosesAll` | `CleanTeardown`, where `asyncio.wait()` takes coroutines |
| | `NothingAfterClose` | the action property `NoWrteAfterClose` |
| `AdbSessionPeerProofs` | `WiringInvariant`, `PeerIsRight` | `Wiring`; `RightPeer` |
| | `FlowInvariant`, `OneWritePerOkay` | `Flow`; `FlowControl` |
| | `OnceInvariant`, `EachOpenAnsweredOnce` | `Wrote /\ Once`; `OpenAnsweredOnce` |
| | `DeliveryInvariant`, `StreamsImplemented` | `Delivery`; the refinement `ImplementsStreams` |
| `ReverseTunnelsProofs` | `TunnelsInvariant`, `TunnelsTypes`, `ListenersOwned`, `RegisteredStayOpen`, `DeviceAgrees` | `Inv`; `TypeOK`, `OpenListenerOwned`, `RegisteredOpen`, `AgreesWithDevice` |
| `AttachProofs` | `AttachInvariant`, `AttachTypes`, `TasksStoppedFirst`, `NoAddressLeft` | `Inv`; `TypeOK`, `StoppedFirst`, `AddressRemoved` |
| `EndpointStreamProofs` | `EndpointInvariant`, `EndpointTypes`, `ReturnsWholePayload`, `LeavesNoConnection` | `Inv`; `TypeOK`, `ReturnsAll`, `ClosedUnlessCut` |
| `ListenReverseProofs` | `ListenerInvariant`, `ListenerTypes`, `OnlyLateTasksRun`, `MappingHasListener` | `Inv`; `TypeOK`, `OnlyLateRun`, `MappedIsListening` |
| `HostShellProofs` | `ShellInvariant`, `ShellTypes`, `EndAfterExit`, `PipeComplete` | `Inv`; `TypeOK`, `NoEndBeforeExit`, `PipeIsComplete` |
| `DeviceFarmProofs` | `FarmInvariant`, `FarmTypes`, `RunHasItsUploads`, `NoUploadLeft`, `SelectionIsExact` | `Inv`; `TypeOK`, `JobHasUploads`, `NothingLeft`, `FilterIsExact` |

### The multiplexer: one stream

`TypeOK` is inductive by itself. The other invariants are not: that `close()`
issues one `CLSE` at most depends on who waits for the sink, on what the sink is
doing and on whether the id is registered. `Shape` adds, for each id (`ShapeOf`),
which combinations occur: an id is registered exactly if its sink is alive, and
exactly if its writer is open; while it is registered nobody waits in `close()`,
no `CLSE` was issued and the teardown has at most made its coroutine; a sink that
is cancelled, and a failed `write()` that waits for it, have the one `CLSE` still
before them; only `go()` past its loop has teardown coroutines, and when it is
done they are; an id that was not given out has no `open_channel`. `FreshOpens`
says that each `open_channel` task that has not started has an id of its own,
not yet in use: without it a second registration of an id could not be excluded.
Finally `go()` does not fail where `asyncio.wait()` takes coroutines. `TypeOK` and
`Shape` are inductive together, with one lemma per action and conjunct.
`NoWrteAfterClose` follows action by action: only `SinkReads` and `AnswerData`
append a `WRTE`; a sink that reads is registered, and the other is the answer to
a `reverse:` request before its `CLSE`.

### The multiplexer: the two ends of a stream

`RightPeer` speaks of one command in `toServer`, but what that command says was
read off `chan` when it was sent and is compared with `srv` as it is now, and
`chan` learned it from a command that `srv` sent earlier. `Wiring` follows that
circle:

* `Named`, `NamedTasks`: a channel or a task that can send knows its remote id;
* `Pairs`, `Ends`: local ids and sockets are peers one to one, although a
  stream of the device learns its peer later than the peer learns of it;
* `Outgoing` (`Sent`), `Incoming` (`Received`): every command in a queue names
  the two ids of one stream, an `OPEN` those of none yet;
* `OneOpenEach`: an `OPEN` is in its queue once;
* `Told`, `Answered`: a stream of the device has read the `OKAY` for its `OPEN`
  before anything that the same socket sent later. This is the fact that
  `adb_proxy.py` relies on when it takes `remote_id` from the first `OKAY`;
* `Shook`: nothing but `CNXN` before `go()` serves.

`FlowControl` is a sum over the permits and three queues. `Tokens(l)` counts the
same by `Num`, the number of *places* of a sequence with a command of some set;
lemmas say what appending, taking the first and dropping everything does to such
a number. `Flow` strengthens the bound by `Early`: before its `OPEN` is answered
a stream has no token at all, so the first permit (`FirstPermit`) finds none.
Each action then moves one token, makes the first or loses some; which token
belongs to `l` is what `Wiring` says.

`OpenAnsweredOnce` is an equality, so that nothing may be lost either.
`Whereabouts(r)` counts an `OPEN` on its way, the `open_channel` task of its
stream and the answers; `Once` says that it is 1 while the socket is opening and
the connection is up, and `Wrote` that a stream that is written to has a
socket that knows it, hence is open or closed, so that no `OKAY` for a `WRTE`
passes for an answer.

### The multiplexer implements `StreamService`

`Flow` is about the way to the client; of the way to the device the refinement
needs two things: a write that is handed over is the next one, and an `OKAY` that
reaches the socket acknowledges a write that the device has, unless nobody will
hand it over any more (`Past`). Both are in `Delivery`. For each stream `Turns`
counts the right of the client to write (`credit`), its `WRTE` in `toProxy`, the
`write` task, a `write()` in `drain()` and the `OKAY` on its way back: their sum is
one at most, so none overtakes another, and `Turn` says of each of them how the
position it carries compares with what the socket sent (`Written`) and what the
device got. While the `open_channel` task has not answered, the sum is 0. A
corollary is that no two tasks wait in `drain()` for one stream.

The steps are then sorted by what a client can tell. `TaskKinds` puts every task
step of a stream into one of six kinds (`Keeps`, `Resumes`, `Begins`, `Produces`,
`Skips`, `Hands`) and says that other streams keep their view. `ViewMaps` says that a
step which changes the view of one stream as an action of the service does is that
action; `ViewVanishes` covers payloads that are read or lost. What is left is one
lemma per group of actions (`ViewTasks`, `ViewReverse`, `ViewGrants`,
`ViewClientWrites`, `ViewServerWrte`, `ViewClientReads`, `ViewServer`), put together
in `ViewStep`:

| Steps of the multiplexer | Step of `StreamService` |
|---|---|
| `OpenSucceeds`, `AnswerBegins`, `ReverseAccept` | `Opens` |
| a `close()` that finds its stream, `OpenFails`, the end of an answer | `Closes` |
| `ClientWrites` | `ClientWrites` |
| `StartWrite` that reaches the device | `Delivers` |
| `ServerOkay` for a write | `Acknowledges`, or none for the first `OKAY` |
| `SinkReads`, `AnswerData` | `DeviceSends` |
| `ServerWrte`, `ClientReads`, `ServerLost` | `Vanish`, or none |
| every other | none |

### The other modules

* `ReverseTunnels`: `Life` says which listener a request has at each stage and
  `Entry` what a request in the dict looks like, so that a listener that is closed
  is one that leaves the dict or was never in it; `Agreed` follows the one
  request that a remote without doubt may have.
* `Attach`: `Order` ties listener, address and the choice of the proxy to the place
  of `attach_raw`; `Chosen` says that a proxy that is waited for was accepted
  before, so that no callback starts it again after it was stopped.
* `EndpointStream`: `Begin`, `Dialogue`, `Reason`, `Payload`, `Returned` say for
  each await what is on the wire, `Explained` what has been read while a reason is
  still to come: caller and server stay in step.
* `ListenReverse`: `Owned` says that a mapping to us is the one `map_port` stands
  for or the work of a failed call, `Attempts` that there are attempts left,
  `Unmapped` that the listener is left after the mapping; `Registered` that every
  `connect()` that runs without having been cancelled is in the set, whatever comes
  and ends meanwhile. `OnlyLateRun` needs it at the finally, and itself afterwards,
  when a running task can be a late one only.
* `HostShell`: `Conserved`, that output is somewhere until the pump is cut;
  `Held`, that a slave of the terminal is held until the subprocess is reaped;
  `Forked`, `Ended` and `Pumped` connect them with reader and pump.
* `DeviceFarm`: `Kept` ties the cloud to the place of each upload, `Pushes` the
  stack to the uploads that were entered, `Reached` and `Stopped` say what `run()`
  knows at each await; `Found` and `Filtered` that the two results of
  `find_devices` are exact for what was listed so far.

### What is only model-checked

Liveness under fairness
(`ServerCloseEndsStream`, `DeviceEndClosesSocket`, `LostConnectionEnds`,
`OneEndsAll`, `EndsWithServer`, `StopEnds`, `NothingHeld`) is out of reach of the
prover and stays with TLC.

## 5. What is not modelled

* A stream that the device's endpoint hands over after `go()` has made its
  snapshot is registered and nobody closes it; the model has the behaviour
  (`OpenSucceeds` after `GoStops`), no property forbids it, because the code
  makes no attempt to prevent it.
* Output of the device that the proxy holds when a write to the same device
  fails is dropped with the stream.
* That a listener's callback comes only while its listener is open:
  `ReverseAccept` is possible whenever `go()` has a connection, which allows more
  than the code does.
* A command other than the five, or a wrong magic number, ends `go()`: `GoStops`
  is always possible and covers it. The protocol version is announced and not
  used.
* Two tasks waiting in `drain()` of the same writer at once: the ADB server sends
  one `WRTE` at a time, so `drain` is a flag (`Delivery` proves that a `write` task
  never starts while another one waits there).
* `listen_reverse`'s discovery of its public address and ngrok, and
  `UPnP.discover`: each is a chain of library calls that returns or raises before
  there is anything to clean up.
* `connect_reverse` with its authentication: library calls and a comparison of
  passwords; no state of its own.
* `SshEndpoint`, `LocalEndpoint`, `use_tunnels`, `main.py`, `util.py` but for
  `gather_contexts`: delegation, nested `async with`, argument parsing, formatting.
* `stdin_pump` of `shell_factory`: it passes bytes on and changes nothing that the
  properties see. In pipe mode it does not pass on the end of the input either, so
  a command that reads to its end never ends.
* That the length in front of the list of devices is ignored: a list that was cut
  short is taken for a short list (`PayloadRead` returns it).
* The command of `connect` that is cancelled: the subprocess itself is left to
  the operating system.

## 6. Plan

1. Composition of `ReverseTunnels` with `AdbProxy` through the listeners, and of
   `Attach` with `ListenReverse`, whose task it is.
