-------------------------- MODULE AdbSessionProofs --------------------------
(***************************************************************************)
(* Theorems about AdbSession, for every value of its constants.  The       *)
(* argument: TypeOK is inductive by itself; Shape, which ties the sink,    *)
(* the closer and the CLSE history of one local id to its registration,    *)
(* is inductive with TypeOK, and implies OneClose, NoOrphanSink,           *)
(* NoOrphanWriter and CleanTeardown; NoWrteAfterClose follows from Shape   *)
(* action by action.                                                       *)
(***************************************************************************)
EXTENDS AdbSession, TLAPS

(* What one local id satisfies.                                            *)
ShapeOf(l) ==
    LET c == chan[l] IN
    /\ l \in streams <=> c.sink \in {"acquire", "read"}
    /\ c.writer = "open" <=> l \in streams
    /\ c.open \in {"none", "connecting", "okayAnswer", "dataAnswer"} => c.sink = "none"
    /\ c.sink = "none" => /\ c.open # "ended" => closes[l] = 0
                          /\ c.td = "no"
                          /\ c.closer = "none"
    /\ l \in streams => closes[l] = 0 /\ c.closer = "none" /\ c.td \in {"no", "queued"}
    /\ c.sink = "cancel" => closes[l] = 0
    /\ c.closer = "write" => closes[l] = 0
    /\ closes[l] <= 1
    /\ l >= next_local_id => c.open = "none"
    /\ c.td # "no" => go \notin {"handshake", "run"}
    /\ go = "done" => c.td \in {"no", "done"}
    /\ c.closer = "teardown" => c.td = "running"

(* Tasks that have not started: each open_channel for an id of its own,    *)
(* not yet registered.                                                     *)
FreshOpens ==
    \A i \in 1 .. Len(tasks) : tasks[i].op = "open" =>
        /\ tasks[i].id < next_local_id
        /\ chan[tasks[i].id].open = "none"
        /\ \A j \in 1 .. Len(tasks) :
              tasks[j].op = "open" /\ tasks[j].id = tasks[i].id => i = j

Shape ==
    /\ \A l \in Ids : ShapeOf(l)
    /\ FreshOpens
    /\ WaitTakesCoroutines => go # "failed"

-----------------------------------------------------------------------------
(* Sequences.                                                              *)

LEMMA TailType ==
    ASSUME NEW S, NEW q \in Seq(S), q # <<>>
    PROVE  /\ Head(q) \in S
           /\ Tail(q) \in Seq(S)
           /\ Len(Tail(q)) = Len(q) - 1
           /\ Len(q) \in Nat \ {0}
           /\ \A i \in 1 .. Len(Tail(q)) : i + 1 \in 1 .. Len(q) /\ Tail(q)[i] = q[i + 1]
           /\ Head(q) = q[1]
    OBVIOUS

LEMMA AppendType ==
    ASSUME NEW S, NEW q \in Seq(S), NEW e \in S
    PROVE  /\ Append(q, e) \in Seq(S)
           /\ Len(Append(q, e)) = Len(q) + 1
           /\ Len(q) \in Nat
           /\ \A i \in 1 .. Len(q) : Append(q, e)[i] = q[i]
           /\ Append(q, e)[Len(q) + 1] = e
    OBVIOUS

-----------------------------------------------------------------------------
LEMMA TypeInit == Init => TypeOK
    BY ProxyAssumption, SessionAssumption
    DEF Init, ProxyInit, TypeOK, Ids, Unused, Channels, NoDevice, Devices, Command,
        Commands, Idle, Sockets

(* Records and commands.                                                   *)

LEMMA ZeroOrIn ==
    ASSUME NEW S \in SUBSET Nat, NEW x \in {0} \cup S
    PROVE  x \in Nat
    OBVIOUS

LEMMA CommandTyped ==
    ASSUME NEW S \in SUBSET Nat, NEW m \in Commands(S)
    PROVE  m.arg0 \in {0} \cup S /\ m.arg0 \in Nat /\ m.arg1 \in Nat /\ m.data \in Nat
<1>1. m.arg0 \in {0} \cup S /\ m.arg1 \in Nat /\ m.data \in Nat
    BY DEF Commands
<1> QED
    BY <1>1, ZeroOrIn

LEMMA MakeCommand ==
    ASSUME NEW S, NEW cmd \in {"CNXN", "OPEN", "OKAY", "WRTE", "CLSE"},
           NEW a \in {0} \cup S, NEW b \in Nat, NEW d \in Nat
    PROVE  Command(cmd, a, b, d) \in Commands(S)
    BY DEF Command, Commands

LEMMA SendType ==
    ASSUME toServer \in Seq(Commands(Ids)), NEW m \in Commands(Ids), Send(m)
    PROVE  toServer' \in Seq(Commands(Ids))
    BY AppendType DEF Send

LEMMA ReplyType ==
    ASSUME toProxy \in Seq(Commands(Nat)), NEW m \in Commands(Nat), Reply(m)
    PROVE  toProxy' \in Seq(Commands(Nat))
    BY AppendType DEF Reply

LEMMA SpawnType ==
    ASSUME tasks \in Seq(Tasks), NEW op \in {"open", "close", "ready", "write"},
           NEW l \in Ids, NEW d \in Nat, Spawn(op, l, d)
    PROVE  tasks' \in Seq(Tasks)
<1>1. [op |-> op, id |-> l, data |-> d] \in Tasks
    BY DEF Tasks
<1> QED
    BY <1>1, AppendType DEF Spawn

LEMMA TaskTyped ==
    ASSUME NEW t \in Tasks
    PROVE  t.op \in {"open", "close", "ready", "write"} /\ t.id \in Ids /\ t.data \in Nat
    BY DEF Tasks

LEMMA RidType ==
    ASSUME NEW c \in Channels
    PROVE  c.rid \in Nat
    BY DEF Channels

LEMMA PeerType ==
    ASSUME NEW s \in Sockets
    PROVE  s.peer \in Nat /\ s.sent \in Nat
    BY DEF Sockets, Ids

LEMMA EnterCloseType ==
    ASSUME NEW c \in Channels, NEW b, NEW who \in {"server", "write", "teardown"}
    PROVE  EnterClose(c, b, who) \in Channels
<1>1. CASE b
    BY <1>1 DEF EnterClose, Channels
<1>2. CASE ~b
    BY <1>2 DEF EnterClose, Channels
<1> QED
    BY <1>1, <1>2

LEMMA DrainType ==
    ASSUME NEW c \in Channels, NEW b \in BOOLEAN
    PROVE  [c EXCEPT !.drain = b] \in Channels
    BY DEF Channels

LEMMA TeardownType ==
    ASSUME NEW c \in Channels, NEW td \in {"running", "done"}
    PROVE  [c EXCEPT !.td = td] \in Channels
    BY DEF Channels

LEMMA CloserType ==
    ASSUME NEW c \in Channels
    PROVE  /\ [c EXCEPT !.closer = "none", !.td = "done"] \in Channels
           /\ [c EXCEPT !.closer = "none", !.td = c.td] \in Channels
    BY DEF Channels

LEMMA HeadTyped ==
    ASSUME toProxy \in Seq(Commands(Nat)), toProxy # <<>>
    PROVE  /\ Head(toProxy) \in Commands(Nat)
           /\ Tail(toProxy) \in Seq(Commands(Nat))
    BY TailType

(* TypeOK is inductive.                                                    *)
LEMMA TypeStep ==
    ASSUME TypeOK, [Next]_vars
    PROVE  TypeOK'
<1>n. next_local_id \in 1 .. MaxId + 1
    BY DEF TypeOK
<1>s. streams \subseteq Ids
    BY DEF TypeOK
<1>c. chan \in [Ids -> Channels]
    BY DEF TypeOK
<1>z. closes \in [Ids -> Nat]
    BY DEF TypeOK
<1>t. tasks \in Seq(Tasks)
    BY DEF TypeOK
<1>g. go \in {"handshake", "run", "stop", "aborted", "done", "failed"}
    BY DEF TypeOK
<1>m. max_data_len \in Nat
    BY DEF TypeOK
<1>k. conn \in {"up", "lost", "closed"}
    BY DEF TypeOK
<1>p. toProxy \in Seq(Commands(Nat))
    BY DEF TypeOK
<1>o. toServer \in Seq(Commands(Ids))
    BY DEF TypeOK
<1>d. dev \in [Ids -> Devices]
    BY DEF TypeOK
<1>r. srv \in [RemoteIds -> Sockets]
    BY DEF TypeOK
<1>i. Ids \subseteq Nat /\ RemoteIds \subseteq Nat
    BY ProxyAssumption DEF Ids
<1>1. CASE UNCHANGED vars
    BY <1>1 DEF vars, proxyVars, loop, TypeOK
<1>2. ASSUME RecvHandshake, UNCHANGED srv PROVE TypeOK'
  <2>1. go' \in {"handshake", "run", "stop", "aborted", "done", "failed"}
      BY <1>2, <1>g DEF RecvHandshake, untouched
  <2>2. max_data_len' \in Nat
      BY <1>2, <1>m, <1>p, HeadTyped, CommandTyped, <1>i DEF RecvHandshake, untouched
  <2>3. toProxy' \in Seq(Commands(Nat))
      BY <1>2, <1>p, HeadTyped DEF RecvHandshake, untouched
  <2>4. UNCHANGED <<next_local_id, streams, chan, closes, tasks, conn, toServer, dev>>
      BY <1>2 DEF RecvHandshake, untouched
  <2> QED
      BY TypeOK, <1>2, <2>1, <2>2, <2>3, <2>4 DEF TypeOK
<1>3. ASSUME RecvOpen, UNCHANGED srv PROVE TypeOK'
  <2>h. Head(toProxy).arg0 \in Nat
      BY <1>3, <1>p, HeadTyped, CommandTyped DEF RecvOpen, untouched, Recv
  <2>1. next_local_id' \in 1 .. MaxId + 1
      BY <1>3, <1>n, ProxyAssumption DEF RecvOpen, untouched
  <2>2. chan' \in [Ids -> Channels]
      BY ZenonT(40), <1>3, <2>h, <1>c DEF RecvOpen, untouched, Channels
  <2>3. tasks' \in Seq(Tasks)
      BY <1>3, <1>t, <1>n, SpawnType DEF RecvOpen, untouched, Ids
  <2>4. toProxy' \in Seq(Commands(Nat))
      BY <1>3, <1>p, HeadTyped DEF RecvOpen, untouched, Recv
  <2>5. UNCHANGED <<streams, closes, go, max_data_len, conn, toServer, dev>>
      BY <1>3 DEF RecvOpen, untouched, Recv, Spawn
  <2> QED
      BY TypeOK, <1>3, <2>1, <2>2, <2>3, <2>4, <2>5 DEF TypeOK
<1>4. ASSUME RecvClse, UNCHANGED srv PROVE TypeOK'
  <2>1. tasks' \in Seq(Tasks)
      BY <1>4, <1>t, <1>s, <1>p, HeadTyped, CommandTyped, SpawnType, <1>i
      DEF RecvClse, untouched, Recv
  <2>2. toProxy' \in Seq(Commands(Nat))
      BY <1>4, <1>p, HeadTyped DEF RecvClse, untouched, Recv
  <2>3. UNCHANGED <<next_local_id, streams, chan, closes, go, max_data_len, conn, toServer, dev>>
      BY <1>4 DEF RecvClse, untouched, Recv, Spawn
  <2> QED
      BY TypeOK, <1>4, <2>1, <2>2, <2>3 DEF TypeOK
<1>5. ASSUME RecvWrte, UNCHANGED srv PROVE TypeOK'
  <2>1. tasks' \in Seq(Tasks)
      BY <1>5, <1>t, <1>s, <1>p, HeadTyped, CommandTyped, SpawnType, <1>i
      DEF RecvWrte, untouched, Recv
  <2>2. toProxy' \in Seq(Commands(Nat))
      BY <1>5, <1>p, HeadTyped DEF RecvWrte, untouched, Recv
  <2>3. UNCHANGED <<next_local_id, streams, chan, closes, go, max_data_len, conn, toServer, dev>>
      BY <1>5 DEF RecvWrte, untouched, Recv, Spawn
  <2> QED
      BY TypeOK, <1>5, <2>1, <2>2, <2>3 DEF TypeOK
<1>6. ASSUME RecvOkay, UNCHANGED srv PROVE TypeOK'
  <2>h. Head(toProxy).arg0 \in Nat
      BY <1>6, <1>p, HeadTyped, CommandTyped DEF RecvOkay, RidTaken, untouched, Recv
  <2>1. chan' \in [Ids -> Channels]
      BY <1>6, <2>h, <1>c DEF RecvOkay, RidTaken, untouched, Channels
  <2>2. tasks' \in Seq(Tasks)
      BY <1>6, <1>t, <1>s, SpawnType DEF RecvOkay, RidTaken, untouched
  <2>3. toProxy' \in Seq(Commands(Nat))
      BY <1>6, <1>p, HeadTyped DEF RecvOkay, RidTaken, untouched, Recv
  <2>4. UNCHANGED <<next_local_id, streams, closes, go, max_data_len, conn, toServer, dev>>
      BY <1>6 DEF RecvOkay, RidTaken, untouched, Recv, Spawn
  <2> QED
      BY TypeOK, <1>6, <2>1, <2>2, <2>3, <2>4 DEF TypeOK
<1>7. ASSUME ReverseAccept, UNCHANGED srv PROVE TypeOK'
  <2>h. next_local_id \in Ids
      BY <1>7, <1>n DEF ReverseAccept, Ids
  <2>1. next_local_id' \in 1 .. MaxId + 1
      BY <1>7, <1>n, ProxyAssumption DEF ReverseAccept
  <2>2. streams' \subseteq Ids
      BY <1>7, <1>s, <1>n DEF ReverseAccept, Register, Ids
  <2>3. chan' \in [Ids -> Channels]
      BY <1>7, <1>c, <1>n DEF ReverseAccept, Register, Channels, Unused, Ids
  <2>4. toServer' \in Seq(Commands(Ids))
      BY <1>7, <2>h, <1>o, MakeCommand, SendType, <1>i DEF ReverseAccept
  <2>5. dev' \in [Ids -> Devices]
      BY <1>7, <1>d DEF ReverseAccept, Register, Devices
  <2>6. UNCHANGED <<closes, tasks, go, max_data_len, conn, toProxy>>
      BY <1>7 DEF ReverseAccept, loop, Register
  <2> QED
      BY TypeOK, <1>7, <2>1, <2>2, <2>3, <2>4, <2>5, <2>6 DEF TypeOK
<1>8. ASSUME GoStops, UNCHANGED srv PROVE TypeOK'
  <2>1. chan' \in [Ids -> Channels]
      BY <1>8, <1>c DEF GoStops, Channels
  <2>2. go' \in {"handshake", "run", "stop", "aborted", "done", "failed"}
      BY <1>8, <1>g DEF GoStops
  <2>3. conn' \in {"up", "lost", "closed"}
      BY <1>8, <1>k DEF GoStops
  <2>4. UNCHANGED <<next_local_id, streams, closes, tasks, max_data_len, toProxy, toServer, dev>>
      BY <1>8 DEF GoStops
  <2> QED
      BY TypeOK, <1>8, <2>1, <2>2, <2>3, <2>4 DEF TypeOK
<1>9. ASSUME GoEnds, UNCHANGED srv PROVE TypeOK'
  <2>1. go' \in {"handshake", "run", "stop", "aborted", "done", "failed"}
      BY <1>9 DEF GoEnds, AllClosed
  <2>2. conn' \in {"up", "lost", "closed"}
      BY <1>9 DEF GoEnds, AllClosed
  <2>3. UNCHANGED <<next_local_id, streams, chan, closes, tasks, max_data_len, toProxy, toServer, dev>>
      BY <1>9 DEF GoEnds, AllClosed
  <2> QED
      BY TypeOK, <1>9, <2>1, <2>2, <2>3 DEF TypeOK
<1>10. ASSUME GoInterrupted, UNCHANGED srv PROVE TypeOK'
  <2>1. go' \in {"handshake", "run", "stop", "aborted", "done", "failed"}
      BY <1>10 DEF GoInterrupted
  <2>2. UNCHANGED <<next_local_id, streams, chan, closes, tasks, max_data_len, conn, toProxy, toServer, dev>>
      BY <1>10 DEF GoInterrupted
  <2> QED
      BY TypeOK, <1>10, <2>1, <2>2 DEF TypeOK
<1>11. ASSUME NEW l \in Ids, StartOpen(l), UNCHANGED srv PROVE TypeOK'
  <2>1. chan' \in [Ids -> Channels]
      BY <1>11, <1>c DEF StartOpen, Channels
  <2>2. tasks' \in Seq(Tasks)
      BY <1>11, <1>t, TailType DEF StartOpen, Start
  <2>3. UNCHANGED <<next_local_id, streams, closes, go, max_data_len, conn, toProxy, toServer, dev>>
      BY <1>11 DEF StartOpen, loop, Start
  <2> QED
      BY TypeOK, <1>11, <2>1, <2>2, <2>3 DEF TypeOK
<1>12. ASSUME NEW l \in Ids, StartReady(l), UNCHANGED srv PROVE TypeOK'
  <2>1. chan' \in [Ids -> Channels]
      BY <1>12, <1>c DEF StartReady, Channels
  <2>2. tasks' \in Seq(Tasks)
      BY <1>12, <1>t, TailType DEF StartReady, Start
  <2>3. UNCHANGED <<next_local_id, streams, closes, go, max_data_len, conn, toProxy, toServer, dev>>
      BY <1>12 DEF StartReady, loop, Start
  <2> QED
      BY TypeOK, <1>12, <2>1, <2>2, <2>3 DEF TypeOK
<1>13. ASSUME NEW l \in Ids, StartClose(l), UNCHANGED srv PROVE TypeOK'
  <2>1. streams' \subseteq Ids
      BY <1>13, <1>s DEF StartClose
  <2>2. chan' \in [Ids -> Channels]
      BY <1>13, <1>c, EnterCloseType DEF StartClose
  <2>3. tasks' \in Seq(Tasks)
      BY <1>13, <1>t, TailType DEF StartClose, Start
  <2>4. UNCHANGED <<next_local_id, closes, go, max_data_len, conn, toProxy, toServer, dev>>
      BY <1>13 DEF StartClose, loop, Start
  <2> QED
      BY TypeOK, <1>13, <2>1, <2>2, <2>3, <2>4 DEF TypeOK
<1>14. ASSUME NEW l \in Ids, StartWrite(l), UNCHANGED srv PROVE TypeOK'
  <2>h. Head(tasks).data \in Nat
      BY <1>14, <1>t, TailType, TaskTyped DEF StartWrite, Start
  <2>1. streams' \subseteq Ids
      BY <1>14, <1>s DEF StartWrite, WriteAcks, WriteRaises
  <2>2. chan' \in [Ids -> Channels]
    <3>1. CASE UNCHANGED chan
        BY <3>1, <1>c
    <3>2. CASE chan' = [chan EXCEPT ![l].drain = TRUE]
        BY <3>2, <1>c, DrainType
    <3>3. CASE WriteRaises(l, chan[l])
        BY <3>3, <1>c, EnterCloseType DEF WriteRaises
    <3> QED
        BY <1>14, <3>1, <3>2, <3>3 DEF StartWrite
  <2>3. tasks' \in Seq(Tasks)
      BY <1>14, <1>t, TailType DEF StartWrite, Start
  <2>4. toServer' \in Seq(Commands(Ids))
      BY <1>14, <1>c, <1>o, RidType, MakeCommand, SendType, <1>i
      DEF StartWrite, WriteAcks, WriteRaises
  <2>5. dev' \in [Ids -> Devices]
      BY <1>14, <2>h, <1>d DEF StartWrite, HandOver, Devices
  <2>6. UNCHANGED <<next_local_id, closes, go, max_data_len, conn, toProxy>>
      BY <1>14 DEF StartWrite, loop, WriteAcks, WriteRaises, HandOver, Start
  <2> QED
      BY TypeOK, <1>14, <2>1, <2>2, <2>3, <2>4, <2>5, <2>6 DEF TypeOK
<1>15. ASSUME NEW l \in Ids, WriteDrained(l), UNCHANGED srv PROVE TypeOK'
  <2>1. streams' \subseteq Ids
      BY <1>15, <1>s DEF WriteDrained, WriteAcks, WriteRaises
  <2>2. chan' \in [Ids -> Channels]
      BY <1>15, <1>c, EnterCloseType, DrainType DEF WriteDrained, WriteRaises
  <2>3. toServer' \in Seq(Commands(Ids))
      BY <1>15, <1>c, <1>o, RidType, MakeCommand, SendType, <1>i
      DEF WriteDrained, WriteAcks, WriteRaises
  <2>4. UNCHANGED <<next_local_id, closes, tasks, go, max_data_len, conn, toProxy, dev>>
      BY <1>15 DEF WriteDrained, loop, WriteAcks, WriteRaises
  <2> QED
      BY TypeOK, <1>15, <2>1, <2>2, <2>3, <2>4 DEF TypeOK
<1>16. ASSUME NEW l \in Ids, OpenSucceeds(l), UNCHANGED srv PROVE TypeOK'
  <2>1. streams' \subseteq Ids
      BY <1>16, <1>s DEF OpenSucceeds, Register
  <2>2. chan' \in [Ids -> Channels]
      BY ZenonT(40), <1>16, <1>c DEF OpenSucceeds, Register, Channels
  <2>3. toServer' \in Seq(Commands(Ids))
      BY <1>16, <1>c, <1>o, RidType, MakeCommand, SendType, <1>i DEF OpenSucceeds
  <2>4. dev' \in [Ids -> Devices]
      BY <1>16, <1>d DEF OpenSucceeds, Register, Devices
  <2>5. UNCHANGED <<next_local_id, closes, tasks, go, max_data_len, conn, toProxy>>
      BY <1>16 DEF OpenSucceeds, loop, Register
  <2> QED
      BY TypeOK, <1>16, <2>1, <2>2, <2>3, <2>4, <2>5 DEF TypeOK
<1>17. ASSUME NEW l \in Ids, OpenReady(l), UNCHANGED srv PROVE TypeOK'
  <2>1. chan' \in [Ids -> Channels]
      BY <1>17, <1>c DEF OpenReady, FirstPermit, Channels
  <2>2. UNCHANGED <<next_local_id, streams, closes, tasks, go, max_data_len, conn, toProxy, toServer, dev>>
      BY <1>17 DEF OpenReady, FirstPermit, loop
  <2> QED
      BY TypeOK, <1>17, <2>1, <2>2 DEF TypeOK
<1>18. ASSUME NEW l \in Ids, OpenUnannounced(l), UNCHANGED srv PROVE TypeOK'
  <2>1. chan' \in [Ids -> Channels]
      BY <1>18, <1>c DEF OpenUnannounced, Channels
  <2>2. UNCHANGED <<next_local_id, streams, closes, tasks, go, max_data_len, conn, toProxy, toServer, dev>>
      BY <1>18 DEF OpenUnannounced, loop
  <2> QED
      BY TypeOK, <1>18, <2>1, <2>2 DEF TypeOK
<1>19. ASSUME NEW l \in Ids, OpenFails(l), UNCHANGED srv PROVE TypeOK'
  <2>1. chan' \in [Ids -> Channels]
      BY <1>19, <1>c DEF OpenFails, Channels
  <2>2. toServer' \in Seq(Commands(Ids))
      BY <1>19, <1>c, <1>o, RidType, MakeCommand, SendType, <1>i
      DEF OpenFails, ReportsFailure
  <2>3. UNCHANGED <<next_local_id, streams, closes, tasks, go, max_data_len, conn, toProxy, dev>>
      BY <1>19 DEF OpenFails, ReportsFailure, loop
  <2> QED
      BY TypeOK, <1>19, <2>1, <2>2, <2>3 DEF TypeOK
<1>38. ASSUME NEW l \in Ids, AnswerBegins(l), UNCHANGED srv PROVE TypeOK'
  <2>1. chan' \in [Ids -> Channels]
      BY <1>38, <1>c DEF AnswerBegins, Channels
  <2>2. toServer' \in Seq(Commands(Ids))
      BY <1>38, <1>c, <1>o, RidType, MakeCommand, SendType, <1>i DEF AnswerBegins
  <2>3. UNCHANGED <<next_local_id, streams, closes, tasks, go, max_data_len, conn, toProxy, dev>>
      BY <1>38 DEF AnswerBegins, loop
  <2> QED
      BY TypeOK, <1>38, <2>1, <2>2, <2>3 DEF TypeOK
<1>39. ASSUME NEW l \in Ids, AnswerData(l), UNCHANGED srv PROVE TypeOK'
  <2>1. chan' \in [Ids -> Channels]
      BY <1>39, <1>c DEF AnswerData, Channels
  <2>2. toServer' \in Seq(Commands(Ids))
      BY <1>39, <1>c, <1>o, RidType, MakeCommand, SendType, <1>i DEF AnswerData
  <2>3. UNCHANGED <<next_local_id, streams, closes, tasks, go, max_data_len, conn, toProxy, dev>>
      BY <1>39 DEF AnswerData, loop
  <2> QED
      BY TypeOK, <1>39, <2>1, <2>2, <2>3 DEF TypeOK
<1>40. ASSUME NEW l \in Ids, AnswerEnds(l), UNCHANGED srv PROVE TypeOK'
  <2>1. chan' \in [Ids -> Channels]
      BY <1>40, <1>c DEF AnswerEnds, Channels
  <2>2. toServer' \in Seq(Commands(Ids))
      BY <1>40, <1>c, <1>o, RidType, MakeCommand, SendType, <1>i DEF AnswerEnds, SendClse
  <2>3. closes' \in [Ids -> Nat]
      BY <1>40, <1>z DEF AnswerEnds, SendClse
  <2>4. UNCHANGED <<next_local_id, streams, tasks, go, max_data_len, conn, toProxy, dev>>
      BY <1>40 DEF AnswerEnds, loop
  <2> QED
      BY TypeOK, <1>40, <2>1, <2>2, <2>3, <2>4 DEF TypeOK
<1>41. ASSUME NEW l \in Ids, AnswerRaises(l), UNCHANGED srv PROVE TypeOK'
  <2>1. chan' \in [Ids -> Channels]
      BY <1>41, <1>c DEF AnswerRaises, Channels
  <2>2. toServer' \in Seq(Commands(Ids))
      BY <1>41, <1>c, <1>o, RidType, MakeCommand, SendType, <1>i
      DEF AnswerRaises, ReportsFailure
  <2>3. UNCHANGED <<next_local_id, streams, closes, tasks, go, max_data_len, conn, toProxy, dev>>
      BY <1>41 DEF AnswerRaises, loop
  <2> QED
      BY TypeOK, <1>41, <2>1, <2>2, <2>3 DEF TypeOK
<1>20. ASSUME NEW l \in Ids, SinkAcquire(l), UNCHANGED srv PROVE TypeOK'
  <2>1. chan' \in [Ids -> Channels]
      BY <1>20, <1>c DEF SinkAcquire, Permitted, Channels
  <2>2. UNCHANGED <<next_local_id, streams, closes, tasks, go, max_data_len, conn, toProxy, toServer, dev>>
      BY <1>20 DEF SinkAcquire, Permitted, loop
  <2> QED
      BY TypeOK, <1>20, <2>1, <2>2 DEF TypeOK
<1>21. ASSUME NEW l \in Ids, SinkReads(l), UNCHANGED srv PROVE TypeOK'
  <2>1. chan' \in [Ids -> Channels]
      BY <1>21, <1>c DEF SinkReads, AfterChunk, Channels
  <2>2. toServer' \in Seq(Commands(Ids))
      BY <1>21, <1>c, <1>o, <1>m, RidType, MakeCommand, SendType, <1>i
      DEF SinkReads, AfterChunk
  <2>3. dev' \in [Ids -> Devices]
      BY <1>21, <1>d, <1>m DEF SinkReads, AfterChunk, Devices
  <2>4. UNCHANGED <<next_local_id, streams, closes, tasks, go, max_data_len, conn, toProxy>>
      BY <1>21 DEF SinkReads, AfterChunk, loop
  <2> QED
      BY TypeOK, <1>21, <2>1, <2>2, <2>3, <2>4 DEF TypeOK
<1>22. ASSUME NEW l \in Ids, SinkEnds(l), UNCHANGED srv PROVE TypeOK'
  <2>1. streams' \subseteq Ids
      BY <1>22, <1>s DEF SinkEnds, SinkSendRaises, SinkCloses
  <2>2. chan' \in [Ids -> Channels]
      BY <1>22, <1>c DEF SinkEnds, SinkSendRaises, SinkCloses, Channels
  <2>3. closes' \in [Ids -> Nat]
      BY <1>22, <1>z DEF SinkEnds, SinkSendRaises, SinkCloses, SendClse
  <2>4. toServer' \in Seq(Commands(Ids))
      BY <1>22, <1>c, <1>o, RidType, MakeCommand, SendType, <1>i
      DEF SinkEnds, SinkSendRaises, SinkCloses, SendClse
  <2>5. UNCHANGED <<next_local_id, tasks, go, max_data_len, conn, toProxy, dev>>
      BY <1>22 DEF SinkEnds, SinkSendRaises, loop, SinkCloses, SendClse
  <2> QED
      BY TypeOK, <1>22, <2>1, <2>2, <2>3, <2>4, <2>5 DEF TypeOK
<1>23. ASSUME NEW l \in Ids, SinkCancelled(l), UNCHANGED srv PROVE TypeOK'
  <2>1. streams' \subseteq Ids
      BY <1>23, <1>s DEF SinkCancelled, SinkCloses
  <2>2. chan' \in [Ids -> Channels]
      BY <1>23, <1>c DEF SinkCancelled, SinkCloses, Channels
  <2>3. closes' \in [Ids -> Nat]
      BY <1>23, <1>z DEF SinkCancelled, SinkCloses, SendClse
  <2>4. toServer' \in Seq(Commands(Ids))
      BY <1>23, <1>c, <1>o, RidType, MakeCommand, SendType, <1>i
      DEF SinkCancelled, SinkCloses, SendClse
  <2>5. UNCHANGED <<next_local_id, tasks, go, max_data_len, conn, toProxy, dev>>
      BY <1>23 DEF SinkCancelled, loop, SinkCloses, SendClse
  <2> QED
      BY TypeOK, <1>23, <2>1, <2>2, <2>3, <2>4, <2>5 DEF TypeOK
<1>24. ASSUME NEW l \in Ids, CloserResumes(l), UNCHANGED srv PROVE TypeOK'
  <2>1. chan' \in [Ids -> Channels]
    <3>1. CASE chan[l].closer = "teardown"
      <4>1. chan' = [chan EXCEPT ![l] = [chan[l] EXCEPT !.closer = "none", !.td = "done"]]
          BY <1>24, <3>1 DEF CloserResumes
      <4> QED
          BY <4>1, <1>c, CloserType
    <3>2. CASE chan[l].closer # "teardown"
      <4>1. chan' = [chan EXCEPT ![l] = [chan[l] EXCEPT !.closer = "none", !.td = chan[l].td]]
          BY <1>24, <3>2 DEF CloserResumes
      <4> QED
          BY <4>1, <1>c, CloserType
    <3> QED
        BY <3>1, <3>2
  <2>2. closes' \in [Ids -> Nat]
      BY <1>24, <1>z DEF CloserResumes, SendClse
  <2>3. toServer' \in Seq(Commands(Ids))
      BY <1>24, <1>c, <1>o, RidType, MakeCommand, SendType, <1>i DEF CloserResumes, SendClse
  <2>4. UNCHANGED <<next_local_id, streams, tasks, go, max_data_len, conn, toProxy, dev>>
      BY <1>24 DEF CloserResumes, loop, SendClse
  <2> QED
      BY TypeOK, <1>24, <2>1, <2>2, <2>3, <2>4 DEF TypeOK
<1>25. ASSUME NEW l \in Ids, TeardownClose(l), UNCHANGED srv PROVE TypeOK'
  <2>1. streams' \subseteq Ids
      BY <1>25, <1>s DEF TeardownClose, TeardownWaits
  <2>2. chan' \in [Ids -> Channels]
      BY <1>25, <1>c, EnterCloseType, TeardownType DEF TeardownClose, TeardownWaits
  <2>3. UNCHANGED <<next_local_id, closes, tasks, go, max_data_len, conn, toProxy, toServer, dev>>
      BY <1>25 DEF TeardownClose, TeardownWaits, loop
  <2> QED
      BY TypeOK, <1>25, <2>1, <2>2, <2>3 DEF TypeOK
<1>26. ASSUME ServerCnxn PROVE TypeOK'
  <2>1. toProxy' \in Seq(Commands(Nat))
      BY <1>26, <1>p, <1>i, MakeCommand, ReplyType, SessionAssumption DEF ServerCnxn
  <2>2. toServer' \in Seq(Commands(Ids))
      BY <1>26, <1>o, TailType DEF ServerCnxn, ServerTakes
  <2>3. UNCHANGED <<next_local_id, streams, chan, closes, tasks, go, max_data_len, conn, dev, srv>>
      BY <1>26 DEF ServerCnxn, proxySide, ServerTakes
  <2> QED
      BY TypeOK, <2>1, <2>2, <2>3 DEF TypeOK
<1>27. ASSUME ServerOkay PROVE TypeOK'
  <2>h. Head(toServer).arg0 \in {0} \cup Ids /\ Head(toServer).arg0 \in Nat /\ Head(toServer).arg1 \in Nat
      BY <1>27, <1>o, <1>i, TailType, CommandTyped DEF ServerOkay, ServerTakes
  <2>1. toProxy' \in Seq(Commands(Nat))
      BY <1>27, <2>h, <1>p, <1>i, MakeCommand, ReplyType, SessionAssumption DEF ServerOkay
  <2>2. toServer' \in Seq(Commands(Ids))
      BY <1>27, <1>o, TailType DEF ServerOkay, ServerTakes
  <2>3. srv' \in [RemoteIds -> Sockets]
      BY <1>27, <2>h, <1>r DEF ServerOkay, Sockets, Idle
  <2>4. UNCHANGED <<next_local_id, streams, chan, closes, tasks, go, max_data_len, conn, dev>>
      BY <1>27 DEF ServerOkay, proxySide, ServerTakes
  <2> QED
      BY TypeOK, <2>1, <2>2, <2>3, <2>4 DEF TypeOK
<1>28. ASSUME ServerWrte PROVE TypeOK'
  <2>h. Head(toServer).arg0 \in {0} \cup Ids /\ Head(toServer).arg0 \in Nat /\ Head(toServer).arg1 \in Nat
      BY <1>28, <1>o, <1>i, TailType, CommandTyped DEF ServerWrte, ServerTakes
  <2>1. toServer' \in Seq(Commands(Ids))
      BY <1>28, <1>o, TailType DEF ServerWrte, ServerTakes
  <2>2. srv' \in [RemoteIds -> Sockets]
      BY <1>28, <2>h, <1>r DEF ServerWrte, Sockets, Idle
  <2>3. UNCHANGED <<next_local_id, streams, chan, closes, tasks, go, max_data_len, conn, toProxy, dev>>
      BY <1>28 DEF ServerWrte, proxySide, ServerTakes
  <2> QED
      BY TypeOK, <2>1, <2>2, <2>3 DEF TypeOK
<1>29. ASSUME ServerClse PROVE TypeOK'
  <2>h. Head(toServer).arg0 \in {0} \cup Ids /\ Head(toServer).arg0 \in Nat /\ Head(toServer).arg1 \in Nat
      BY <1>29, <1>o, <1>i, TailType, CommandTyped DEF ServerClse, ServerTakes
  <2>1. toProxy' \in Seq(Commands(Nat))
      BY <1>29, <2>h, <1>p, <1>i, MakeCommand, ReplyType, SessionAssumption DEF ServerClse
  <2>2. toServer' \in Seq(Commands(Ids))
      BY <1>29, <1>o, TailType DEF ServerClse, ServerTakes
  <2>3. srv' \in [RemoteIds -> Sockets]
      BY <1>29, <2>h, <1>r DEF ServerClse, Sockets, Idle
  <2>4. UNCHANGED <<next_local_id, streams, chan, closes, tasks, go, max_data_len, conn, dev>>
      BY <1>29 DEF ServerClse, proxySide, ServerTakes
  <2> QED
      BY TypeOK, <2>1, <2>2, <2>3, <2>4 DEF TypeOK
<1>30. ASSUME ServerOpen PROVE TypeOK'
  <2>h. Head(toServer).arg0 \in {0} \cup Ids /\ Head(toServer).arg0 \in Nat /\ Head(toServer).arg1 \in Nat
      BY <1>30, <1>o, <1>i, TailType, CommandTyped DEF ServerOpen, ServerTakes
  <2>1. toProxy' \in Seq(Commands(Nat))
      BY <1>30, <2>h, <1>p, <1>i, MakeCommand, ReplyType, SessionAssumption DEF ServerOpen
  <2>2. toServer' \in Seq(Commands(Ids))
      BY <1>30, <1>o, TailType DEF ServerOpen, ServerTakes
  <2>3. srv' \in [RemoteIds -> Sockets]
    <3>1. Idle \in Sockets
        BY DEF Idle, Sockets
    <3>2. ASSUME NEW l \in {0} \cup Ids
          PROVE  [Idle EXCEPT !.st = "open", !.peer = l, !.credit = TRUE] \in Sockets
        BY DEF Idle, Sockets
    <3> QED
        BY <1>30, <2>h, <3>2, <1>r DEF ServerOpen
  <2>4. UNCHANGED <<next_local_id, streams, chan, closes, tasks, go, max_data_len, conn, dev>>
      BY <1>30 DEF ServerOpen, proxySide, ServerTakes
  <2> QED
      BY TypeOK, <2>1, <2>2, <2>3, <2>4 DEF TypeOK
<1>31. ASSUME ServerLost PROVE TypeOK'
  <2>1. conn' \in {"up", "lost", "closed"}
      BY <1>31 DEF ServerLost
  <2>2. toServer' \in Seq(Commands(Ids))
      BY <1>31 DEF ServerLost
  <2>3. UNCHANGED <<next_local_id, streams, chan, closes, tasks, go, max_data_len, toProxy, dev, srv>>
      BY <1>31 DEF ServerLost, proxySide
  <2> QED
      BY TypeOK, <2>1, <2>2, <2>3 DEF TypeOK
<1>32. ASSUME NEW r \in RemoteIds, ClientOpens(r) PROVE TypeOK'
  <2>1. toProxy' \in Seq(Commands(Nat))
      BY <1>32, <1>p, <1>r, PeerType, MakeCommand, ReplyType, <1>i DEF ClientOpens
  <2>2. srv' \in [RemoteIds -> Sockets]
      BY <1>32, <1>r DEF ClientOpens, Sockets
  <2>3. UNCHANGED <<next_local_id, streams, chan, closes, tasks, go, max_data_len, conn, toServer, dev>>
      BY <1>32 DEF ClientOpens, proxySide
  <2> QED
      BY TypeOK, <2>1, <2>2, <2>3 DEF TypeOK
<1>33. ASSUME NEW r \in RemoteIds, ClientWrites(r) PROVE TypeOK'
  <2>h. srv[r].peer \in Nat /\ srv[r].sent + 1 \in Nat
      BY <1>r, PeerType
  <2>1. toProxy' \in Seq(Commands(Nat))
      BY <1>33, <1>p, <1>r, <2>h, MakeCommand, ReplyType, <1>i DEF ClientWrites
  <2>2. srv' \in [RemoteIds -> Sockets]
      BY <1>33, <1>r DEF ClientWrites, Sockets
  <2>3. UNCHANGED <<next_local_id, streams, chan, closes, tasks, go, max_data_len, conn, toServer, dev>>
      BY <1>33 DEF ClientWrites, proxySide
  <2> QED
      BY TypeOK, <2>1, <2>2, <2>3 DEF TypeOK
<1>34. ASSUME NEW r \in RemoteIds, ClientReads(r) PROVE TypeOK'
  <2>1. toProxy' \in Seq(Commands(Nat))
      BY <1>34, <1>p, <1>r, PeerType, MakeCommand, ReplyType, <1>i DEF ClientReads
  <2>2. srv' \in [RemoteIds -> Sockets]
      BY <1>34, <1>r DEF ClientReads, Sockets
  <2>3. UNCHANGED <<next_local_id, streams, chan, closes, tasks, go, max_data_len, conn, toServer, dev>>
      BY <1>34 DEF ClientReads, proxySide
  <2> QED
      BY TypeOK, <2>1, <2>2, <2>3 DEF TypeOK
<1>35. ASSUME NEW r \in RemoteIds, ClientCloses(r) PROVE TypeOK'
  <2>1. toProxy' \in Seq(Commands(Nat))
      BY <1>35, <1>p, <1>r, PeerType, MakeCommand, ReplyType, <1>i DEF ClientCloses
  <2>2. srv' \in [RemoteIds -> Sockets]
      BY <1>35, <1>r DEF ClientCloses, Sockets
  <2>3. UNCHANGED <<next_local_id, streams, chan, closes, tasks, go, max_data_len, conn, toServer, dev>>
      BY <1>35 DEF ClientCloses, proxySide
  <2> QED
      BY TypeOK, <2>1, <2>2, <2>3 DEF TypeOK
<1>36. ASSUME NEW l \in Ids, DeviceProduces(l) PROVE TypeOK'
  <2>1. dev' \in [Ids -> Devices]
      BY <1>36, <1>d DEF DeviceProduces, Devices
  <2>2. UNCHANGED <<next_local_id, streams, chan, closes, tasks, go, max_data_len, conn, toProxy, toServer, srv>>
      BY <1>36 DEF DeviceProduces, loop, DeviceKeeps
  <2> QED
      BY TypeOK, <2>1, <2>2 DEF TypeOK
<1>37. ASSUME NEW l \in Ids, DeviceEnds(l) PROVE TypeOK'
  <2>1. dev' \in [Ids -> Devices]
      BY <1>37, <1>d DEF DeviceEnds, Devices
  <2>2. UNCHANGED <<next_local_id, streams, chan, closes, tasks, go, max_data_len, conn, toProxy, toServer, srv>>
      BY <1>37 DEF DeviceEnds, loop, DeviceKeeps
  <2> QED
      BY TypeOK, <2>1, <2>2 DEF TypeOK
<1> QED
    BY <1>1, <1>2, <1>3, <1>4, <1>5, <1>6, <1>7, <1>8, <1>9, <1>10, <1>11, <1>12, <1>13,
       <1>14, <1>15, <1>16, <1>17, <1>18, <1>19, <1>20, <1>21, <1>22, <1>23, <1>24,
       <1>25, <1>26, <1>27, <1>28, <1>29, <1>30, <1>31, <1>32, <1>33, <1>34, <1>35,
       <1>36, <1>37, <1>38, <1>39, <1>40, <1>41
    DEF Next, ProxyNext, RecvSome, StartSome, OpenSome, AnswerGoesOn, SinkSome, ServerNext,
        ServerHandles, DeviceNext

-----------------------------------------------------------------------------
(* Shape is inductive.  First, what does not disturb it.                   *)

LEMMA ShapeKept ==
    ASSUME NEW k \in Ids, TypeOK, ShapeOf(k),
           chan'[k] = chan[k], closes'[k] = closes[k], k \in streams' <=> k \in streams,
           next_local_id' \in Nat, next_local_id' >= next_local_id, go' = go
    PROVE  ShapeOf(k)'
<1>1. k \in Nat /\ next_local_id \in Nat
    BY ProxyAssumption DEF TypeOK, Ids
<1> QED
    BY <1>1 DEF ShapeOf

(* The fields that ShapeOf looks at.                                       *)
SameShape(k) ==
    /\ chan'[k].open = chan[k].open
    /\ chan'[k].sink = chan[k].sink
    /\ chan'[k].writer = chan[k].writer
    /\ chan'[k].closer = chan[k].closer
    /\ chan'[k].td = chan[k].td

LEMMA FreshSame ==
    ASSUME TypeOK, FreshOpens, tasks' = tasks,
           next_local_id' \in Nat, next_local_id' >= next_local_id,
           \A k \in Ids : k < next_local_id /\ chan[k].open = "none" => chan'[k].open = "none"
    PROVE  FreshOpens'
<1>1. tasks \in Seq(Tasks) /\ next_local_id \in Nat /\ Ids \subseteq Nat
    BY ProxyAssumption DEF TypeOK, Ids
<1>a. \A i \in 1 .. Len(tasks) : tasks[i].id \in Ids
    BY <1>1, TaskTyped
<1>2. \A i \in 1 .. Len(tasks) : tasks[i].id \in Ids /\ tasks[i].id \in Nat
    BY <1>1, <1>a
<1> QED
    BY <1>1, <1>2 DEF FreshOpens

LEMMA FreshTail ==
    ASSUME TypeOK, FreshOpens, NEW op, NEW l, Start(op, l), next_local_id' = next_local_id,
           \A k \in Ids : chan[k].open = "none" /\ ~(op = "open" /\ k = l)
                => chan'[k].open = "none"
    PROVE  FreshOpens'
<1>1. tasks \in Seq(Tasks) /\ tasks # <<>> /\ tasks' = Tail(tasks)
    BY DEF TypeOK, Start
<1>2. \A i \in 1 .. Len(tasks) : tasks[i].id \in Ids
    BY <1>1, TaskTyped
<1>3. /\ Len(tasks) \in Nat \ {0}
      /\ Len(tasks') = Len(tasks) - 1
      /\ \A i \in 1 .. Len(tasks') : i + 1 \in 1 .. Len(tasks) /\ tasks'[i] = tasks[i + 1]
      /\ tasks[1].op = op /\ tasks[1].id = l
    BY <1>1, TailType DEF Start
<1>4. ASSUME NEW i \in 1 .. Len(tasks'), tasks'[i].op = "open"
      PROVE  /\ tasks'[i].id < next_local_id'
             /\ chan'[tasks'[i].id].open = "none"
             /\ \A j \in 1 .. Len(tasks') :
                   tasks'[j].op = "open" /\ tasks'[j].id = tasks'[i].id => i = j
  <2>1. i + 1 \in 1 .. Len(tasks) /\ tasks[i + 1].op = "open" /\ i + 1 # 1
      BY <1>3, <1>4
  <2>2. /\ tasks[i + 1].id < next_local_id
        /\ chan[tasks[i + 1].id].open = "none"
        /\ \A j \in 1 .. Len(tasks) :
              tasks[j].op = "open" /\ tasks[j].id = tasks[i + 1].id => i + 1 = j
      BY <2>1 DEF FreshOpens
  <2>3. ~(op = "open" /\ tasks[i + 1].id = l)
      BY <1>3, <2>1, <2>2
  <2>4. ASSUME NEW j \in 1 .. Len(tasks'), tasks'[j].op = "open", tasks'[j].id = tasks'[i].id
        PROVE  i = j
      BY SMTT(20), <1>3, <2>2, <2>4
  <2> QED
      BY <1>2, <1>3, <2>1, <2>2, <2>3, <2>4
<1> QED
    BY <1>4 DEF FreshOpens

LEMMA FreshAppend ==
    ASSUME TypeOK, FreshOpens, NEW op, NEW l, NEW d, Spawn(op, l, d),
           \A k \in Ids : chan[k].open = "none" => chan'[k].open = "none",
           \/ op # "open" /\ next_local_id' = next_local_id
           \/ /\ l = next_local_id /\ l \in Ids /\ chan[l].open = "none"
              /\ next_local_id' = next_local_id + 1
    PROVE  FreshOpens'
<1> DEFINE t == [op |-> op, id |-> l, data |-> d]
<1>1. tasks \in Seq(Tasks) /\ next_local_id \in Nat /\ Ids \subseteq Nat
    BY ProxyAssumption DEF TypeOK, Ids
<1>a. \A i \in 1 .. Len(tasks) : tasks[i].id \in Ids
    BY <1>1, TaskTyped
<1>2. \A i \in 1 .. Len(tasks) : tasks[i].id \in Ids /\ tasks[i].id \in Nat
    BY <1>1, <1>a
<1>3. /\ Len(tasks) \in Nat
      /\ Len(tasks') = Len(tasks) + 1
      /\ \A i \in 1 .. Len(tasks) : tasks'[i] = tasks[i]
      /\ tasks'[Len(tasks) + 1] = t
    BY <1>1 DEF Spawn
<1>4. \A i \in 1 .. Len(tasks') : i \in 1 .. Len(tasks) \/ i = Len(tasks) + 1
    BY <1>3
<1>5. ASSUME NEW i \in 1 .. Len(tasks'), tasks'[i].op = "open"
      PROVE  tasks'[i].id < next_local_id' /\ chan'[tasks'[i].id].open = "none"
  <2>1. CASE i \in 1 .. Len(tasks)
      BY <1>1, <1>2, <1>3, <1>5, <2>1 DEF FreshOpens
  <2>2. CASE i = Len(tasks) + 1
      BY <1>1, <1>3, <1>5, <2>2
  <2> QED
      BY <1>4, <2>1, <2>2
<1>6. ASSUME NEW i \in 1 .. Len(tasks'), NEW j \in 1 .. Len(tasks'),
             tasks'[i].op = "open", tasks'[j].op = "open", tasks'[j].id = tasks'[i].id
      PROVE  i = j
  <2>1. CASE i \in 1 .. Len(tasks) /\ j \in 1 .. Len(tasks)
      BY <1>3, <1>6, <2>1 DEF FreshOpens
  <2>2. CASE i = Len(tasks) + 1 /\ j \in 1 .. Len(tasks)
      BY <1>1, <1>2, <1>3, <1>6, <2>2 DEF FreshOpens
  <2>3. CASE j = Len(tasks) + 1 /\ i \in 1 .. Len(tasks)
      BY <1>1, <1>2, <1>3, <1>6, <2>3 DEF FreshOpens
  <2> QED
      BY <1>4, <2>1, <2>2, <2>3
<1> QED
    BY <1>5, <1>6 DEF FreshOpens

LEMMA ShapeStep ==
    ASSUME TypeOK, TypeOK', Shape, [Next]_vars
    PROVE  Shape'
<1>c. chan \in [Ids -> Channels]
    BY DEF TypeOK
<1>z. closes \in [Ids -> Nat]
    BY DEF TypeOK
<1>t. tasks \in Seq(Tasks)
    BY DEF TypeOK
<1>n. next_local_id \in Nat /\ next_local_id' \in Nat /\ Ids \subseteq Nat
    BY ProxyAssumption DEF TypeOK, Ids
<1>s. \A k \in Ids : ShapeOf(k)
    BY DEF Shape
<1>f. FreshOpens /\ (WaitTakesCoroutines => go # "failed")
    BY DEF Shape
<1>1. ASSUME UNCHANGED vars
      PROVE  Shape'
  <2>1. UNCHANGED <<next_local_id, streams, chan, closes, tasks, go>>
      BY <1>1 DEF vars, proxyVars, loop
  <2> QED
      BY <2>1 DEF Shape, ShapeOf, FreshOpens
<1>2. ASSUME RecvHandshake
      PROVE  Shape'
  <2>1. \A k \in Ids : ShapeOf(k)'
      BY <1>2, <1>c, <1>z, <1>n, <1>s, <1>f DEF RecvHandshake, untouched, ShapeOf
  <2>2. FreshOpens'
      BY <1>2, <1>c, <1>n, <1>s, <1>f, FreshSame DEF RecvHandshake, untouched, ShapeOf
  <2>3. WaitTakesCoroutines => go' # "failed"
      BY <1>2, <1>f DEF RecvHandshake, untouched
  <2> QED
      BY <2>1, <2>2, <2>3 DEF Shape
<1>3. ASSUME RecvOpen
      PROVE  Shape'
  <2>1. next_local_id \in Ids /\ next_local_id' = next_local_id + 1
    <3>1. next_local_id \in 1 .. MaxId + 1
        BY DEF TypeOK
    <3> QED
        BY <1>3, <3>1, ProxyAssumption DEF RecvOpen, untouched, Ids
  <2>2. \A k \in Ids : SameShape(k)
      BY <1>3, <1>c DEF RecvOpen, untouched, SameShape, Channels
  <2>3. \A k \in Ids : ShapeOf(k)'
      BY <1>3, <1>n, <1>s, <2>1, <2>2 DEF RecvOpen, untouched, SameShape, ShapeOf
  <2>4. chan[next_local_id].open = "none"
      BY <1>n, <1>s, <2>1 DEF ShapeOf
  <2>5. \A k \in Ids : chan'[k].open = chan[k].open
      BY <2>2 DEF SameShape
  <2>6. Spawn("open", next_local_id, 0)
      BY <1>3 DEF RecvOpen, untouched
  <2>7. FreshOpens'
      BY <1>f, <2>1, <2>4, <2>5, <2>6, FreshAppend
  <2> QED
      BY <1>3, <1>f, <2>3, <2>7 DEF RecvOpen, untouched, Shape
<1>4. ASSUME RecvClse
      PROVE  Shape'
  <2>1. \A k \in Ids : ShapeOf(k)'
      BY <1>4, <1>c, <1>z, <1>n, <1>s, <1>f DEF RecvClse, untouched, Recv, Spawn, ShapeOf
  <2>2. FreshOpens'
      BY <1>4, <1>c, <1>n, <1>s, <1>f, FreshAppend, FreshSame
      DEF RecvClse, untouched, Recv, ShapeOf
  <2>3. WaitTakesCoroutines => go' # "failed"
      BY <1>4, <1>f DEF RecvClse, untouched, Recv, Spawn
  <2> QED
      BY <2>1, <2>2, <2>3 DEF Shape
<1>5. ASSUME RecvWrte
      PROVE  Shape'
  <2>1. \A k \in Ids : ShapeOf(k)'
      BY <1>5, <1>c, <1>z, <1>n, <1>s, <1>f DEF RecvWrte, untouched, Recv, Spawn, ShapeOf
  <2>2. FreshOpens'
      BY <1>5, <1>c, <1>n, <1>s, <1>f, FreshAppend, FreshSame
      DEF RecvWrte, untouched, Recv, ShapeOf
  <2>3. WaitTakesCoroutines => go' # "failed"
      BY <1>5, <1>f DEF RecvWrte, untouched, Recv, Spawn
  <2> QED
      BY <2>1, <2>2, <2>3 DEF Shape
<1>6. ASSUME RecvOkay
      PROVE  Shape'
  <2> DEFINE l == Target(Head(toProxy))
  <2>1. \/ UNCHANGED <<chan, tasks>>
        \/ Spawn("ready", l, 0) /\ \E rid : chan' = [chan EXCEPT ![l].rid = rid]
      BY <1>6 DEF RecvOkay, RidTaken, untouched
  <2>2. \A k \in Ids : SameShape(k)
    <3>1. CASE UNCHANGED chan
        BY <3>1 DEF SameShape
    <3>2. ASSUME NEW rid, chan' = [chan EXCEPT ![l].rid = rid]
          PROVE  \A k \in Ids : SameShape(k)
        BY <3>2, <1>c DEF SameShape, Channels
    <3> QED
        BY <2>1, <3>1, <3>2
  <2>3. \A k \in Ids : ShapeOf(k)'
      BY <1>6, <1>s, <2>2 DEF RecvOkay, RidTaken, untouched, SameShape, ShapeOf
  <2>4. \A k \in Ids : chan'[k].open = chan[k].open
      BY <2>2 DEF SameShape
  <2>5. FreshOpens'
      BY <1>6, <1>n, <1>f, <2>1, <2>4, FreshAppend, FreshSame
      DEF RecvOkay, RidTaken, untouched
  <2> QED
      BY <1>6, <1>f, <2>3, <2>5 DEF RecvOkay, RidTaken, untouched, Shape
<1>7. ASSUME ReverseAccept
      PROVE  Shape'
  <2>1. \A k \in Ids : ShapeOf(k)'
      BY <1>7, <1>c, <1>z, <1>n, <1>s, <1>f
      DEF ReverseAccept, Register, Unused, loop, ShapeOf
  <2>2. FreshOpens'
      BY <1>7, <1>c, <1>n, <1>s, <1>f, FreshSame
      DEF ReverseAccept, Register, Unused, loop, ShapeOf
  <2>3. WaitTakesCoroutines => go' # "failed"
      BY <1>7, <1>f DEF ReverseAccept, Register, Unused, loop
  <2> QED
      BY <2>1, <2>2, <2>3 DEF Shape
<1>8. ASSUME GoStops
      PROVE  Shape'
  <2>1. CASE streams = {}
    <3>1. \A k \in Ids : ShapeOf(k)'
        BY <1>8, <2>1, <1>s DEF GoStops, ShapeOf
    <3>2. FreshOpens'
        BY <1>8, <2>1, <1>n, <1>f, FreshSame DEF GoStops
    <3> QED
        BY <1>8, <2>1, <3>1, <3>2 DEF GoStops, Shape
  <2>2. CASE streams # {}
    <3>1. ASSUME NEW k \in Ids, k \in streams PROVE ShapeOf(k)'
      <4>1. chan'[k] = [chan[k] EXCEPT !.td = "queued"]
          BY <1>8, <2>2, <3>1 DEF GoStops
      <4> QED
          BY <1>8, <2>2, <3>1, <4>1, <1>c, <1>s DEF GoStops, ShapeOf, Channels
    <3>2. ASSUME NEW k \in Ids, k \notin streams PROVE ShapeOf(k)'
      <4>1. chan'[k] = chan[k]
          BY <1>8, <2>2, <3>2 DEF GoStops
      <4> QED
          BY <1>8, <2>2, <3>2, <4>1, <1>s DEF GoStops, ShapeOf
    <3>3. \A k \in Ids : chan'[k].open = chan[k].open
        BY <1>8, <2>2, <1>c DEF GoStops, Channels
    <3>4. FreshOpens'
        BY <1>8, <2>2, <1>n, <1>f, <3>3, FreshSame DEF GoStops
    <3> QED
        BY <1>8, <2>2, <3>1, <3>2, <3>4 DEF GoStops, Shape
  <2> QED
      BY <2>1, <2>2
<1>9. ASSUME GoEnds
      PROVE  Shape'
  <2>1. \A k \in Ids : ShapeOf(k)'
      BY <1>9, <1>c, <1>z, <1>n, <1>s, <1>f DEF GoEnds, AllClosed, ShapeOf
  <2>2. FreshOpens'
      BY <1>9, <1>c, <1>n, <1>s, <1>f, FreshSame DEF GoEnds, AllClosed, ShapeOf
  <2>3. WaitTakesCoroutines => go' # "failed"
      BY <1>9, <1>f DEF GoEnds, AllClosed
  <2> QED
      BY <2>1, <2>2, <2>3 DEF Shape
<1>10. ASSUME GoInterrupted
      PROVE  Shape'
  <2>1. \A k \in Ids : ShapeOf(k)'
      BY <1>10, <1>c, <1>z, <1>n, <1>s, <1>f DEF GoInterrupted, ShapeOf
  <2>2. FreshOpens'
      BY <1>10, <1>c, <1>n, <1>s, <1>f, FreshSame DEF GoInterrupted, ShapeOf
  <2>3. WaitTakesCoroutines => go' # "failed"
      BY <1>10, <1>f DEF GoInterrupted
  <2> QED
      BY <2>1, <2>2, <2>3 DEF Shape
<1>11. ASSUME NEW l \in Ids, StartOpen(l)
      PROVE  Shape'
  <2>1. chan[l].open = "none" /\ l < next_local_id
      BY <1>11, <1>f, <1>t, TailType DEF StartOpen, Start, FreshOpens
  <2>2. ASSUME NEW k \in Ids, k # l PROVE ShapeOf(k)'
      BY <1>11, <2>2, <1>c, <1>n, <1>s, ShapeKept DEF StartOpen, loop
  <2>3. ShapeOf(l)'
      BY <1>11, <1>c, <1>n, <1>s, <2>1 DEF StartOpen, loop, ShapeOf
  <2>4. FreshOpens'
      BY <1>11, <1>c, <1>n, <1>f, FreshTail DEF StartOpen
  <2> QED
      BY <1>11, <1>f, <2>2, <2>3, <2>4 DEF StartOpen, Shape, loop
<1>12. ASSUME NEW l \in Ids, StartReady(l)
      PROVE  Shape'
  <2>1. \A k \in Ids : ShapeOf(k)'
    <3>1. ASSUME NEW k \in Ids, k # l PROVE ShapeOf(k)'
        BY <1>12, <3>1, <1>c, <1>z, <1>n, <1>s, ShapeKept DEF StartReady, loop
    <3>2. ShapeOf(l)'
        BY <1>12, <1>c, <1>z, <1>n, <1>s DEF StartReady, loop, ShapeOf
    <3> QED
        BY <3>1, <3>2
  <2>2. FreshOpens'
      BY <1>12, <1>c, <1>n, <1>s, <1>f, FreshTail DEF StartReady, loop, ShapeOf
  <2>3. WaitTakesCoroutines => go' # "failed"
      BY <1>12, <1>f DEF StartReady, loop
  <2> QED
      BY <2>1, <2>2, <2>3 DEF Shape
<1>13. ASSUME NEW l \in Ids, StartClose(l)
      PROVE  Shape'
  <2>1. \A k \in Ids : ShapeOf(k)'
    <3>1. ASSUME NEW k \in Ids, k # l PROVE ShapeOf(k)'
        BY <1>13, <3>1, <1>c, <1>z, <1>n, <1>s, ShapeKept DEF StartClose, EnterClose, loop
    <3>2. ShapeOf(l)'
        BY <1>13, <1>c, <1>z, <1>n, <1>s DEF StartClose, EnterClose, loop, ShapeOf
    <3> QED
        BY <3>1, <3>2
  <2>2. FreshOpens'
      BY <1>13, <1>c, <1>n, <1>s, <1>f, FreshTail DEF StartClose, EnterClose, loop, ShapeOf
  <2>3. WaitTakesCoroutines => go' # "failed"
      BY <1>13, <1>f DEF StartClose, EnterClose, loop
  <2> QED
      BY <2>1, <2>2, <2>3 DEF Shape
<1>14. ASSUME NEW l \in Ids, StartWrite(l)
      PROVE  Shape'
  <2>1. UNCHANGED <<next_local_id, go>>
      BY <1>14 DEF StartWrite, loop
  <2>2. \/ UNCHANGED <<streams, closes>> /\ \E b \in BOOLEAN : chan' = [chan EXCEPT ![l].drain = b]
        \/ /\ UNCHANGED closes
           /\ streams' = streams \ {l}
           /\ \E b \in BOOLEAN : chan' =
                 [chan EXCEPT ![l] = EnterClose([chan[l] EXCEPT !.drain = b],
                                                l \in streams, "write")]
    <3>1. CASE UNCHANGED <<chan, streams, closes>>
      <4>1. chan' = [chan EXCEPT ![l].drain = chan[l].drain] /\ chan[l].drain \in BOOLEAN
          BY <3>1, <1>c DEF Channels
      <4> QED
          BY <3>1, <4>1
    <3>2. CASE chan' = [chan EXCEPT ![l].drain = TRUE] /\ UNCHANGED <<streams, closes>>
        BY <3>2
    <3>3. CASE WriteRaises(l, chan[l])
      <4>1. chan[l] = [chan[l] EXCEPT !.drain = chan[l].drain] /\ chan[l].drain \in BOOLEAN
          BY <1>c DEF Channels
      <4> QED
          BY <3>3, <4>1 DEF WriteRaises
    <3> QED
        BY <1>14, <3>1, <3>2, <3>3 DEF StartWrite, WriteAcks
  <2>3. CASE UNCHANGED <<streams, closes>> /\ \A k \in Ids : SameShape(k)
    <3>1. \A k \in Ids : ShapeOf(k)'
        BY <2>1, <2>3, <1>s DEF ShapeOf, SameShape
    <3>2. FreshOpens'
        BY <1>14, <2>1, <2>3, <1>n, <1>f, FreshTail DEF StartWrite, SameShape
    <3> QED
        BY <3>1, <3>2, <2>1, <1>f DEF Shape
  <2>4. ASSUME UNCHANGED closes, streams' = streams \ {l}, NEW b \in BOOLEAN,
               chan' = [chan EXCEPT ![l] = EnterClose([chan[l] EXCEPT !.drain = b],
                                                      l \in streams, "write")]
        PROVE  Shape'
    <3>1. ASSUME NEW k \in Ids, k # l PROVE ShapeOf(k)'
        BY <2>1, <2>4, <3>1, <1>c, <1>n, <1>s, ShapeKept
    <3>2. ShapeOf(l)'
      <4>1. CASE l \in streams
          BY <2>1, <2>4, <4>1, <1>c, <1>n, <1>s DEF ShapeOf, EnterClose, Channels
      <4>2. CASE l \notin streams
          BY <2>1, <2>4, <4>2, <1>c, <1>n, <1>s DEF ShapeOf, EnterClose, Channels
      <4> QED
          BY <4>1, <4>2
    <3>3. \A k \in Ids : chan'[k].open = chan[k].open
      <4>1. CASE l \in streams
          BY <2>4, <4>1, <1>c DEF EnterClose, Channels
      <4>2. CASE l \notin streams
          BY <2>4, <4>2, <1>c DEF EnterClose, Channels
      <4> QED
          BY <4>1, <4>2
    <3>4. FreshOpens'
        BY <1>14, <2>1, <3>3, <1>n, <1>f, FreshTail DEF StartWrite
    <3> QED
        BY <3>1, <3>2, <3>4, <2>1, <1>f DEF Shape
  <2>5. ASSUME NEW b \in BOOLEAN, chan' = [chan EXCEPT ![l].drain = b]
        PROVE  \A k \in Ids : SameShape(k)
      BY <2>5, <1>c DEF SameShape, Channels
  <2> QED
      BY <2>2, <2>3, <2>4, <2>5
<1>15. ASSUME NEW l \in Ids, WriteDrained(l)
      PROVE  Shape'
  <2>1. UNCHANGED <<next_local_id, go>>
      BY <1>15 DEF WriteDrained, loop
  <2>2. \/ UNCHANGED <<streams, closes>> /\ \E b \in BOOLEAN : chan' = [chan EXCEPT ![l].drain = b]
        \/ /\ UNCHANGED closes
           /\ streams' = streams \ {l}
           /\ \E b \in BOOLEAN : chan' =
                 [chan EXCEPT ![l] = EnterClose([chan[l] EXCEPT !.drain = b],
                                                l \in streams, "write")]
      BY <1>15 DEF WriteDrained, WriteAcks, WriteRaises
  <2>3. CASE UNCHANGED <<streams, closes>> /\ \A k \in Ids : SameShape(k)
    <3>1. \A k \in Ids : ShapeOf(k)'
        BY <2>1, <2>3, <1>s DEF ShapeOf, SameShape
    <3>2. FreshOpens'
        BY <1>15, <2>1, <2>3, <1>n, <1>f, FreshSame DEF WriteDrained, SameShape
    <3> QED
        BY <3>1, <3>2, <2>1, <1>f DEF Shape
  <2>4. ASSUME UNCHANGED closes, streams' = streams \ {l}, NEW b \in BOOLEAN,
               chan' = [chan EXCEPT ![l] = EnterClose([chan[l] EXCEPT !.drain = b],
                                                      l \in streams, "write")]
        PROVE  Shape'
    <3>1. ASSUME NEW k \in Ids, k # l PROVE ShapeOf(k)'
        BY <2>1, <2>4, <3>1, <1>c, <1>n, <1>s, ShapeKept
    <3>2. ShapeOf(l)'
      <4>1. CASE l \in streams
          BY <2>1, <2>4, <4>1, <1>c, <1>n, <1>s DEF ShapeOf, EnterClose, Channels
      <4>2. CASE l \notin streams
          BY <2>1, <2>4, <4>2, <1>c, <1>n, <1>s DEF ShapeOf, EnterClose, Channels
      <4> QED
          BY <4>1, <4>2
    <3>3. \A k \in Ids : chan'[k].open = chan[k].open
      <4>1. CASE l \in streams
          BY <2>4, <4>1, <1>c DEF EnterClose, Channels
      <4>2. CASE l \notin streams
          BY <2>4, <4>2, <1>c DEF EnterClose, Channels
      <4> QED
          BY <4>1, <4>2
    <3>4. FreshOpens'
        BY <1>15, <2>1, <3>3, <1>n, <1>f, FreshSame DEF WriteDrained
    <3> QED
        BY <3>1, <3>2, <3>4, <2>1, <1>f DEF Shape
  <2>5. ASSUME NEW b \in BOOLEAN, chan' = [chan EXCEPT ![l].drain = b]
        PROVE  \A k \in Ids : SameShape(k)
      BY <2>5, <1>c DEF SameShape, Channels
  <2> QED
      BY <2>2, <2>3, <2>4, <2>5
<1>16. ASSUME NEW l \in Ids, OpenSucceeds(l)
      PROVE  Shape'
  <2>1. \A k \in Ids : ShapeOf(k)'
    <3>1. ASSUME NEW k \in Ids, k # l PROVE ShapeOf(k)'
        BY <1>16, <3>1, <1>c, <1>z, <1>n, <1>s, ShapeKept DEF OpenSucceeds, Register, loop
    <3>2. ShapeOf(l)'
        BY <1>16, <1>c, <1>z, <1>n, <1>s DEF OpenSucceeds, Register, loop, ShapeOf
    <3> QED
        BY <3>1, <3>2
  <2>2. FreshOpens'
      BY <1>16, <1>c, <1>n, <1>s, <1>f, FreshSame DEF OpenSucceeds, Register, loop, ShapeOf
  <2>3. WaitTakesCoroutines => go' # "failed"
      BY <1>16, <1>f DEF OpenSucceeds, Register, loop
  <2> QED
      BY <2>1, <2>2, <2>3 DEF Shape
<1>17. ASSUME NEW l \in Ids, OpenReady(l)
      PROVE  Shape'
  <2>1. \A k \in Ids : ShapeOf(k)'
    <3>1. ASSUME NEW k \in Ids, k # l PROVE ShapeOf(k)'
        BY <1>17, <3>1, <1>c, <1>z, <1>n, <1>s, ShapeKept DEF OpenReady, FirstPermit, loop
    <3>2. ShapeOf(l)'
        BY <1>17, <1>c, <1>z, <1>n, <1>s DEF OpenReady, FirstPermit, loop, ShapeOf
    <3> QED
        BY <3>1, <3>2
  <2>2. FreshOpens'
      BY <1>17, <1>c, <1>n, <1>s, <1>f, FreshSame DEF OpenReady, FirstPermit, loop, ShapeOf
  <2>3. WaitTakesCoroutines => go' # "failed"
      BY <1>17, <1>f DEF OpenReady, FirstPermit, loop
  <2> QED
      BY <2>1, <2>2, <2>3 DEF Shape
<1>18. ASSUME NEW l \in Ids, OpenUnannounced(l)
      PROVE  Shape'
  <2>1. \A k \in Ids : ShapeOf(k)'
    <3>1. ASSUME NEW k \in Ids, k # l PROVE ShapeOf(k)'
        BY <1>18, <3>1, <1>c, <1>z, <1>n, <1>s, ShapeKept DEF OpenUnannounced, loop
    <3>2. ShapeOf(l)'
        BY <1>18, <1>c, <1>z, <1>n, <1>s DEF OpenUnannounced, loop, ShapeOf
    <3> QED
        BY <3>1, <3>2
  <2>2. FreshOpens'
      BY <1>18, <1>c, <1>n, <1>s, <1>f, FreshSame DEF OpenUnannounced, loop, ShapeOf
  <2>3. WaitTakesCoroutines => go' # "failed"
      BY <1>18, <1>f DEF OpenUnannounced, loop
  <2> QED
      BY <2>1, <2>2, <2>3 DEF Shape
<1>19. ASSUME NEW l \in Ids, OpenFails(l)
      PROVE  Shape'
  <2>1. \A k \in Ids : ShapeOf(k)'
    <3>1. ASSUME NEW k \in Ids, k # l PROVE ShapeOf(k)'
        BY <1>19, <3>1, <1>c, <1>z, <1>n, <1>s, ShapeKept
        DEF OpenFails, ReportsFailure, loop
    <3>2. ShapeOf(l)'
        BY <1>19, <1>c, <1>z, <1>n, <1>s DEF OpenFails, ReportsFailure, loop, ShapeOf
    <3> QED
        BY <3>1, <3>2
  <2>2. FreshOpens'
      BY <1>19, <1>c, <1>n, <1>s, <1>f, FreshSame
      DEF OpenFails, ReportsFailure, loop, ShapeOf
  <2>3. WaitTakesCoroutines => go' # "failed"
      BY <1>19, <1>f DEF OpenFails, ReportsFailure, loop
  <2> QED
      BY <2>1, <2>2, <2>3 DEF Shape
<1>38. ASSUME NEW l \in Ids, AnswerBegins(l)
      PROVE  Shape'
  <2>1. \A k \in Ids : ShapeOf(k)'
    <3>1. ASSUME NEW k \in Ids, k # l PROVE ShapeOf(k)'
        BY <1>38, <3>1, <1>c, <1>z, <1>n, <1>s, ShapeKept DEF AnswerBegins, loop
    <3>2. ShapeOf(l)'
        BY <1>38, <1>c, <1>z, <1>n, <1>s DEF AnswerBegins, loop, ShapeOf
    <3> QED
        BY <3>1, <3>2
  <2>2. FreshOpens'
      BY <1>38, <1>c, <1>n, <1>s, <1>f, FreshSame DEF AnswerBegins, loop, ShapeOf
  <2>3. WaitTakesCoroutines => go' # "failed"
      BY <1>38, <1>f DEF AnswerBegins, loop
  <2> QED
      BY <2>1, <2>2, <2>3 DEF Shape
<1>39. ASSUME NEW l \in Ids, AnswerData(l)
      PROVE  Shape'
  <2>1. \A k \in Ids : ShapeOf(k)'
    <3>1. ASSUME NEW k \in Ids, k # l PROVE ShapeOf(k)'
        BY <1>39, <3>1, <1>c, <1>z, <1>n, <1>s, ShapeKept DEF AnswerData, loop
    <3>2. ShapeOf(l)'
        BY <1>39, <1>c, <1>z, <1>n, <1>s DEF AnswerData, loop, ShapeOf
    <3> QED
        BY <3>1, <3>2
  <2>2. FreshOpens'
      BY <1>39, <1>c, <1>n, <1>s, <1>f, FreshSame DEF AnswerData, loop, ShapeOf
  <2>3. WaitTakesCoroutines => go' # "failed"
      BY <1>39, <1>f DEF AnswerData, loop
  <2> QED
      BY <2>1, <2>2, <2>3 DEF Shape
<1>40. ASSUME NEW l \in Ids, AnswerEnds(l)
      PROVE  Shape'
  <2>1. \A k \in Ids : ShapeOf(k)'
    <3>1. ASSUME NEW k \in Ids, k # l PROVE ShapeOf(k)'
        BY <1>40, <3>1, <1>c, <1>z, <1>n, <1>s, ShapeKept DEF AnswerEnds, SendClse, loop
    <3>2. ShapeOf(l)'
        BY <1>40, <1>c, <1>z, <1>n, <1>s DEF AnswerEnds, SendClse, loop, ShapeOf
    <3> QED
        BY <3>1, <3>2
  <2>2. FreshOpens'
      BY <1>40, <1>c, <1>n, <1>s, <1>f, FreshSame DEF AnswerEnds, loop, ShapeOf
  <2>3. WaitTakesCoroutines => go' # "failed"
      BY <1>40, <1>f DEF AnswerEnds, loop
  <2> QED
      BY <2>1, <2>2, <2>3 DEF Shape
<1>41. ASSUME NEW l \in Ids, AnswerRaises(l)
      PROVE  Shape'
  <2>1. \A k \in Ids : ShapeOf(k)'
    <3>1. ASSUME NEW k \in Ids, k # l PROVE ShapeOf(k)'
        BY <1>41, <3>1, <1>c, <1>z, <1>n, <1>s, ShapeKept DEF AnswerRaises, loop
    <3>2. ShapeOf(l)'
        BY <1>41, <1>c, <1>z, <1>n, <1>s DEF AnswerRaises, loop, ShapeOf
    <3> QED
        BY <3>1, <3>2
  <2>2. FreshOpens'
      BY <1>41, <1>c, <1>n, <1>s, <1>f, FreshSame DEF AnswerRaises, loop, ShapeOf
  <2>3. WaitTakesCoroutines => go' # "failed"
      BY <1>41, <1>f DEF AnswerRaises, loop
  <2> QED
      BY <2>1, <2>2, <2>3 DEF Shape
<1>20. ASSUME NEW l \in Ids, SinkAcquire(l)
      PROVE  Shape'
  <2>1. \A k \in Ids : ShapeOf(k)'
    <3>1. ASSUME NEW k \in Ids, k # l PROVE ShapeOf(k)'
        BY <1>20, <3>1, <1>c, <1>z, <1>n, <1>s, ShapeKept DEF SinkAcquire, Permitted, loop
    <3>2. ShapeOf(l)'
        BY <1>20, <1>c, <1>z, <1>n, <1>s DEF SinkAcquire, Permitted, loop, ShapeOf
    <3> QED
        BY <3>1, <3>2
  <2>2. FreshOpens'
      BY <1>20, <1>c, <1>n, <1>s, <1>f, FreshSame DEF SinkAcquire, Permitted, loop, ShapeOf
  <2>3. WaitTakesCoroutines => go' # "failed"
      BY <1>20, <1>f DEF SinkAcquire, Permitted, loop
  <2> QED
      BY <2>1, <2>2, <2>3 DEF Shape
<1>21. ASSUME NEW l \in Ids, SinkReads(l)
      PROVE  Shape'
  <2>1. \A k \in Ids : ShapeOf(k)'
    <3>1. ASSUME NEW k \in Ids, k # l PROVE ShapeOf(k)'
        BY <1>21, <3>1, <1>c, <1>z, <1>n, <1>s, ShapeKept DEF SinkReads, AfterChunk, loop
    <3>2. ShapeOf(l)'
        BY <1>21, <1>c, <1>z, <1>n, <1>s DEF SinkReads, AfterChunk, loop, ShapeOf
    <3> QED
        BY <3>1, <3>2
  <2>2. FreshOpens'
      BY <1>21, <1>c, <1>n, <1>s, <1>f, FreshSame DEF SinkReads, AfterChunk, loop, ShapeOf
  <2>3. WaitTakesCoroutines => go' # "failed"
      BY <1>21, <1>f DEF SinkReads, AfterChunk, loop
  <2> QED
      BY <2>1, <2>2, <2>3 DEF Shape
<1>22. ASSUME NEW l \in Ids, SinkEnds(l)
      PROVE  Shape'
  <2>1. \A k \in Ids : ShapeOf(k)'
    <3>1. ASSUME NEW k \in Ids, k # l PROVE ShapeOf(k)'
        BY <1>22, <3>1, <1>c, <1>z, <1>n, <1>s, ShapeKept
        DEF SinkEnds, SinkSendRaises, SinkCloses, SendClse, loop
    <3>2. ShapeOf(l)'
        BY <1>22, <1>c, <1>z, <1>n, <1>s
        DEF SinkEnds, SinkSendRaises, SinkCloses, SendClse, loop, ShapeOf
    <3> QED
        BY <3>1, <3>2
  <2>2. FreshOpens'
      BY <1>22, <1>c, <1>n, <1>s, <1>f, FreshSame
      DEF SinkEnds, SinkSendRaises, SinkCloses, SendClse, loop, ShapeOf
  <2>3. WaitTakesCoroutines => go' # "failed"
      BY <1>22, <1>f DEF SinkEnds, SinkSendRaises, SinkCloses, SendClse, loop
  <2> QED
      BY <2>1, <2>2, <2>3 DEF Shape
<1>23. ASSUME NEW l \in Ids, SinkCancelled(l)
      PROVE  Shape'
  <2>1. \A k \in Ids : ShapeOf(k)'
    <3>1. ASSUME NEW k \in Ids, k # l PROVE ShapeOf(k)'
        BY <1>23, <3>1, <1>c, <1>z, <1>n, <1>s, ShapeKept
        DEF SinkCancelled, SinkCloses, SendClse, loop
    <3>2. ShapeOf(l)'
        BY <1>23, <1>c, <1>z, <1>n, <1>s
        DEF SinkCancelled, SinkCloses, SendClse, loop, ShapeOf
    <3> QED
        BY <3>1, <3>2
  <2>2. FreshOpens'
      BY <1>23, <1>c, <1>n, <1>s, <1>f, FreshSame
      DEF SinkCancelled, SinkCloses, SendClse, loop, ShapeOf
  <2>3. WaitTakesCoroutines => go' # "failed"
      BY <1>23, <1>f DEF SinkCancelled, SinkCloses, SendClse, loop
  <2> QED
      BY <2>1, <2>2, <2>3 DEF Shape
<1>24. ASSUME NEW l \in Ids, CloserResumes(l)
      PROVE  Shape'
  <2>1. \A k \in Ids : ShapeOf(k)'
    <3>1. ASSUME NEW k \in Ids, k # l PROVE ShapeOf(k)'
        BY <1>24, <3>1, <1>c, <1>z, <1>n, <1>s, ShapeKept DEF CloserResumes, SendClse, loop
    <3>2. ShapeOf(l)'
        BY <1>24, <1>c, <1>z, <1>n, <1>s DEF CloserResumes, SendClse, loop, ShapeOf
    <3> QED
        BY <3>1, <3>2
  <2>2. FreshOpens'
      BY <1>24, <1>c, <1>n, <1>s, <1>f, FreshSame DEF CloserResumes, SendClse, loop, ShapeOf
  <2>3. WaitTakesCoroutines => go' # "failed"
      BY <1>24, <1>f DEF CloserResumes, SendClse, loop
  <2> QED
      BY <2>1, <2>2, <2>3 DEF Shape
<1>25. ASSUME NEW l \in Ids, TeardownClose(l)
      PROVE  Shape'
  <2>1. \A k \in Ids : ShapeOf(k)'
    <3>1. ASSUME NEW k \in Ids, k # l PROVE ShapeOf(k)'
        BY <1>25, <3>1, <1>c, <1>z, <1>n, <1>s, ShapeKept
        DEF TeardownClose, TeardownWaits, EnterClose, loop
    <3>2. ShapeOf(l)'
        BY <1>25, <1>c, <1>z, <1>n, <1>s
        DEF TeardownClose, TeardownWaits, EnterClose, loop, ShapeOf
    <3> QED
        BY <3>1, <3>2
  <2>2. FreshOpens'
      BY <1>25, <1>c, <1>n, <1>s, <1>f, FreshSame
      DEF TeardownClose, TeardownWaits, EnterClose, loop, ShapeOf
  <2>3. WaitTakesCoroutines => go' # "failed"
      BY <1>25, <1>f DEF TeardownClose, TeardownWaits, EnterClose, loop
  <2> QED
      BY <2>1, <2>2, <2>3 DEF Shape
<1>26. ASSUME ServerCnxn
      PROVE  Shape'
  <2>1. UNCHANGED <<next_local_id, streams, chan, closes, tasks, go>>
      BY <1>26 DEF ServerCnxn, proxySide, ServerTakes
  <2> QED
      BY <2>1 DEF Shape, ShapeOf, FreshOpens
<1>27. ASSUME ServerOkay
      PROVE  Shape'
  <2>1. UNCHANGED <<next_local_id, streams, chan, closes, tasks, go>>
      BY <1>27 DEF ServerOkay, proxySide, ServerTakes
  <2> QED
      BY <2>1 DEF Shape, ShapeOf, FreshOpens
<1>28. ASSUME ServerWrte
      PROVE  Shape'
  <2>1. UNCHANGED <<next_local_id, streams, chan, closes, tasks, go>>
      BY <1>28 DEF ServerWrte, proxySide, ServerTakes
  <2> QED
      BY <2>1 DEF Shape, ShapeOf, FreshOpens
<1>29. ASSUME ServerClse
      PROVE  Shape'
  <2>1. UNCHANGED <<next_local_id, streams, chan, closes, tasks, go>>
      BY <1>29 DEF ServerClse, proxySide, ServerTakes
  <2> QED
      BY <2>1 DEF Shape, ShapeOf, FreshOpens
<1>30. ASSUME ServerOpen
      PROVE  Shape'
  <2>1. UNCHANGED <<next_local_id, streams, chan, closes, tasks, go>>
      BY <1>30 DEF ServerOpen, proxySide, ServerTakes
  <2> QED
      BY <2>1 DEF Shape, ShapeOf, FreshOpens
<1>31. ASSUME ServerLost
      PROVE  Shape'
  <2>1. UNCHANGED <<next_local_id, streams, chan, closes, tasks, go>>
      BY <1>31 DEF ServerLost, proxySide
  <2> QED
      BY <2>1 DEF Shape, ShapeOf, FreshOpens
<1>32. ASSUME NEW r \in RemoteIds, ClientOpens(r)
      PROVE  Shape'
  <2>1. UNCHANGED <<next_local_id, streams, chan, closes, tasks, go>>
      BY <1>32 DEF ClientOpens, proxySide
  <2> QED
      BY <2>1 DEF Shape, ShapeOf, FreshOpens
<1>33. ASSUME NEW r \in RemoteIds, ClientWrites(r)
      PROVE  Shape'
  <2>1. UNCHANGED <<next_local_id, streams, chan, closes, tasks, go>>
      BY <1>33 DEF ClientWrites, proxySide
  <2> QED
      BY <2>1 DEF Shape, ShapeOf, FreshOpens
<1>34. ASSUME NEW r \in RemoteIds, ClientReads(r)
      PROVE  Shape'
  <2>1. UNCHANGED <<next_local_id, streams, chan, closes, tasks, go>>
      BY <1>34 DEF ClientReads, proxySide
  <2> QED
      BY <2>1 DEF Shape, ShapeOf, FreshOpens
<1>35. ASSUME NEW r \in RemoteIds, ClientCloses(r)
      PROVE  Shape'
  <2>1. UNCHANGED <<next_local_id, streams, chan, closes, tasks, go>>
      BY <1>35 DEF ClientCloses, proxySide
  <2> QED
      BY <2>1 DEF Shape, ShapeOf, FreshOpens
<1>36. ASSUME NEW l \in Ids, DeviceProduces(l)
      PROVE  Shape'
  <2>1. UNCHANGED <<next_local_id, streams, chan, closes, tasks, go>>
      BY <1>36 DEF DeviceProduces, DeviceKeeps, loop
  <2> QED
      BY <2>1 DEF Shape, ShapeOf, FreshOpens
<1>37. ASSUME NEW l \in Ids, DeviceEnds(l)
      PROVE  Shape'
  <2>1. UNCHANGED <<next_local_id, streams, chan, closes, tasks, go>>
      BY <1>37 DEF DeviceEnds, DeviceKeeps, loop
  <2> QED
      BY <2>1 DEF Shape, ShapeOf, FreshOpens
<1> QED
    BY <1>1, <1>2, <1>3, <1>4, <1>5, <1>6, <1>7, <1>8, <1>9, <1>10, <1>11, <1>12, <1>13,
       <1>14, <1>15, <1>16, <1>17, <1>18, <1>19, <1>20, <1>21, <1>22, <1>23, <1>24,
       <1>25, <1>26, <1>27, <1>28, <1>29, <1>30, <1>31, <1>32, <1>33, <1>34, <1>35,
       <1>36, <1>37, <1>38, <1>39, <1>40, <1>41
    DEF Next, ProxyNext, RecvSome, StartSome, OpenSome, AnswerGoesOn, SinkSome, ServerNext,
        ServerHandles, DeviceNext

LEMMA ShapeInit == Init => Shape
    BY DEF Init, ProxyInit, Shape, ShapeOf, FreshOpens, Unused, Ids

-----------------------------------------------------------------------------
(* The theorems.                                                           *)

(* Every reachable state has the types of TypeOK, and every local id the   *)
(* shape that the close() protocol gives it (adb_proxy.py:47-193, 258-372).*)
THEOREM SafetyInvariant == Spec => [](TypeOK /\ Shape)
<1>1. Init => TypeOK /\ Shape
    BY TypeInit, ShapeInit
<1>2. TypeOK /\ Shape /\ [Next]_vars => (TypeOK /\ Shape)'
    BY TypeStep, ShapeStep
<1> QED
    BY <1>1, <1>2, PTL DEF Spec

(* The variables always have their types.                                  *)
THEOREM TypeCorrect == Spec => []TypeOK
    BY SafetyInvariant, PTL

(* A stream is closed towards the ADB server once at most, whichever of    *)
(* the sink, write(), the server's CLSE and the teardown close it.         *)
THEOREM ClosedOnce == Spec => []OneClose
<1>1. TypeOK /\ Shape => OneClose
    BY DEF TypeOK, Shape, ShapeOf, OneClose
<1> QED
    BY <1>1, SafetyInvariant, PTL

(* A sink lives exactly as long as the registration of its stream.         *)
THEOREM SinkPerStream == Spec => []NoOrphanSink
<1>1. Shape => NoOrphanSink
    BY DEF Shape, ShapeOf, NoOrphanSink
<1> QED
    BY <1>1, SafetyInvariant, PTL

(* The writer to the device is open exactly as long as its stream is       *)
(* registered.                                                             *)
THEOREM WriterPerStream == Spec => []NoOrphanWriter
<1>1. Shape => NoOrphanWriter
    BY DEF Shape, ShapeOf, NoOrphanWriter
<1> QED
    BY <1>1, SafetyInvariant, PTL

(* Where asyncio.wait() takes coroutines, go() ends only after the close() *)
(* of every stream that its finally found.                                 *)
THEOREM TeardownClosesAll == Spec => [](WaitTakesCoroutines => CleanTeardown)
<1>1. TypeOK /\ Shape /\ WaitTakesCoroutines => CleanTeardown
    BY DEF TypeOK, Shape, ShapeOf, CleanTeardown
<1> QED
    BY <1>1, SafetyInvariant, PTL

-----------------------------------------------------------------------------
(* WRTE commands.                                                          *)

NewWrte(l) ==
    /\ Len(toServer') > Len(toServer)
    /\ toServer'[Len(toServer')].cmd = "WRTE"
    /\ toServer'[Len(toServer')].arg0 = l

Writes(l) == l \in streams \/ chan[l].open = "okayAnswer"

LEMMA NoNewWrte ==
    ASSUME toServer \in Seq(Commands(Ids)), NEW l,
           \/ UNCHANGED toServer
           \/ toServer # <<>> /\ toServer' = Tail(toServer)
           \/ toServer' = <<>>
           \/ \E cmd, a, b, d : cmd # "WRTE" /\ Send(Command(cmd, a, b, d))
    PROVE  ~NewWrte(l)
<1>1. CASE UNCHANGED toServer
    BY <1>1 DEF NewWrte
<1>2. CASE toServer # <<>> /\ toServer' = Tail(toServer)
    BY <1>2, TailType DEF NewWrte
<1>3. CASE toServer' = <<>>
    BY <1>3 DEF NewWrte
<1>4. ASSUME NEW cmd, NEW a, NEW b, NEW d, cmd # "WRTE", Send(Command(cmd, a, b, d))
      PROVE  ~NewWrte(l)
  <2>1. Len(toServer) \in Nat
      OBVIOUS
  <2> QED
      BY <1>4, <2>1 DEF NewWrte, Send, Command
<1> QED
    BY <1>1, <1>2, <1>3, <1>4

LEMMA WrteStep ==
    ASSUME TypeOK, Shape, [Next]_vars, NEW l \in Ids
    PROVE  NewWrte(l) => Writes(l)
<1>t. toServer \in Seq(Commands(Ids))
    BY DEF TypeOK
<1>1. CASE UNCHANGED vars
    BY <1>1, <1>t, NoNewWrte DEF vars, proxyVars
<1>2. CASE RecvHandshake
    BY <1>2, <1>t, NoNewWrte DEF RecvHandshake, untouched
<1>3. CASE RecvOpen
    BY <1>3, <1>t, NoNewWrte DEF RecvOpen, untouched
<1>4. CASE RecvClse
    BY <1>4, <1>t, NoNewWrte DEF RecvClse, untouched
<1>5. CASE RecvWrte
    BY <1>5, <1>t, NoNewWrte DEF RecvWrte, untouched
<1>6. CASE RecvOkay
    BY <1>6, <1>t, NoNewWrte DEF RecvOkay, RidTaken, untouched
<1>7. CASE ReverseAccept
    BY <1>7, <1>t, NoNewWrte DEF ReverseAccept
<1>8. CASE GoStops
    BY <1>8, <1>t, NoNewWrte DEF GoStops
<1>9. CASE GoEnds
    BY <1>9, <1>t, NoNewWrte DEF GoEnds, AllClosed
<1>10. CASE GoInterrupted
    BY <1>10, <1>t, NoNewWrte DEF GoInterrupted
<1>11. ASSUME NEW k \in Ids, StartOpen(k)
      PROVE  ~NewWrte(l)
    BY <1>11, <1>t, NoNewWrte DEF StartOpen
<1>12. ASSUME NEW k \in Ids, StartReady(k)
      PROVE  ~NewWrte(l)
    BY <1>12, <1>t, NoNewWrte DEF StartReady
<1>13. ASSUME NEW k \in Ids, StartClose(k)
      PROVE  ~NewWrte(l)
    BY <1>13, <1>t, NoNewWrte DEF StartClose
<1>14. ASSUME NEW k \in Ids, StartWrite(k)
      PROVE  ~NewWrte(l)
    BY <1>14, <1>t, NoNewWrte DEF StartWrite, WriteAcks, WriteRaises
<1>15. ASSUME NEW k \in Ids, WriteDrained(k)
      PROVE  ~NewWrte(l)
    BY <1>15, <1>t, NoNewWrte DEF WriteDrained, WriteAcks, WriteRaises
<1>16. ASSUME NEW k \in Ids, OpenSucceeds(k)
      PROVE  ~NewWrte(l)
    BY <1>16, <1>t, NoNewWrte DEF OpenSucceeds
<1>17. ASSUME NEW k \in Ids, OpenReady(k)
      PROVE  ~NewWrte(l)
    BY <1>17, <1>t, NoNewWrte DEF OpenReady, FirstPermit
<1>18. ASSUME NEW k \in Ids, OpenUnannounced(k)
      PROVE  ~NewWrte(l)
    BY <1>18, <1>t, NoNewWrte DEF OpenUnannounced
<1>19. ASSUME NEW k \in Ids, OpenFails(k)
      PROVE  ~NewWrte(l)
    BY <1>19, <1>t, NoNewWrte DEF OpenFails, ReportsFailure
<1>38. ASSUME NEW k \in Ids, AnswerBegins(k)
      PROVE  ~NewWrte(l)
    BY <1>38, <1>t, NoNewWrte DEF AnswerBegins
<1>39. ASSUME NEW k \in Ids, AnswerData(k), NewWrte(l)
      PROVE  chan[l].open = "okayAnswer"
  <2>1. PICK b, d : Send(Command("WRTE", k, b, d))
      BY <1>39 DEF AnswerData
  <2>2. k = l
      BY <1>39, <1>t, <2>1 DEF NewWrte, Send, Command
  <2> QED
      BY <1>39, <2>2 DEF AnswerData
<1>40. ASSUME NEW k \in Ids, AnswerEnds(k)
      PROVE  ~NewWrte(l)
    BY <1>40, <1>t, NoNewWrte DEF AnswerEnds, SendClse
<1>41. ASSUME NEW k \in Ids, AnswerRaises(k)
      PROVE  ~NewWrte(l)
    BY <1>41, <1>t, NoNewWrte DEF AnswerRaises, ReportsFailure
<1>20. ASSUME NEW k \in Ids, SinkAcquire(k)
      PROVE  ~NewWrte(l)
    BY <1>20, <1>t, NoNewWrte DEF SinkAcquire, Permitted
<1>21. ASSUME NEW k \in Ids, SinkReads(k), NewWrte(l)
      PROVE  l \in streams
  <2>1. k \in streams
      BY <1>21 DEF Shape, ShapeOf, SinkReads
  <2>2. PICK b, d : Send(Command("WRTE", k, b, d))
      BY <1>21 DEF SinkReads, AfterChunk
  <2>3. k = l
      BY <1>21, <1>t, <2>2 DEF NewWrte, Send, Command
  <2> QED
      BY <2>1, <2>3
<1>22. ASSUME NEW k \in Ids, SinkEnds(k)
      PROVE  ~NewWrte(l)
    BY <1>22, <1>t, NoNewWrte DEF SinkEnds, SinkSendRaises, SinkCloses, SendClse
<1>23. ASSUME NEW k \in Ids, SinkCancelled(k)
      PROVE  ~NewWrte(l)
    BY <1>23, <1>t, NoNewWrte DEF SinkCancelled, SinkCloses, SendClse
<1>24. ASSUME NEW k \in Ids, CloserResumes(k)
      PROVE  ~NewWrte(l)
    BY <1>24, <1>t, NoNewWrte DEF CloserResumes, SendClse
<1>25. ASSUME NEW k \in Ids, TeardownClose(k)
      PROVE  ~NewWrte(l)
    BY <1>25, <1>t, NoNewWrte DEF TeardownClose, TeardownWaits
<1>26. CASE ServerCnxn
    BY <1>26, <1>t, NoNewWrte DEF ServerCnxn, ServerTakes
<1>27. CASE ServerOkay
    BY <1>27, <1>t, NoNewWrte DEF ServerOkay, ServerTakes
<1>28. CASE ServerWrte
    BY <1>28, <1>t, NoNewWrte DEF ServerWrte, ServerTakes
<1>29. CASE ServerClse
    BY <1>29, <1>t, NoNewWrte DEF ServerClse, ServerTakes
<1>30. CASE ServerOpen
    BY <1>30, <1>t, NoNewWrte DEF ServerOpen, ServerTakes
<1>31. CASE ServerLost
    BY <1>31, <1>t, NoNewWrte DEF ServerLost
<1>32. ASSUME NEW r \in RemoteIds, ClientOpens(r)
      PROVE  ~NewWrte(l)
    BY <1>32, <1>t, NoNewWrte DEF ClientOpens
<1>33. ASSUME NEW r \in RemoteIds, ClientWrites(r)
      PROVE  ~NewWrte(l)
    BY <1>33, <1>t, NoNewWrte DEF ClientWrites
<1>34. ASSUME NEW r \in RemoteIds, ClientReads(r)
      PROVE  ~NewWrte(l)
    BY <1>34, <1>t, NoNewWrte DEF ClientReads
<1>35. ASSUME NEW r \in RemoteIds, ClientCloses(r)
      PROVE  ~NewWrte(l)
    BY <1>35, <1>t, NoNewWrte DEF ClientCloses
<1>36. ASSUME NEW k \in Ids, DeviceProduces(k)
      PROVE  ~NewWrte(l)
    BY <1>36, <1>t, NoNewWrte DEF DeviceProduces, DeviceKeeps
<1>37. ASSUME NEW k \in Ids, DeviceEnds(k)
      PROVE  ~NewWrte(l)
    BY <1>37, <1>t, NoNewWrte DEF DeviceEnds, DeviceKeeps
<1> QED
    BY <1>1, <1>2, <1>3, <1>4, <1>5, <1>6, <1>7, <1>8, <1>9, <1>10, <1>11, <1>12, <1>13,
       <1>14, <1>15, <1>16, <1>17, <1>18, <1>19, <1>20, <1>21, <1>22, <1>23, <1>24,
       <1>25, <1>26, <1>27, <1>28, <1>29, <1>30, <1>31, <1>32, <1>33, <1>34, <1>35,
       <1>36, <1>37, <1>38, <1>39, <1>40, <1>41
    DEF Writes, Next, ProxyNext, RecvSome, StartSome, OpenSome, AnswerGoesOn, SinkSome,
        ServerNext,
        ServerHandles, DeviceNext

(* A WRTE is sent only while its stream is registered, or as the data of   *)
(* an answer: nothing follows the beginning of a close().                  *)
THEOREM NothingAfterClose == Spec => NoWrteAfterClose
<1>1. TypeOK /\ Shape /\ [Next]_vars => \A l \in Ids : NewWrte(l) => Writes(l)
    BY WrteStep
<1>2. TypeOK /\ Shape /\ [Next]_vars =>
        [\A l \in Ids :
            /\ Len(toServer') > Len(toServer)
            /\ toServer'[Len(toServer')].cmd = "WRTE"
            /\ toServer'[Len(toServer')].arg0 = l
            => l \in streams \/ chan[l].open = "okayAnswer"]_vars
    BY <1>1 DEF NewWrte, Writes
<1> QED
    BY <1>2, SafetyInvariant, PTL DEF Spec, NoWrteAfterClose
=============================================================================
