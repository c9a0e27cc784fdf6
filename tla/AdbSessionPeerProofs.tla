------------------------- MODULE AdbSessionPeerProofs -------------------------
(***************************************************************************)
(* Theorems about what the proxy and the ADB server know of each other, in *)
(* AdbSession, for every value of its constants.                           *)
(*                                                                         *)
(* Wiring says, for every command and every task on its way, that the two  *)
(* ids it names are those of one stream.  On it rest Flow, which counts    *)
(* what may become a WRTE of a stream, was one, and is not acknowledged,   *)
(* and Once, which counts the places where an OPEN of the ADB server can   *)
(* be.  Delivery counts the turn to write of a client of the ADB server:   *)
(* its right to, its write on its way, the acknowledgement of that.  These *)
(* counts are numbers of places in sequences.  With them every step of the *)
(* multiplexer is a step of StreamService or none.                         *)
(***************************************************************************)
EXTENDS AdbSessionProofs, FiniteSetTheorems

(* A channel that can send for its stream, or has sent.                    *)
Active(c) ==
    \/ c.open \in {"connecting", "okSent", "okayAnswer", "dataAnswer"}
    \/ c.ready # 0 \/ c.sink = "read" \/ c.drain \/ c.closer = "write"

(* Its remote id is known then, and never that of a stream to come.        *)
Named ==
    \A l \in Ids :
        /\ Active(chan[l]) => chan[l].rid # 0
        /\ chan[l].rid # 0 => l < next_local_id /\ chan[l].rid \in RemoteIds

NamedTasks ==
    \A i \in 1 .. Len(tasks) :
        /\ tasks[i].id < next_local_id
        /\ tasks[i].op # "close" => chan[tasks[i].id].rid # 0

(* Local ids and sockets are peers of one another, one to one; a stream of *)
(* the device learns its peer later than its peer learns of it.            *)
Pairs ==
    /\ \A l \in Ids : chan[l].rid # 0 =>
           srv[chan[l].rid].peer \in {0, l} /\ srv[chan[l].rid].st # "idle"
    /\ \A l, k \in Ids : chan[l].rid = chan[k].rid /\ chan[l].rid # 0 => l = k
    /\ \A r \in RemoteIds : srv[r].peer # 0 =>
           srv[r].peer < next_local_id /\ chan[srv[r].peer].rid \in {0, r}
    /\ \A r, s \in RemoteIds : srv[r].peer = srv[s].peer /\ srv[r].peer # 0 => r = s

Ends ==
    \A r \in RemoteIds :
        /\ srv[r].st \in {"idle", "opening"} => srv[r].peer = 0
        /\ srv[r].st = "open" => srv[r].peer # 0
        /\ srv[r].owes => srv[r].peer # 0 /\ chan[srv[r].peer].rid = r

(* Commands of the proxy.                                                  *)
Sent(m) ==
    /\ m.cmd \in {"OKAY", "WRTE"} => m.arg0 # 0
    /\ m.cmd \in {"OKAY", "WRTE", "CLSE"} => m.arg1 \in RemoteIds /\ srv[m.arg1].st # "idle"
    /\ m.cmd \in {"OKAY", "WRTE", "CLSE"} /\ m.arg0 # 0 => m.arg1 = chan[m.arg0].rid
    /\ m.cmd = "OPEN" =>
         /\ m.arg0 # 0 /\ m.arg0 < next_local_id /\ chan[m.arg0].rid = 0
         /\ \A r \in RemoteIds : srv[r].peer # m.arg0
    /\ go = "handshake" => m.cmd = "CNXN"

Outgoing == \A i \in 1 .. Len(toServer) : Sent(toServer[i])

OneOpenEach(q) ==
    \A i, j \in 1 .. Len(q) :
        q[i].cmd = "OPEN" /\ q[j].cmd = "OPEN" /\ q[i].arg0 = q[j].arg0 => i = j

(* Commands of the ADB server.                                             *)
Received(m) ==
    /\ m.cmd = "OPEN" =>
         /\ m.arg0 \in RemoteIds /\ srv[m.arg0].st # "idle" /\ srv[m.arg0].peer = 0
         /\ \A l \in Ids : chan[l].rid # m.arg0
    /\ m.cmd \in {"OKAY", "WRTE"} =>
         m.arg0 \in RemoteIds /\ m.arg1 # 0 /\ srv[m.arg0].peer = m.arg1

(* A stream of the device has read the OKAY that answers its OPEN, or will *)
(* read it before what comes at place n.                                   *)
Answered(l, n) ==
    \/ chan[l].rid # 0 \/ l \notin streams
    \/ \E j \in 1 .. n : j < n /\ toProxy[j].cmd = "OKAY" /\ toProxy[j].arg1 = l

Incoming ==
    \A i \in 1 .. Len(toProxy) :
        /\ Received(toProxy[i])
        /\ toProxy[i].cmd = "WRTE" => Answered(toProxy[i].arg1, i)

Told == \A r \in RemoteIds : srv[r].peer # 0 => Answered(srv[r].peer, Len(toProxy) + 1)

(* Nothing but the two CNXN before go() serves.                            *)
Shook ==
    go = "handshake" => next_local_id = 1 /\ (toProxy # <<>> => Head(toProxy).cmd = "CNXN")

Wiring ==
    /\ Named /\ NamedTasks /\ Pairs /\ Ends
    /\ Outgoing /\ OneOpenEach(toServer)
    /\ Incoming /\ OneOpenEach(toProxy) /\ Told
    /\ Shook

-----------------------------------------------------------------------------
(* Types that every proof below needs.                                     *)
LEMMA Basics ==
    ASSUME TypeOK
    PROVE  /\ Ids \subseteq Nat \ {0} /\ RemoteIds \subseteq Nat \ {0}
           /\ next_local_id \in Nat \ {0}
           /\ toServer \in Seq(Commands(Ids)) /\ toProxy \in Seq(Commands(Nat))
           /\ tasks \in Seq(Tasks)
           /\ Len(toServer) \in Nat /\ Len(toProxy) \in Nat /\ Len(tasks) \in Nat
           /\ \A i \in 1 .. Len(toServer) : toServer[i] \in Commands(Ids)
           /\ \A i \in 1 .. Len(toProxy) : toProxy[i] \in Commands(Nat)
           /\ \A i \in 1 .. Len(tasks) : tasks[i].id \in Ids /\ tasks[i].id \in Nat
           /\ \A l \in Ids : /\ chan[l] \in Channels /\ chan[l].rid \in Nat
                             /\ l \in Nat /\ l # 0
           /\ \A r \in RemoteIds : /\ srv[r] \in Sockets /\ srv[r].peer \in {0} \cup Ids
                                   /\ srv[r].peer \in Nat
                                   /\ r \in Nat /\ r # 0
<1>1. Ids \subseteq Nat \ {0} /\ RemoteIds \subseteq Nat \ {0}
    BY ProxyAssumption DEF Ids
<1>2. next_local_id \in Nat \ {0}
    BY ProxyAssumption DEF TypeOK
<1>3. /\ toServer \in Seq(Commands(Ids)) /\ toProxy \in Seq(Commands(Nat))
      /\ tasks \in Seq(Tasks)
    BY DEF TypeOK
<1>4. \A i \in 1 .. Len(tasks) : tasks[i].id \in Ids /\ tasks[i].id \in Nat
  <2>1. \A i \in 1 .. Len(tasks) : tasks[i].id \in Ids
      BY <1>3, TaskTyped
  <2> QED
      BY <2>1, <1>1
<1>5. \A l \in Ids : chan[l] \in Channels /\ chan[l].rid \in Nat /\ l \in Nat /\ l # 0
    BY <1>1, RidType DEF TypeOK
<1>6. \A r \in RemoteIds : /\ srv[r] \in Sockets /\ srv[r].peer \in {0} \cup Ids
                           /\ srv[r].peer \in Nat
                           /\ r \in Nat /\ r # 0
    BY <1>1, PeerType DEF TypeOK, Sockets
<1>7. /\ Len(toServer) \in Nat /\ Len(toProxy) \in Nat /\ Len(tasks) \in Nat
      /\ \A i \in 1 .. Len(toServer) : toServer[i] \in Commands(Ids)
      /\ \A i \in 1 .. Len(toProxy) : toProxy[i] \in Commands(Nat)
    BY <1>3
<1> QED
    BY <1>1, <1>2, <1>3, <1>4, <1>5, <1>6, <1>7

LEMMA WiringInit == Init => Wiring
<1> SUFFICES ASSUME Init PROVE Wiring
    OBVIOUS
<1>1. \A l \in Ids : chan[l] = Unused
    BY DEF Init, ProxyInit
<1>2. \A r \in RemoteIds : srv[r] = Idle
    BY DEF Init
<1>3. Len(tasks) = 0 /\ Len(toProxy) = 0 /\ toProxy = <<>>
    BY DEF Init, ProxyInit
<1>4. Len(toServer) = 1 /\ toServer[1] = Command("CNXN", 0, ProxyMax, 0)
    BY DEF Init, ProxyInit
<1>5. Named /\ Pairs /\ Ends
    BY <1>1, <1>2 DEF Named, Active, Pairs, Ends, Unused, Idle
<1>6. NamedTasks /\ Incoming /\ OneOpenEach(toProxy)
    BY <1>3 DEF NamedTasks, Incoming, OneOpenEach
<1>7. Told
    BY <1>2 DEF Told, Idle
<1>8. Outgoing /\ OneOpenEach(toServer)
    BY <1>4 DEF Outgoing, OneOpenEach, Sent, Command
<1>9. Shook
    BY <1>3 DEF Init, ProxyInit, Shook
<1> QED
    BY <1>5, <1>6, <1>7, <1>8, <1>9 DEF Wiring

-----------------------------------------------------------------------------
(* Most tasks of the proxy name no new peer.                               *)

(* What they may send for l.                                               *)
Speaks(l, m) ==
    /\ m \in Commands(Ids)
    /\ m.cmd \in {"OKAY", "WRTE", "CLSE"}
    /\ m.arg0 = l \/ (m.cmd = "CLSE" /\ m.arg0 = 0)
    /\ m.arg1 = chan[l].rid
    /\ chan[l].rid # 0

Quiet(l) ==
    /\ UNCHANGED <<next_local_id, toProxy, srv, go>>
    /\ \A k \in streams' : k \in streams \/ (k = l /\ chan[l].rid # 0)
    /\ \A k \in Ids : chan'[k].rid = chan[k].rid /\ (k # l => chan'[k] = chan[k])
    /\ Active(chan'[l]) => chan[l].rid # 0
    /\ tasks' = tasks \/ (tasks # <<>> /\ tasks' = Tail(tasks))
    /\ \/ toServer' = toServer
       \/ \E m : Speaks(l, m) /\ toServer' = Append(toServer, m)

LEMMA TailTasks ==
    ASSUME TypeOK, NamedTasks, next_local_id' = next_local_id,
           \A k \in Ids : chan[k].rid # 0 => chan'[k].rid # 0,
           tasks' = tasks \/ (tasks # <<>> /\ tasks' = Tail(tasks))
    PROVE  NamedTasks'
<1>1. \A i \in 1 .. Len(tasks') : \E j \in 1 .. Len(tasks) : tasks'[i] = tasks[j]
  <2>1. CASE tasks' = tasks
      BY <2>1
  <2>2. CASE tasks # <<>> /\ tasks' = Tail(tasks)
      BY <2>2, Basics, TailType
  <2> QED
      BY <2>1, <2>2
<1> QED
    BY <1>1, Basics DEF NamedTasks

LEMMA QuietStep ==
    ASSUME TypeOK, Wiring, NEW l \in Ids, Quiet(l)
    PROVE  Wiring'
<1> USE DEF Wiring
<1>1. Named'
    BY DEF Quiet, Named
<1>2. NamedTasks'
    BY TailTasks DEF Quiet
<1>3. Pairs' /\ Ends'
  <2>1. \A k \in Ids : chan'[k].rid = chan[k].rid
      BY DEF Quiet
  <2>2. UNCHANGED <<next_local_id, srv>>
      BY DEF Quiet
  <2>3. Pairs'
      BY <2>1, <2>2, Basics DEF Pairs
  <2>4. Ends'
      BY <2>1, <2>2, Basics DEF Ends
  <2> QED
      BY <2>3, <2>4
<1>4. \A m \in Commands(Ids) : Sent(m) => Sent(m)'
  <2>1. \A m \in Commands(Ids) : m.arg0 \in {0} \cup Ids
      BY DEF Commands
  <2> QED
      BY <2>1 DEF Quiet, Sent
<1>5. \A m : Speaks(l, m) => Sent(m)
  <2>1. chan[l].rid # 0 => go # "handshake" /\ chan[l].rid \in RemoteIds
                           /\ srv[chan[l].rid].st # "idle"
      BY Basics DEF Named, Pairs, Shook
  <2> QED
      BY <2>1, Basics DEF Speaks, Sent
<1>6. Outgoing' /\ OneOpenEach(toServer')
  <2>1. CASE toServer' = toServer
      BY <2>1, <1>4, Basics DEF Outgoing, OneOpenEach
  <2>2. ASSUME NEW m, Speaks(l, m), toServer' = Append(toServer, m)
        PROVE  Outgoing' /\ OneOpenEach(toServer')
    <3>1. m \in Commands(Ids) /\ m.cmd # "OPEN" /\ Sent(m)'
        BY <2>2, <1>4, <1>5 DEF Speaks
    <3>2. /\ Len(toServer') = Len(toServer) + 1
          /\ \A i \in 1 .. Len(toServer) : toServer'[i] = toServer[i]
          /\ toServer'[Len(toServer) + 1] = m
        BY <2>2, <3>1, Basics, AppendType
    <3>3. \A i \in 1 .. Len(toServer') : i \in 1 .. Len(toServer) \/ i = Len(toServer) + 1
        BY <3>2, Basics
    <3>4. Outgoing'
        BY <3>1, <3>2, <3>3, <1>4, Basics DEF Outgoing
    <3>5. OneOpenEach(toServer')
        BY <3>1, <3>2, <3>3 DEF OneOpenEach
    <3> QED
        BY <3>4, <3>5
  <2> QED
      BY <2>1, <2>2 DEF Quiet
<1>7. \A k \in Ids : \A n : Answered(k, n) => Answered(k, n)'
    BY DEF Quiet, Answered
<1>8. \A m : Received(m) => Received(m)'
    BY DEF Quiet, Received
<1>9. Incoming' /\ OneOpenEach(toProxy') /\ Told'
  <2>1. \A i \in 1 .. Len(toProxy) : toProxy[i].cmd = "WRTE" => toProxy[i].arg1 \in Ids
      BY Basics DEF Incoming, Received
  <2> QED
      BY <2>1, <1>7, <1>8, Basics DEF Quiet, Incoming, OneOpenEach, Told
<1>10. Shook'
    BY DEF Quiet, Shook
<1> QED
    BY <1>1, <1>2, <1>3, <1>6, <1>9, <1>10

(* Entering close() sends nothing and needs no remote id, except to tell   *)
(* the ADB server of a write() that failed.                                *)
LEMMA EnterCloseActive ==
    ASSUME NEW c \in Channels, NEW b, NEW who \in {"server", "write", "teardown"},
           Active(EnterClose(c, b, who))
    PROVE  Active(c) \/ who = "write"
    BY DEF EnterClose, Active, Channels

LEMMA EnterCloseRid ==
    ASSUME NEW c \in Channels, NEW b, NEW who
    PROVE  EnterClose(c, b, who).rid = c.rid
    BY DEF EnterClose, Channels

(* Sending to a connection that may be lost.                               *)
LEMMA SendSpeaks ==
    ASSUME TypeOK, Named, NEW l \in Ids, NEW cmd \in {"OKAY", "WRTE", "CLSE"},
           NEW a \in {0, l}, cmd = "CLSE" \/ a = l, NEW d \in Nat, chan[l].rid # 0,
           Send(Command(cmd, a, chan[l].rid, d))
    PROVE  \/ toServer' = toServer
           \/ \E m : Speaks(l, m) /\ toServer' = Append(toServer, m)
<1>1. Command(cmd, a, chan[l].rid, d) \in Commands(Ids)
    BY MakeCommand, Basics
<1>2. Speaks(l, Command(cmd, a, chan[l].rid, d))
    BY <1>1 DEF Speaks, Command
<1> QED
    BY <1>2 DEF Send

LEMMA TasksQuiet ==
    ASSUME TypeOK, Shape, Wiring, NEW l \in Ids, UNCHANGED srv,
           \/ StartSome(l) \/ WriteDrained(l) \/ OpenSome(l)
           \/ SinkSome(l) \/ CloserResumes(l) \/ TeardownClose(l)
    PROVE  Quiet(l)
<1>c. chan \in [Ids -> Channels] /\ chan[l] \in Channels
    BY DEF TypeOK
<1>a. Active(chan[l]) => chan[l].rid # 0
    BY DEF Wiring, Named
<1>t. ASSUME NEW op \in {"open", "ready", "write"}, Start(op, l)
      PROVE  chan[l].rid # 0
    BY <1>t, Basics, TailType DEF Wiring, NamedTasks, Start
<1>n. Named
    BY DEF Wiring
<1>1. CASE StartOpen(l)
    BY <1>1, <1>c, <1>t DEF StartOpen, Start, Quiet, loop, Channels
<1>2. CASE StartReady(l)
    BY <1>2, <1>c, <1>t DEF StartReady, Start, Quiet, loop, Channels
<1>3. CASE StartClose(l)
    BY <1>3, <1>c, <1>a, EnterCloseActive, EnterCloseRid DEF StartClose, Start, Quiet, loop
<1>4. ASSUME NEW c \in Channels, WriteRaises(l, c), c.rid = chan[l].rid, chan[l].rid # 0
      PROVE  /\ \A k \in streams' : k \in streams
             /\ toServer' = toServer
             /\ \A k \in Ids : chan'[k].rid = chan[k].rid /\ (k # l => chan'[k] = chan[k])
    BY <1>4, <1>c, EnterCloseRid DEF WriteRaises
<1>5. CASE StartWrite(l)
  <2>1. chan[l].rid # 0
      BY <1>5, <1>t DEF StartWrite
  <2>2. /\ UNCHANGED <<next_local_id, toProxy, srv, go>>
        /\ tasks # <<>> /\ tasks' = Tail(tasks)
      BY <1>5 DEF StartWrite, Start, loop
  <2>3. CASE WriteAcks(l) /\ UNCHANGED chan
      BY <2>1, <2>2, <2>3, <1>n, SendSpeaks DEF WriteAcks, Quiet
  <2>4. CASE chan' = [chan EXCEPT ![l].drain = TRUE] /\ UNCHANGED <<streams, toServer>>
      BY <2>1, <2>2, <2>4, <1>c DEF Quiet, Channels
  <2>5. CASE WriteRaises(l, chan[l])
      BY <2>1, <2>2, <2>5, <1>4, <1>c DEF Quiet
  <2> QED
      BY <1>5, <2>3, <2>4, <2>5 DEF StartWrite
<1>6. CASE WriteDrained(l)
  <2>1. chan[l].rid # 0
      BY <1>6, <1>a DEF WriteDrained, Active
  <2>2. UNCHANGED <<next_local_id, toProxy, srv, go, tasks>>
      BY <1>6 DEF WriteDrained, loop
  <2>3. CASE WriteAcks(l) /\ chan' = [chan EXCEPT ![l].drain = FALSE]
      BY <2>1, <2>2, <2>3, <1>n, <1>c, SendSpeaks DEF WriteAcks, Quiet, Channels
  <2>4. CASE WriteRaises(l, [chan[l] EXCEPT !.drain = FALSE])
    <3>1. [chan[l] EXCEPT !.drain = FALSE] \in Channels
          /\ [chan[l] EXCEPT !.drain = FALSE].rid = chan[l].rid
        BY <1>c, DrainType DEF Channels
    <3> QED
        BY <2>1, <2>2, <2>4, <3>1, <1>4 DEF Quiet
  <2> QED
      BY <1>6, <2>3, <2>4 DEF WriteDrained
<1>7. CASE OpenSucceeds(l)
    BY <1>7, <1>c, <1>a, <1>n, SendSpeaks
    DEF OpenSucceeds, Register, Active, Quiet, loop, Channels
<1>8. CASE OpenReady(l)
    BY <1>8, <1>c, <1>a DEF OpenReady, Active, Quiet, loop, Channels
<1>9. CASE OpenUnannounced(l)
    BY <1>9, <1>c, <1>a DEF OpenUnannounced, Active, Quiet, loop, Channels
<1>10. CASE OpenFails(l)
    BY <1>10, <1>c, <1>a, <1>n, SendSpeaks
    DEF OpenFails, ReportsFailure, Active, Quiet, loop, Channels
<1>11. CASE AnswerBegins(l)
    BY <1>11, <1>c, <1>a, <1>n, SendSpeaks DEF AnswerBegins, Active, Quiet, loop, Channels
<1>12. CASE AnswerData(l)
    BY <1>12, <1>c, <1>a, <1>n, SendSpeaks DEF AnswerData, Active, Quiet, loop, Channels
<1>13. CASE AnswerEnds(l)
    BY <1>13, <1>c, <1>a, <1>n, SendSpeaks
    DEF AnswerEnds, SendClse, Active, Quiet, loop, Channels
<1>14. CASE AnswerRaises(l)
    BY <1>14, <1>c, <1>a, <1>n, SendSpeaks
    DEF AnswerRaises, ReportsFailure, Active, Quiet, loop, Channels
<1>15. CASE SinkAcquire(l)
    BY <1>15, <1>c, <1>a DEF SinkAcquire, Permitted, Active, Quiet, loop, Channels
<1>16. CASE SinkReads(l)
  <2>1. \E n \in 1 .. max_data_len : Send(Command("WRTE", l, chan[l].rid, n))
      BY <1>16 DEF SinkReads
  <2>2. chan[l].rid # 0
      BY <1>16, <1>a DEF SinkReads, Active
  <2>3. \/ toServer' = toServer
        \/ \E m : Speaks(l, m) /\ toServer' = Append(toServer, m)
      BY <2>1, <2>2, <1>n, SendSpeaks DEF TypeOK
  <2> QED
      BY <1>16, <2>2, <2>3, <1>c DEF SinkReads, Quiet, loop, Channels
<1>17. ASSUME SinkCloses(l), UNCHANGED <<next_local_id, tasks, loop>>,
              l \in streams => chan[l].sink = "read" \/ SendRaises
       PROVE  Quiet(l)
  <2>1. \/ toServer' = toServer
        \/ \E m : Speaks(l, m) /\ toServer' = Append(toServer, m)
    <3>1. CASE l \notin streams
        BY <1>17, <3>1 DEF SinkCloses
    <3>2. CASE SendRaises
        BY <1>17, <3>2 DEF SinkCloses, SendClse, Send, SendRaises
    <3>3. CASE l \in streams /\ chan[l].sink = "read"
        BY <1>17, <3>3, <1>a, <1>n, SendSpeaks DEF SinkCloses, SendClse, Active
    <3> QED
        BY <1>17, <3>1, <3>2, <3>3
  <2> QED
      BY <1>17, <2>1, <1>c, <1>a DEF SinkCloses, Active, Quiet, loop, Channels
<1>18. CASE SinkEnds(l)
    BY <1>17, <1>18 DEF SinkEnds, SinkSendRaises
<1>19. CASE SinkCancelled(l)
    BY <1>17, <1>19 DEF SinkCancelled, Shape, ShapeOf
<1>20. CASE CloserResumes(l)
  <2>1. \/ toServer' = toServer
        \/ \E m : Speaks(l, m) /\ toServer' = Append(toServer, m)
    <3>1. CASE chan[l].closer # "write"
        BY <1>20, <3>1 DEF CloserResumes
    <3>2. CASE chan[l].closer = "write"
        BY <1>20, <3>2, <1>a, <1>n, SendSpeaks DEF CloserResumes, SendClse, Active
    <3> QED
        BY <3>1, <3>2
  <2> QED
      BY <1>20, <2>1, <1>c, <1>a DEF CloserResumes, Active, Quiet, loop, Channels
<1>21. CASE TeardownClose(l)
  <2> DEFINE c == EnterClose(chan[l], l \in streams, "teardown")
  <2>1. c \in Channels /\ c.rid = chan[l].rid /\ (Active(c) => Active(chan[l]))
      BY <1>c, EnterCloseType, EnterCloseRid, EnterCloseActive
  <2>2. chan' = [chan EXCEPT ![l] = [c EXCEPT !.td = TeardownWaits(l)]]
      BY <1>21 DEF TeardownClose
  <2> HIDE DEF c
  <2>3. /\ \A k \in Ids : chan'[k].rid = chan[k].rid /\ (k # l => chan'[k] = chan[k])
        /\ Active(chan'[l]) => Active(c)
      BY <2>1, <2>2, <1>c DEF Active, Channels
  <2> QED
      BY <1>21, <2>1, <2>3, <1>a DEF TeardownClose, Quiet, loop
<1> QED
    BY <1>1, <1>2, <1>3, <1>5, <1>6, <1>7, <1>8, <1>9, <1>10, <1>11, <1>12, <1>13, <1>14,
       <1>15, <1>16, <1>18, <1>19, <1>20, <1>21
    DEF StartSome, OpenSome, AnswerGoesOn, SinkSome

-----------------------------------------------------------------------------
(* Steps that leave the commands, or drop those of the proxy.              *)
LEMMA StillStep ==
    ASSUME TypeOK, Wiring, UNCHANGED <<next_local_id, streams, toProxy, srv, tasks>>,
           go' = "handshake" => go = "handshake",
           toServer' = toServer \/ toServer' = <<>>,
           \A k \in Ids : chan'[k].rid = chan[k].rid /\ (Active(chan'[k]) => Active(chan[k]))
    PROVE  Wiring'
<1> USE DEF Wiring
<1>1. Named' /\ Pairs' /\ Ends'
  <2>1. Named'
      BY Basics DEF Named
  <2>2. Pairs'
      BY Basics DEF Pairs
  <2>3. Ends'
      BY Basics DEF Ends
  <2> QED
      BY <2>1, <2>2, <2>3
<1>2. NamedTasks'
    BY TailTasks
<1>3. \A m \in Commands(Ids) : Sent(m) => Sent(m)'
  <2>1. \A m \in Commands(Ids) : m.arg0 \in {0} \cup Ids
      BY DEF Commands
  <2> QED
      BY <2>1 DEF Sent
<1>4. Outgoing' /\ OneOpenEach(toServer')
  <2>1. CASE toServer' = toServer
      BY <2>1, <1>3, Basics DEF Outgoing, OneOpenEach
  <2>2. CASE toServer' = <<>>
      BY <2>2 DEF Outgoing, OneOpenEach
  <2> QED
      BY <2>1, <2>2
<1>5. \A m : Received(m) => Received(m)'
    BY DEF Received
<1>6. Incoming' /\ OneOpenEach(toProxy') /\ Told'
  <2>1. \A i \in 1 .. Len(toProxy) : toProxy[i].cmd = "WRTE" => toProxy[i].arg1 \in Ids
      BY Basics DEF Incoming, Received
  <2>2. \A k \in Ids : \A n : Answered(k, n) => Answered(k, n)'
      BY DEF Answered
  <2> QED
      BY <2>1, <2>2, <1>5, Basics DEF Incoming, OneOpenEach, Told
<1>7. Shook'
    BY DEF Shook
<1> QED
    BY <1>1, <1>2, <1>4, <1>6, <1>7

LEMMA GoStep ==
    ASSUME TypeOK, Wiring, UNCHANGED srv, GoStops \/ GoEnds \/ GoInterrupted
    PROVE  Wiring'
<1>c. chan \in [Ids -> Channels]
    BY DEF TypeOK
<1>1. \A k \in Ids : chan'[k].rid = chan[k].rid /\ (Active(chan'[k]) => Active(chan[k]))
  <2>1. CASE UNCHANGED chan
      BY <2>1
  <2>2. CASE chan' = [l \in Ids |-> IF l \in streams THEN [chan[l] EXCEPT !.td = "queued"]
                                                     ELSE chan[l]]
      BY <2>2, <1>c DEF Active, Channels
  <2> QED
      BY <2>1, <2>2 DEF GoStops, GoEnds, GoInterrupted
<1> QED
    BY <1>1, StillStep DEF GoStops, GoEnds, GoInterrupted

-----------------------------------------------------------------------------
(* The loop of go() takes a command.                                       *)

(* The tasks that it creates.                                              *)
LEMMA SpawnTasks ==
    ASSUME TypeOK, NamedTasks, next_local_id' \in Nat, next_local_id' >= next_local_id,
           \A k \in Ids : chan[k].rid # 0 => chan'[k].rid # 0,
           NEW op, NEW l \in Ids, NEW d, Spawn(op, l, d),
           l < next_local_id', op # "close" => chan'[l].rid # 0
    PROVE  NamedTasks'
<1> DEFINE t == [op |-> op, id |-> l, data |-> d]
<1>1. /\ Len(tasks') = Len(tasks) + 1
      /\ \A i \in 1 .. Len(tasks) : tasks'[i] = tasks[i]
      /\ tasks'[Len(tasks) + 1] = t
    BY Basics DEF Spawn
<1>2. \A i \in 1 .. Len(tasks') : i \in 1 .. Len(tasks) \/ i = Len(tasks) + 1
    BY <1>1, Basics
<1>3. \A i \in 1 .. Len(tasks) : tasks[i].id \in Ids /\ tasks[i].id \in Nat
    BY Basics
<1>4. ASSUME NEW i \in 1 .. Len(tasks)
      PROVE  /\ tasks'[i].id < next_local_id'
             /\ tasks'[i].op # "close" => chan'[tasks'[i].id].rid # 0
  <2>1. tasks'[i] = tasks[i] /\ tasks[i].id \in Ids /\ tasks[i].id \in Nat
      BY <1>1, <1>3
  <2>2. tasks[i].id < next_local_id /\ (tasks[i].op # "close" => chan[tasks[i].id].rid # 0)
      BY DEF NamedTasks
  <2> QED
      BY <2>1, <2>2, Basics
<1> QED
    BY <1>1, <1>2, <1>4 DEF NamedTasks

(* What is behind the command.                                             *)
LEMMA RecvQueue ==
    ASSUME TypeOK, Wiring, toProxy # <<>>, toProxy' = Tail(toProxy),
           UNCHANGED <<streams, srv>>,
           \A k \in Ids : chan[k].rid # 0 => chan'[k].rid # 0,
           Head(toProxy).cmd = "OKAY" =>
               chan'[Head(toProxy).arg1].rid # 0 \/ Head(toProxy).arg1 \notin streams,
           \A m \in Commands(Nat) :
               (\E i \in 2 .. Len(toProxy) : toProxy[i] = m) => Received(m)'
    PROVE  Incoming' /\ OneOpenEach(toProxy') /\ Told'
<1> USE DEF Wiring
<1>1. /\ Len(toProxy') = Len(toProxy) - 1
      /\ \A i \in 1 .. Len(toProxy') : /\ i + 1 \in 2 .. Len(toProxy)
                                       /\ i + 1 \in 1 .. Len(toProxy)
                                       /\ toProxy'[i] = toProxy[i + 1]
      /\ \A j \in 2 .. Len(toProxy) : /\ j - 1 \in 1 .. Len(toProxy')
                                      /\ toProxy'[j - 1] = toProxy[j]
      /\ Head(toProxy) = toProxy[1]
      /\ Len(toProxy) \in Nat \ {0}
    BY Basics, TailType
<1>2. ASSUME NEW l \in Ids, NEW n \in 1 .. Len(toProxy), Answered(l, n + 1)
      PROVE  Answered(l, n)'
  <2>1. CASE chan[l].rid # 0 \/ l \notin streams
      BY <2>1 DEF Answered
  <2>2. ASSUME NEW j \in 1 .. n, toProxy[j].cmd = "OKAY", toProxy[j].arg1 = l
        PROVE  Answered(l, n)'
    <3>1. CASE j = 1
        BY <2>2, <3>1, <1>1 DEF Answered
    <3>2. CASE j # 1
      <4>1. j - 1 \in 1 .. n /\ j - 1 < n /\ j \in 2 .. Len(toProxy)
          BY <2>2, <3>2, <1>1
      <4>2. toProxy'[j - 1].cmd = "OKAY" /\ toProxy'[j - 1].arg1 = l
          BY <4>1, <2>2, <1>1
      <4> QED
          BY <4>1, <4>2 DEF Answered
    <3> QED
        BY <3>1, <3>2
  <2>3. \A j \in 1 .. n + 1 : j < n + 1 => j \in 1 .. n
      BY <1>1
  <2> QED
      BY <2>1, <2>2, <2>3, <1>2 DEF Answered
<1>3. Incoming'
  <2> SUFFICES ASSUME NEW i \in 1 .. Len(toProxy')
               PROVE  (/\ Received(toProxy[i])
                       /\ toProxy[i].cmd = "WRTE" => Answered(toProxy[i].arg1, i))'
      BY DEF Incoming
  <2>1. i + 1 \in 2 .. Len(toProxy) /\ i + 1 \in 1 .. Len(toProxy) /\ i \in 1 .. Len(toProxy)
        /\ toProxy'[i] = toProxy[i + 1]
      BY <1>1
  <2>m. PICK m \in Commands(Nat) : m = toProxy[i + 1]
      BY <2>1, Basics
  <2>2. Received(toProxy[i])'
    <3>1. Received(m)'
        BY <2>1, <2>m
    <3> QED
        BY <3>1, <2>1, <2>m
  <2>3. ASSUME toProxy'[i].cmd = "WRTE"
        PROVE  Answered(toProxy[i].arg1, i)'
    <3>1. Received(toProxy[i + 1]) /\ Answered(toProxy[i + 1].arg1, i + 1)
        BY <2>1, <2>3 DEF Incoming
    <3>2. toProxy[i + 1].arg1 \in Ids
        BY <2>1, <2>3, <3>1, Basics DEF Received
    <3>3. PICK l \in Ids : l = toProxy[i + 1].arg1
        BY <3>2
    <3>4. Answered(l, i)'
        BY <2>1, <3>1, <3>3, <1>2
    <3> QED
        BY <2>1, <3>3, <3>4
  <2> QED
      BY <2>2, <2>3
<1>4. OneOpenEach(toProxy')
    BY <1>1 DEF OneOpenEach
<1>5. Told'
  <2> SUFFICES ASSUME NEW r \in RemoteIds, srv'[r].peer # 0
               PROVE  Answered(srv[r].peer, Len(toProxy) + 1)'
      BY DEF Told
  <2>1. PICK l \in Ids : l = srv[r].peer
      BY Basics
  <2>2. Answered(l, Len(toProxy) + 1)
      BY <2>1 DEF Told
  <2>3. Len(toProxy') + 1 = Len(toProxy) /\ Len(toProxy) \in 1 .. Len(toProxy)
      BY <1>1
  <2>4. PICK n \in 1 .. Len(toProxy) : n = Len(toProxy)
      BY <2>3
  <2>5. Answered(l, n)'
      BY <2>2, <2>4, <1>2
  <2> QED
      BY <2>1, <2>3, <2>4, <2>5
<1> QED
    BY <1>3, <1>4, <1>5

(* Where the remote ids stay, what was sent stays as it is.                *)
LEMMA SentKept ==
    ASSUME TypeOK, NEW m \in Commands(Ids), Sent(m), srv' = srv,
           go' = "handshake" => go = "handshake",
           next_local_id' \in Nat, next_local_id' >= next_local_id,
           m.arg0 # 0 => chan'[m.arg0].rid = chan[m.arg0].rid
    PROVE  Sent(m)'
<1>1. m.arg0 \in {0} \cup Ids /\ m.arg0 \in Nat
    BY Basics, CommandTyped
<1> QED
    BY <1>1, Basics DEF Sent

LEMMA RecvHandshakeStep ==
    ASSUME TypeOK, Wiring, UNCHANGED srv, RecvHandshake
    PROVE  Wiring'
<1> USE DEF Wiring
<1>1. /\ go = "handshake" /\ go' = "run" /\ toProxy # <<>> /\ toProxy' = Tail(toProxy)
      /\ Head(toProxy).cmd = "CNXN"
      /\ UNCHANGED <<next_local_id, streams, chan, tasks, toServer>>
    BY DEF RecvHandshake, Shook, untouched
<1>2. Named' /\ NamedTasks' /\ Pairs' /\ Ends'
    BY <1>1 DEF Named, NamedTasks, Pairs, Ends
<1>3. Outgoing' /\ OneOpenEach(toServer')
    BY <1>1, Basics, SentKept DEF Outgoing, OneOpenEach
<1>4. \A m \in Commands(Nat) : Received(m) => Received(m)'
    BY <1>1 DEF Received
<1>5. \A i \in 2 .. Len(toProxy) : i \in 1 .. Len(toProxy)
    BY Basics
<1>6. Incoming' /\ OneOpenEach(toProxy') /\ Told'
    BY <1>1, <1>4, <1>5, RecvQueue DEF Incoming
<1> QED
    BY <1>1, <1>2, <1>3, <1>6 DEF Shook

(* CLSE and WRTE.                                                          *)
LEMMA RecvTaskStep ==
    ASSUME TypeOK, Shape, Wiring, UNCHANGED srv, RecvClse \/ RecvWrte
    PROVE  Wiring'
<1> USE DEF Wiring
<1> DEFINE l == Head(toProxy).arg1
<1>1. /\ go = "run" /\ go' = "run" /\ toProxy # <<>> /\ toProxy' = Tail(toProxy)
      /\ Head(toProxy).cmd # "OKAY"
      /\ UNCHANGED <<next_local_id, streams, chan, toServer>>
    BY DEF RecvClse, RecvWrte, Recv, untouched
<1>2. Named' /\ Pairs' /\ Ends'
    BY <1>1 DEF Named, Pairs, Ends
<1>3. Outgoing' /\ OneOpenEach(toServer')
    BY <1>1, Basics, SentKept DEF Outgoing, OneOpenEach
<1>4. \A m \in Commands(Nat) : Received(m) => Received(m)'
    BY <1>1 DEF Received
<1>5. \A i \in 2 .. Len(toProxy) : i \in 1 .. Len(toProxy)
    BY Basics
<1>6. Incoming' /\ OneOpenEach(toProxy') /\ Told'
    BY <1>1, <1>4, <1>5, RecvQueue DEF Incoming
<1>7. NamedTasks'
  <2>1. CASE tasks' = tasks
      BY <2>1, <1>1, Basics, TailTasks
  <2>2. CASE l \in streams /\ RecvClse /\ Spawn("close", l, 0)
    <3>1. l \in Ids /\ l < next_local_id
      <4>1. l \in Ids /\ ShapeOf(l) /\ chan[l] \in Channels
          BY <2>2, Basics DEF Shape, TypeOK
      <4>2. ~(l >= next_local_id)
          BY <2>2, <4>1 DEF ShapeOf
      <4> QED
          BY <4>1, <4>2, Basics
    <3> QED
        BY <2>2, <3>1, <1>1, Basics, SpawnTasks
  <2>3. CASE l \in streams /\ RecvWrte /\ Spawn("write", l, Head(toProxy).data)
    <3>1. toProxy[1] = Head(toProxy) /\ 1 \in 1 .. Len(toProxy)
        BY <1>1, Basics, TailType
    <3>2. Answered(l, 1)
        BY <2>3, <3>1 DEF RecvWrte, Recv, Incoming
    <3>3. l \in Ids /\ chan[l].rid # 0 /\ l < next_local_id
        BY <2>3, <3>2 DEF Answered, Named, TypeOK
    <3> QED
        BY <2>3, <3>3, <1>1, Basics, SpawnTasks
  <2> QED
      BY <2>1, <2>2, <2>3 DEF RecvClse, RecvWrte, Target
<1> QED
    BY <1>1, <1>2, <1>3, <1>6, <1>7 DEF Shook

(* OPEN: a new local id gets its socket.                                   *)
LEMMA RecvOpenStep ==
    ASSUME TypeOK, Shape, Wiring, UNCHANGED srv, RecvOpen
    PROVE  Wiring'
<1> USE DEF Wiring
<1> DEFINE n == next_local_id
<1> DEFINE r == Head(toProxy).arg0
<1>1. /\ go = "run" /\ go' = "run" /\ toProxy # <<>> /\ toProxy' = Tail(toProxy)
      /\ Head(toProxy).cmd = "OPEN"
      /\ UNCHANGED <<streams, toServer>>
      /\ n <= MaxId /\ next_local_id' = n + 1 /\ Spawn("open", n, 0)
    BY DEF RecvOpen, Recv, untouched
<1>2. n \in Ids /\ n \in Nat
    BY <1>1, Basics, ProxyAssumption DEF Ids
<1>3. \A k \in Ids : chan'[k] = IF k = n THEN [chan[k] EXCEPT !.rid = r] ELSE chan[k]
    BY <1>2 DEF RecvOpen, TypeOK
<1>4. \A k \in Ids : chan'[k].rid = IF k = n THEN r ELSE chan[k].rid
    BY <1>2, <1>3, Basics DEF Channels
<1>5. toProxy[1] = Head(toProxy) /\ 1 \in 1 .. Len(toProxy)
    BY <1>1, Basics, TailType
<1>6. r \in RemoteIds /\ srv[r].st # "idle" /\ srv[r].peer = 0 /\ r # 0
      /\ \A k \in Ids : chan[k].rid # r
    BY <1>1, <1>5, Basics DEF Incoming, Received
<1>7. chan[n].rid = 0
    BY <1>2 DEF Named
<1>p. \A s \in RemoteIds : srv[s].peer # n
    BY <1>2, Basics DEF Pairs
<1>8. Named'
  <2> SUFFICES ASSUME NEW k \in Ids
               PROVE  /\ Active(chan'[k]) => chan'[k].rid # 0
                      /\ chan'[k].rid # 0 => k < next_local_id' /\ chan'[k].rid \in RemoteIds
      BY DEF Named
  <2>1. CASE k = n
      BY <2>1, <1>1, <1>2, <1>4, <1>6
  <2>2. CASE k # n
    <3>1. /\ Active(chan[k]) => chan[k].rid # 0
          /\ chan[k].rid # 0 => k < n /\ chan[k].rid \in RemoteIds
        BY DEF Named
    <3>2. chan'[k] = chan[k] /\ k \in Nat
        BY <2>2, <1>3, Basics
    <3> QED
        BY <3>1, <3>2, <1>1, <1>2
  <2> QED
      BY <2>1, <2>2
<1>9. Pairs'
  <2>1. ASSUME NEW k \in Ids, chan'[k].rid # 0
        PROVE  srv[chan'[k].rid].peer \in {0, k} /\ srv[chan'[k].rid].st # "idle"
      BY <2>1, <1>4, <1>6 DEF Pairs
  <2>2. ASSUME NEW k \in Ids, NEW j \in Ids, chan'[k].rid = chan'[j].rid, chan'[k].rid # 0
        PROVE  k = j
      BY <2>2, <1>4, <1>6 DEF Pairs
  <2>3. ASSUME NEW s \in RemoteIds, srv[s].peer # 0
        PROVE  srv[s].peer < n + 1 /\ chan'[srv[s].peer].rid \in {0, s}
    <3>1. srv[s].peer \in Ids /\ srv[s].peer \in Nat /\ srv[s].peer # n
        BY <2>3, <1>p, Basics
    <3>2. srv[s].peer < n /\ chan[srv[s].peer].rid \in {0, s}
        BY <2>3 DEF Pairs
    <3> QED
        BY <3>1, <3>2, <1>2, <1>4
  <2> QED
      BY <2>1, <2>2, <2>3, <1>1 DEF Pairs
<1>10. Ends'
  <2>1. \A s \in RemoteIds : srv[s].peer # 0 => chan'[srv[s].peer].rid = chan[srv[s].peer].rid
      BY <1>p, <1>4, Basics
  <2> QED
      BY <2>1 DEF Ends
<1>11. NamedTasks'
    BY <1>1, <1>2, <1>4, <1>6, Basics, SpawnTasks
<1>12. Outgoing' /\ OneOpenEach(toServer')
  <2>1. ASSUME NEW m \in Commands(Ids), Sent(m)
        PROVE  Sent(m)'
    <3>1. m.arg0 \in {0} \cup Ids
        BY Basics, CommandTyped
    <3>2. m.cmd \in {"OKAY", "WRTE", "CLSE", "OPEN"} /\ m.arg0 # 0 => m.arg0 # n
      <4>1. m.arg1 \in RemoteIds => m.arg1 # 0
          BY Basics
      <4>2. m.arg0 < n => m.arg0 # n
          BY <1>2
      <4> QED
          BY <2>1, <4>1, <4>2, <1>7 DEF Sent
    <3>3. m.cmd \in {"OKAY", "WRTE", "CLSE", "OPEN"} /\ m.arg0 # 0 =>
              chan'[m.arg0].rid = chan[m.arg0].rid
        BY <3>1, <3>2, <1>4
    <3>4. m.arg0 \in Nat /\ (m.arg0 < n => m.arg0 < n + 1)
        BY <1>2, Basics, CommandTyped
    <3> QED
        BY <2>1, <3>3, <3>4, <1>1 DEF Sent
  <2> QED
      BY <2>1, <1>1, Basics DEF Outgoing, OneOpenEach
<1>13. ASSUME NEW m \in Commands(Nat), \E i \in 2 .. Len(toProxy) : toProxy[i] = m
       PROVE  Received(m)'
  <2>1. PICK i \in 2 .. Len(toProxy) : toProxy[i] = m
      BY <1>13
  <2>2. i \in 1 .. Len(toProxy) /\ i # 1
      BY Basics
  <2>3. Received(m)
      BY <2>1, <2>2 DEF Incoming
  <2>4. m.cmd = "OPEN" => m.arg0 # r
      BY <2>1, <2>2, <1>1, <1>5 DEF OneOpenEach
  <2> QED
      BY <2>3, <2>4, <1>4 DEF Received
<1>14. Incoming' /\ OneOpenEach(toProxy') /\ Told'
    BY <1>1, <1>4, <1>6, <1>13, RecvQueue
<1> QED
    BY <1>1, <1>8, <1>9, <1>10, <1>11, <1>12, <1>14 DEF Shook

(* OKAY: the stream, if there still is one, gets its socket, which for a   *)
(* stream of the ADB server it has.                                        *)
LEMMA RecvOkayStep ==
    ASSUME TypeOK, Shape, Wiring, UNCHANGED srv, RecvOkay
    PROVE  Wiring'
<1> USE DEF Wiring
<1> DEFINE l == Head(toProxy).arg1
<1> DEFINE r == Head(toProxy).arg0
<1>1. /\ go = "run" /\ go' = "run" /\ toProxy # <<>> /\ toProxy' = Tail(toProxy)
      /\ Head(toProxy).cmd = "OKAY"
      /\ UNCHANGED <<next_local_id, streams, toServer>>
    BY DEF RecvOkay, Recv, untouched
<1>2. toProxy[1] = Head(toProxy) /\ 1 \in 1 .. Len(toProxy)
    BY <1>1, Basics, TailType
<1>3. r \in RemoteIds /\ l # 0 /\ srv[r].peer = l /\ l \in Ids /\ r # 0
    BY <1>1, <1>2, Basics DEF Incoming, Received
<1>4. l < next_local_id /\ chan[l].rid \in {0, r} /\ srv[r].st # "idle"
    BY <1>3 DEF Pairs, Ends
<1>5. /\ \A k \in Ids : chan'[k].rid = IF k = l /\ l \in streams THEN r ELSE chan[k].rid
      /\ \A k \in Ids : Active(chan'[k]) => Active(chan[k])
  <2>1. CASE UNCHANGED chan /\ l \notin streams
      BY <2>1
  <2>2. CASE chan' = [chan EXCEPT ![l].rid = r] /\ l \in streams
      BY <2>2, <1>3, Basics DEF Active, Channels, TypeOK
  <2> QED
      BY <2>1, <2>2 DEF RecvOkay, RidTaken, Target
<1>6. Named'
    BY <1>1, <1>3, <1>4, <1>5, Basics DEF Named
<1>7. Pairs'
  <2>1. ASSUME NEW k \in Ids, chan'[k].rid # 0
        PROVE  srv[chan'[k].rid].peer \in {0, k} /\ srv[chan'[k].rid].st # "idle"
      BY <2>1, <1>3, <1>4, <1>5 DEF Pairs
  <2>2. ASSUME NEW k \in Ids, NEW j \in Ids, chan'[k].rid = chan'[j].rid, chan'[k].rid # 0
        PROVE  k = j
    <3>1. \A i \in Ids : chan[i].rid = r => i = l
        BY <1>3 DEF Pairs
    <3> QED
        BY <2>2, <3>1, <1>5 DEF Pairs
  <2>3. ASSUME NEW s \in RemoteIds, srv[s].peer # 0
        PROVE  srv[s].peer < next_local_id /\ chan'[srv[s].peer].rid \in {0, s}
    <3>1. srv[s].peer = l => s = r
        BY <1>3 DEF Pairs
    <3> QED
        BY <2>3, <3>1, <1>5, Basics DEF Pairs
  <2> QED
      BY <2>1, <2>2, <2>3, <1>1 DEF Pairs
<1>8. Ends'
  <2>1. ASSUME NEW s \in RemoteIds, srv[s].owes
        PROVE  srv[s].peer # 0 /\ chan'[srv[s].peer].rid = s
    <3>1. srv[s].peer = l => s = r
        BY <1>3 DEF Pairs
    <3> QED
        BY <2>1, <3>1, <1>5, Basics DEF Ends
  <2> QED
      BY <2>1 DEF Ends
<1>9. NamedTasks'
  <2>s. next_local_id' \in Nat /\ next_local_id' >= next_local_id /\ l < next_local_id'
      BY <1>1, <1>4, Basics
  <2>1. CASE tasks' = tasks
      BY <2>1, <1>1, <1>3, <1>5, TailTasks
  <2>2. CASE l \in streams /\ Spawn("ready", l, 0)
    <3>1. (\A k \in Ids : chan[k].rid # 0 => chan'[k].rid # 0) /\ chan'[l].rid # 0
        BY <2>2, <1>3, <1>5
    <3> QED
        BY <2>2, <2>s, <3>1, <1>3, SpawnTasks
  <2> QED
      BY <2>1, <2>2 DEF RecvOkay, Target
<1>10. Outgoing' /\ OneOpenEach(toServer')
  <2>1. ASSUME NEW m \in Commands(Ids), Sent(m)
        PROVE  Sent(m)'
    <3>1. m.arg0 \in {0} \cup Ids
        BY Basics, CommandTyped
    <3>2. m.cmd = "OPEN" => m.arg0 # l
        BY <2>1, <1>3 DEF Sent
    <3>3. m.cmd \in {"OKAY", "WRTE", "CLSE"} /\ m.arg0 = l => m.arg1 = r
        BY <2>1, <1>3, <1>4, Basics DEF Sent
    <3> QED
        BY <2>1, <3>1, <3>2, <3>3, <1>1, <1>3, <1>5, Basics DEF Sent
  <2> QED
      BY <2>1, <1>1, Basics DEF Outgoing, OneOpenEach
<1>11. \A m \in Commands(Nat) : Received(m) => Received(m)'
    BY <1>3, <1>5 DEF Received
<1>12. \A i \in 2 .. Len(toProxy) : i \in 1 .. Len(toProxy)
    BY Basics
<1>13. Incoming' /\ OneOpenEach(toProxy') /\ Told'
    BY <1>1, <1>3, <1>5, <1>11, <1>12, RecvQueue DEF Incoming
<1> QED
    BY <1>1, <1>6, <1>7, <1>8, <1>9, <1>10, <1>13 DEF Shook

(* A stream of the device: its peer is to come.                            *)
LEMMA ReverseStep ==
    ASSUME TypeOK, Shape, Wiring, UNCHANGED srv, ReverseAccept
    PROVE  Wiring'
<1> USE DEF Wiring
<1> DEFINE n == next_local_id
<1> DEFINE o == Command("OPEN", n, 0, 0)
<1>1. /\ go # "handshake" /\ n <= MaxId /\ next_local_id' = n + 1 /\ Send(o)
      /\ streams' = streams \cup {n}
      /\ UNCHANGED <<go, toProxy, tasks>>
    BY DEF ReverseAccept, Register, loop
<1>2. n \in Ids /\ n \in Nat
    BY <1>1, Basics, ProxyAssumption DEF Ids
<1>3. chan[n].rid = 0
    BY <1>2 DEF Named
<1>4. \A k \in Ids : chan'[k].rid = chan[k].rid /\ (Active(chan'[k]) => Active(chan[k]))
    BY <1>2, <1>3 DEF ReverseAccept, Register, Unused, Active, TypeOK
<1>a. \A k \in Nat : k < n => k < n + 1 /\ k # n
    BY <1>2
<1>p. \A s \in RemoteIds : srv[s].peer # n
    BY <1>2, <1>a, Basics DEF Pairs
<1>5. Named'
    BY <1>1, <1>a, <1>4, Basics DEF Named
<1>6. Pairs'
  <2>1. ASSUME NEW s \in RemoteIds, srv[s].peer # 0
        PROVE  srv[s].peer < n + 1 /\ chan'[srv[s].peer].rid \in {0, s}
      BY <2>1, <1>a, <1>4, Basics DEF Pairs
  <2> QED
      BY <2>1, <1>1, <1>4 DEF Pairs
<1>7. Ends'
    BY <1>4, Basics DEF Ends
<1>8. NamedTasks'
  <2> SUFFICES ASSUME NEW i \in 1 .. Len(tasks)
               PROVE  /\ tasks[i].id < n + 1
                      /\ tasks[i].op # "close" => chan'[tasks[i].id].rid # 0
      BY <1>1 DEF NamedTasks
  <2>1. tasks[i].id \in Ids /\ tasks[i].id \in Nat
      BY Basics
  <2> QED
      BY <2>1, <1>a, <1>4 DEF NamedTasks
<1>9. \A m \in Commands(Ids) : Sent(m) => Sent(m)'
  <2>1. \A m \in Commands(Ids) : m.arg0 # 0 => m.arg0 \in Ids
      BY CommandTyped, Basics
  <2> QED
      BY <2>1, <1>1, <1>2, <1>4, SentKept
<1>10. Outgoing' /\ OneOpenEach(toServer')
  <2>1. CASE toServer' = toServer
      BY <2>1, <1>9, Basics DEF Outgoing, OneOpenEach
  <2>2. CASE toServer' = Append(toServer, o)
    <3>1. o \in Commands(Ids) /\ o.cmd = "OPEN" /\ o.arg0 = n
        BY <1>2, MakeCommand DEF Command
    <3>2. /\ Len(toServer') = Len(toServer) + 1
          /\ \A i \in 1 .. Len(toServer) : toServer'[i] = toServer[i]
          /\ toServer'[Len(toServer) + 1] = o
        BY <2>2, <3>1, Basics, AppendType
    <3>3. \A i \in 1 .. Len(toServer') : i \in 1 .. Len(toServer) \/ i = Len(toServer) + 1
        BY <3>2, Basics
    <3>4. ASSUME NEW m, m = o
          PROVE  Sent(m)'
      <4>1. n < n + 1 /\ n # 0 /\ n \in Ids
          BY <1>2, Basics
      <4>2. m.cmd = "OPEN" /\ m.arg0 = n
          BY <3>1, <3>4
      <4> HIDE DEF o, n
      <4> QED
          BY <4>1, <4>2, <1>1, <1>3, <1>4, <1>p DEF Sent
    <3>5. Outgoing'
      <4> SUFFICES ASSUME NEW i \in 1 .. Len(toServer')
                   PROVE  Sent(toServer[i])'
          BY DEF Outgoing
      <4>1. CASE i \in 1 .. Len(toServer)
        <5>1. PICK m \in Commands(Ids) : m = toServer[i]
            BY <4>1, Basics
        <5>2. Sent(m)'
            BY <4>1, <5>1, <1>9 DEF Outgoing
        <5> QED
            BY <4>1, <5>1, <5>2, <3>2
      <4>2. CASE i = Len(toServer) + 1
        <5>1. PICK m : m = o
            OBVIOUS
        <5>2. Sent(m)'
            BY <5>1, <3>4
        <5> QED
            BY <4>2, <5>1, <5>2, <3>2
      <4> QED
          BY <3>3, <4>1, <4>2
    <3>6. \A i \in 1 .. Len(toServer) : toServer[i].cmd = "OPEN" => toServer[i].arg0 # n
      <4>1. \A i \in 1 .. Len(toServer) : toServer[i].arg0 \in Nat
          BY Basics, CommandTyped
      <4> QED
          BY <4>1, <1>a DEF Outgoing, Sent
    <3>7. OneOpenEach(toServer')
        BY <3>1, <3>2, <3>3, <3>6 DEF OneOpenEach
    <3> QED
        BY <3>5, <3>7
  <2> QED
      BY <2>1, <2>2, <1>1 DEF Send
<1>11. \A k \in Ids : \A i : k # n /\ Answered(k, i) => Answered(k, i)'
    BY <1>1, <1>4 DEF Answered
<1>12. \A m : Received(m) => Received(m)'
    BY <1>4 DEF Received
<1>13. Incoming' /\ OneOpenEach(toProxy') /\ Told'
  <2>1. \A i \in 1 .. Len(toProxy) : toProxy[i].cmd = "WRTE" =>
            toProxy[i].arg1 \in Ids /\ toProxy[i].arg1 # n
      BY <1>p, Basics DEF Incoming, Received
  <2> QED
      BY <2>1, <1>p, <1>1, <1>11, <1>12, Basics DEF Incoming, OneOpenEach, Told
<1> QED
    BY <1>1, <1>5, <1>6, <1>7, <1>8, <1>10, <1>13 DEF Shook

-----------------------------------------------------------------------------
(* The ADB server and its clients.                                         *)

(* A command that the ADB server may send.                                 *)
Fits(m) ==
    /\ m \in Commands(Nat)
    /\ Received(m)'
    /\ m.cmd = "WRTE" => Answered(m.arg1, Len(toProxy) + 1)
    /\ m.cmd = "OPEN" =>
         \A i \in 1 .. Len(toProxy) : toProxy[i].cmd = "OPEN" => toProxy[i].arg0 # m.arg0
    /\ go = "handshake" => m.cmd = "CNXN" \/ toProxy # <<>>

LEMMA ReplyQueue ==
    ASSUME TypeOK, Wiring, UNCHANGED <<streams, chan, go, next_local_id>>, TypeOK',
           \A m \in Commands(Nat) : Received(m) => Received(m)',
           \A r \in RemoteIds : srv'[r].peer # 0 =>
               \/ srv'[r].peer = srv[r].peer
               \/ chan[srv'[r].peer].rid # 0
               \/ \E m : /\ toProxy' = Append(toProxy, m) /\ m \in Commands(Nat)
                         /\ m.cmd = "OKAY" /\ m.arg1 = srv'[r].peer,
           toProxy' = toProxy \/ \E m : Fits(m) /\ toProxy' = Append(toProxy, m)
    PROVE  Incoming' /\ OneOpenEach(toProxy') /\ Told' /\ Shook'
<1> USE DEF Wiring
<1>1. \A m \in Commands(Nat) : toProxy' = Append(toProxy, m) =>
          /\ Len(toProxy') = Len(toProxy) + 1
          /\ \A i \in 1 .. Len(toProxy) : toProxy'[i] = toProxy[i]
          /\ toProxy'[Len(toProxy) + 1] = m
    BY Basics, AppendType
<1>2. /\ Len(toProxy') \in Nat /\ Len(toProxy') >= Len(toProxy) /\ Len(toProxy) \in Nat
      /\ \A i \in 1 .. Len(toProxy) : i \in 1 .. Len(toProxy') /\ toProxy'[i] = toProxy[i]
    BY <1>1, Basics DEF Fits
<1>3. ASSUME NEW l \in Ids, NEW n \in 1 .. Len(toProxy) + 1, Answered(l, n)
      PROVE  Answered(l, n)'
  <2>1. \A j \in 1 .. n : j < n => j \in 1 .. Len(toProxy)
      BY <1>2
  <2> QED
      BY <2>1, <1>2, <1>3 DEF Answered
<1>4. Incoming'
  <2> SUFFICES ASSUME NEW i \in 1 .. Len(toProxy')
               PROVE  (/\ Received(toProxy[i])
                       /\ toProxy[i].cmd = "WRTE" => Answered(toProxy[i].arg1, i))'
      BY DEF Incoming
  <2>1. CASE i \in 1 .. Len(toProxy)
    <3>1. PICK m \in Commands(Nat) : m = toProxy[i]
        BY <2>1, Basics
    <3>2. m = toProxy'[i] /\ Received(m) /\ (m.cmd = "WRTE" => Answered(m.arg1, i))
        BY <2>1, <3>1, <1>2 DEF Incoming
    <3>3. Received(m)'
        BY <3>2
    <3>4. m.cmd = "WRTE" => Answered(m.arg1, i)'
      <4>1. m.cmd = "WRTE" => m.arg1 \in Ids
          BY <3>2, Basics DEF Received
      <4>2. i \in 1 .. Len(toProxy) + 1
          BY <2>1, <1>2
      <4> QED
          BY <3>2, <4>1, <4>2, <1>3
    <3> QED
        BY <3>2, <3>3, <3>4
  <2>2. CASE i \notin 1 .. Len(toProxy)
    <3>1. PICK m : Fits(m) /\ toProxy' = Append(toProxy, m)
        BY <2>2
    <3>2. toProxy'[i] = m /\ i = Len(toProxy) + 1 /\ i \in 1 .. Len(toProxy) + 1
        BY <2>2, <3>1, <1>1, <1>2 DEF Fits
    <3>3. Received(m)' /\ (m.cmd = "WRTE" => Answered(m.arg1, i))
        BY <3>1, <3>2 DEF Fits
    <3>4. m.cmd = "WRTE" => m.arg1 \in Ids
      <4>1. \A r \in RemoteIds : srv'[r].peer \in {0} \cup Ids
          BY DEF TypeOK, Sockets
      <4> QED
          BY <3>3, <4>1 DEF Received
    <3>5. m.cmd = "WRTE" => Answered(m.arg1, i)'
        BY <3>2, <3>3, <3>4, <1>3
    <3> QED
        BY <3>2, <3>3, <3>5
  <2> QED
      BY <2>1, <2>2
<1>5. OneOpenEach(toProxy')
  <2>1. CASE toProxy' = toProxy
      BY <2>1
  <2>2. ASSUME NEW m, Fits(m), toProxy' = Append(toProxy, m)
        PROVE  OneOpenEach(toProxy')
    <3>1. \A i \in 1 .. Len(toProxy') : i \in 1 .. Len(toProxy) \/ i = Len(toProxy) + 1
        BY <2>2, <1>1, <1>2 DEF Fits
    <3> QED
        BY <2>2, <3>1, <1>1, <1>2 DEF OneOpenEach, Fits
  <2> QED
      BY <2>1, <2>2
<1>6. Told'
  <2> SUFFICES ASSUME NEW r \in RemoteIds, srv'[r].peer # 0
               PROVE  Answered(srv[r].peer, Len(toProxy) + 1)'
      BY DEF Told
  <2>1. PICK l \in Ids : l = srv'[r].peer
      BY DEF TypeOK, Sockets
  <2>2. CASE l = srv[r].peer
    <3>1. Answered(l, Len(toProxy) + 1)
        BY <2>1, <2>2 DEF Told
    <3>2. \A j \in 1 .. Len(toProxy) + 1 : j < Len(toProxy) + 1 =>
              j \in 1 .. Len(toProxy) /\ j \in 1 .. Len(toProxy') + 1 /\ j < Len(toProxy') + 1
        BY <1>2
    <3>3. Answered(l, Len(toProxy) + 1)'
        BY <3>1, <3>2, <1>2 DEF Answered
    <3> QED
        BY <2>1, <3>3
  <2>3. CASE chan[l].rid # 0
      BY <2>1, <2>3 DEF Answered
  <2>4. ASSUME NEW m \in Commands(Nat), toProxy' = Append(toProxy, m),
               m.cmd = "OKAY", m.arg1 = l
        PROVE  Answered(srv[r].peer, Len(toProxy) + 1)'
    <3>1. Len(toProxy') \in 1 .. Len(toProxy') + 1 /\ Len(toProxy') < Len(toProxy') + 1
          /\ toProxy'[Len(toProxy')] = m
        BY <2>4, <1>1, <1>2
    <3> QED
        BY <2>1, <2>4, <3>1 DEF Answered
  <2> QED
      BY <2>1, <2>2, <2>3, <2>4
<1>7. Shook'
  <2>1. CASE toProxy' = toProxy
      BY <2>1 DEF Shook
  <2>2. ASSUME NEW m, Fits(m), toProxy' = Append(toProxy, m)
        PROVE  Shook'
    <3>1. toProxy = <<>> => Head(toProxy') = m
        BY <2>2
    <3>2. toProxy # <<>> => Head(toProxy') = Head(toProxy)
        BY <2>2, Basics DEF Fits
    <3> QED
        BY <2>2, <3>1, <3>2 DEF Shook, Fits
  <2> QED
      BY <2>1, <2>2
<1> QED
    BY <1>4, <1>5, <1>6, <1>7

(* What the ADB server has taken, and what is behind it.                   *)
LEMMA TakesQueue ==
    ASSUME TypeOK, Outgoing, OneOpenEach(toServer),
           toServer # <<>>, toServer' = Tail(toServer),
           \A m \in Commands(Ids) :
               (\E i \in 2 .. Len(toServer) : toServer[i] = m) => Sent(m)'
    PROVE  Outgoing' /\ OneOpenEach(toServer')
<1>1. /\ Len(toServer') = Len(toServer) - 1
      /\ \A i \in 1 .. Len(toServer') : /\ i + 1 \in 2 .. Len(toServer)
                                        /\ i + 1 \in 1 .. Len(toServer)
                                        /\ toServer'[i] = toServer[i + 1]
    BY Basics, TailType
<1>2. Outgoing'
  <2> SUFFICES ASSUME NEW i \in 1 .. Len(toServer')
               PROVE  Sent(toServer[i])'
      BY DEF Outgoing
  <2>1. PICK m \in Commands(Ids) : m = toServer[i + 1]
      BY <1>1, Basics
  <2>2. m = toServer'[i] /\ Sent(m)'
      BY <1>1, <2>1
  <2> QED
      BY <2>2
<1>3. OneOpenEach(toServer')
    BY <1>1 DEF OneOpenEach
<1> QED
    BY <1>2, <1>3

LEMMA HeadSent ==
    ASSUME TypeOK, Outgoing, toServer # <<>>
    PROVE  /\ Head(toServer) \in Commands(Ids) /\ Sent(Head(toServer))
           /\ Head(toServer) = toServer[1] /\ 1 \in 1 .. Len(toServer)
    BY Basics, TailType DEF Outgoing

(* A write of the proxy that reaches an open socket.                       *)
LEMMA SetsOwes ==
    ASSUME srv \in [RemoteIds -> Sockets], NEW r \in RemoteIds,
           srv' = [srv EXCEPT ![r].owes = TRUE]
    PROVE  /\ \A s \in RemoteIds : srv'[s].peer = srv[s].peer /\ srv'[s].st = srv[s].st
           /\ \A s \in RemoteIds : s # r => srv'[s] = srv[s]
    BY DEF Sockets

(* Steps that make no new peers.                                           *)
PeersStay ==
    /\ UNCHANGED <<next_local_id, streams, chan, tasks, go>>
    /\ \A r \in RemoteIds :
         /\ srv'[r].peer = srv[r].peer
         /\ srv[r].st # "idle" => srv'[r].st # "idle"

LEMMA PeersStayStep ==
    ASSUME TypeOK, TypeOK', Wiring, PeersStay, Ends',
           toServer' = toServer \/ (toServer # <<>> /\ toServer' = Tail(toServer)),
           toProxy' = toProxy \/ \E m : Fits(m) /\ toProxy' = Append(toProxy, m)
    PROVE  Wiring'
<1> USE DEF Wiring
<1>1. Named' /\ NamedTasks'
    BY DEF PeersStay, Named, NamedTasks
<1>2. Pairs'
    BY DEF PeersStay, Pairs, Named
<1>3. \A m \in Commands(Ids) : Sent(m) => Sent(m)'
    BY DEF PeersStay, Sent
<1>4. Outgoing' /\ OneOpenEach(toServer')
  <2>1. CASE toServer' = toServer
      BY <2>1, <1>3, Basics DEF Outgoing, OneOpenEach
  <2>2. CASE toServer # <<>> /\ toServer' = Tail(toServer)
    <3>1. \A i \in 2 .. Len(toServer) : i \in 1 .. Len(toServer)
        BY Basics
    <3> QED
        BY <2>2, <3>1, <1>3, TakesQueue DEF Outgoing
  <2> QED
      BY <2>1, <2>2
<1>5. \A m \in Commands(Nat) : Received(m) => Received(m)'
    BY DEF PeersStay, Received
<1>6. Incoming' /\ OneOpenEach(toProxy') /\ Told' /\ Shook'
    BY <1>5, ReplyQueue DEF PeersStay
<1> QED
    BY <1>1, <1>2, <1>4, <1>6

LEMMA ServerCnxnStep ==
    ASSUME TypeOK, TypeOK', Wiring, ServerCnxn
    PROVE  Wiring'
<1> DEFINE m == Command("CNXN", 0, ServerMax, 0)
<1>1. m \in Commands(Nat) /\ m.cmd = "CNXN"
    BY SessionAssumption, MakeCommand DEF Command
<1>2. Fits(m)
    BY <1>1 DEF Fits, Received
<1>3. PeersStay /\ Ends'
    BY DEF ServerCnxn, ServerTakes, proxySide, PeersStay, Wiring, Ends
<1> QED
    BY <1>2, <1>3, PeersStayStep DEF ServerCnxn, ServerTakes, Reply

(* A socket that is closed, or one that answers CLSE.                      *)
LEMMA CloseFits ==
    ASSUME TypeOK, go # "handshake", NEW r \in {0} \cup RemoteIds, NEW l \in {0} \cup Ids
    PROVE  Fits(Command("CLSE", r, l, 0))
<1>1. r \in Nat /\ l \in Nat
    BY Basics
<1>2. Command("CLSE", r, l, 0) \in Commands(Nat)
    BY <1>1, MakeCommand
<1> QED
    BY <1>2 DEF Fits, Received, Command

LEMMA ServerWrteStep ==
    ASSUME TypeOK, TypeOK', Wiring, ServerWrte
    PROVE  Wiring'
<1> USE DEF Wiring
<1>m. PICK m : m = Head(toServer)
    OBVIOUS
<1> DEFINE r == m.arg1
<1>1. /\ m \in Commands(Ids) /\ Sent(m) /\ m.cmd = "WRTE"
      /\ UNCHANGED <<next_local_id, streams, chan, tasks, go, toProxy>>
      /\ toServer # <<>> /\ toServer' = Tail(toServer)
      /\ srv' = IF srv[r].st = "open" THEN [srv EXCEPT ![r].owes = TRUE] ELSE srv
    BY <1>m, HeadSent DEF ServerWrte, ServerTakes, proxySide
<1>2. r \in RemoteIds /\ m.arg0 \in Ids /\ r = chan[m.arg0].rid /\ r # 0
    BY <1>1, CommandTyped, Basics DEF Sent
<1>3. srv[r].st = "open" => srv[r].peer = m.arg0
    BY <1>2 DEF Pairs, Ends
<1>4. /\ \A s \in RemoteIds : srv'[s].peer = srv[s].peer /\ srv'[s].st = srv[s].st
      /\ \A s \in RemoteIds : srv'[s].owes =>
             srv[s].owes \/ (s = r /\ srv[r].st = "open")
  <2>1. CASE srv[r].st = "open"
    <3>1. srv' = [srv EXCEPT ![r].owes = TRUE] /\ srv \in [RemoteIds -> Sockets]
        BY <2>1, <1>1 DEF TypeOK
    <3>2. /\ \A s \in RemoteIds : srv'[s].peer = srv[s].peer /\ srv'[s].st = srv[s].st
          /\ \A s \in RemoteIds : s # r => srv'[s] = srv[s]
        BY <3>1, <1>2, SetsOwes
    <3> QED
        BY <2>1, <3>2
  <2>2. CASE srv[r].st # "open"
      BY <2>2, <1>1
  <2> QED
      BY <2>1, <2>2
<1>5. Ends'
  <2>1. ASSUME NEW s \in RemoteIds
        PROVE  /\ srv'[s].st \in {"idle", "opening"} => srv'[s].peer = 0
               /\ srv'[s].st = "open" => srv'[s].peer # 0
      BY <1>4 DEF Ends
  <2>2. ASSUME NEW s \in RemoteIds, srv'[s].owes
        PROVE  srv'[s].peer # 0 /\ chan'[srv'[s].peer].rid = s
    <3>1. CASE srv[s].owes
        BY <3>1, <1>1, <1>4 DEF Ends
    <3>2. CASE s = r /\ srv[r].st = "open"
        BY <3>2, <1>1, <1>2, <1>3, <1>4, Basics
    <3> QED
        BY <2>2, <1>4, <3>1, <3>2
  <2> QED
      BY <2>1, <2>2 DEF Ends
<1>6. PeersStay
    BY <1>1, <1>4 DEF PeersStay
<1> QED
    BY <1>1, <1>5, <1>6, PeersStayStep

LEMMA ServerClseStep ==
    ASSUME TypeOK, TypeOK', Wiring, ServerClse
    PROVE  Wiring'
<1> USE DEF Wiring
<1>m. PICK m : m = Head(toServer)
    OBVIOUS
<1> DEFINE r == m.arg1
<1>1. /\ m \in Commands(Ids) /\ Sent(m) /\ m.cmd = "CLSE"
      /\ UNCHANGED <<next_local_id, streams, chan, tasks, go>>
      /\ toServer # <<>> /\ toServer' = Tail(toServer)
      /\ srv' = [srv EXCEPT ![r].st = "closed"]
      /\ toProxy' = toProxy \/ Reply(Command("CLSE", r, m.arg0, 0))
    BY <1>m, HeadSent DEF ServerClse, ServerTakes, proxySide
<1>2. r \in RemoteIds /\ m.arg0 \in {0} \cup Ids /\ go # "handshake"
    BY <1>1, CommandTyped, Basics DEF Sent
<1>3. \A s \in RemoteIds : /\ srv'[s].peer = srv[s].peer /\ srv'[s].owes = srv[s].owes
                           /\ srv'[s].st = srv[s].st \/ srv'[s].st = "closed"
    BY <1>1, <1>2, Basics DEF TypeOK, Sockets
<1>4. Ends'
    BY <1>1, <1>3 DEF Ends
<1>5. PeersStay
    BY <1>1, <1>3 DEF PeersStay
<1>6. Fits(Command("CLSE", r, m.arg0, 0))
    BY <1>2, CloseFits
<1> QED
    BY <1>1, <1>4, <1>5, <1>6, PeersStayStep DEF Reply

LEMMA ServerOkayStep ==
    ASSUME TypeOK, TypeOK', Wiring, ServerOkay
    PROVE  Wiring'
<1> USE DEF Wiring
<1>m. PICK m : m = Head(toServer)
    OBVIOUS
<1> DEFINE l == m.arg0
<1> DEFINE r == m.arg1
<1>1. /\ m \in Commands(Ids) /\ Sent(m) /\ m.cmd = "OKAY"
      /\ UNCHANGED <<next_local_id, streams, chan, tasks, go>>
      /\ toServer # <<>> /\ toServer' = Tail(toServer)
      /\ Outgoing /\ OneOpenEach(toServer)
    BY <1>m, HeadSent DEF ServerOkay, ServerTakes, proxySide
<1>2. /\ r \in RemoteIds /\ l \in Ids /\ r = chan[l].rid /\ r # 0
      /\ srv[r].st # "idle" /\ go # "handshake"
    BY <1>1, CommandTyped, Basics DEF Sent
<1>3. srv[r].peer \in {0, l} /\ l < next_local_id
    BY <1>2 DEF Pairs, Named
<1>4. CASE srv[r].st = "closed"
  <2>1. Fits(Command("CLSE", r, l, 0))
      BY <1>2, CloseFits
  <2>2. toProxy' = Append(toProxy, Command("CLSE", r, l, 0)) /\ srv' = srv
      BY <1>m, <1>4 DEF ServerOkay, Reply
  <2>3. PeersStay /\ Ends'
      BY <1>1, <2>2 DEF PeersStay, Ends
  <2> QED
      BY <1>1, <2>1, <2>2, <2>3, PeersStayStep
<1>5. CASE srv[r].st # "closed"
  <2>1. /\ toProxy' = toProxy
        /\ srv' = [srv EXCEPT ![r].st = "open", ![r].peer = l, ![r].credit = TRUE]
      BY <1>m, <1>5 DEF ServerOkay
  <2>2. /\ srv'[r].peer = l /\ srv'[r].st = "open" /\ srv'[r].owes = srv[r].owes
        /\ \A s \in RemoteIds : s # r => srv'[s] = srv[s]
      BY <2>1, <1>2, Basics DEF TypeOK, Sockets
  <2>3. Named' /\ NamedTasks'
      BY <1>1 DEF Named, NamedTasks
  <2>4. Pairs'
    <3>1. ASSUME NEW k \in Ids, chan[k].rid # 0
          PROVE  srv'[chan[k].rid].peer \in {0, k} /\ srv'[chan[k].rid].st # "idle"
      <4>1. chan[k].rid = r => k = l
          BY <1>2 DEF Pairs
      <4> QED
          BY <3>1, <4>1, <2>2 DEF Pairs, Named
    <3>2. ASSUME NEW s \in RemoteIds, srv'[s].peer # 0
          PROVE  srv'[s].peer < next_local_id /\ chan[srv'[s].peer].rid \in {0, s}
        BY <3>2, <2>2, <1>2, <1>3 DEF Pairs
    <3>3. ASSUME NEW s \in RemoteIds, NEW q \in RemoteIds,
                 srv'[s].peer = srv'[q].peer, srv'[s].peer # 0
          PROVE  s = q
      <4>1. \A e \in RemoteIds : e # r => srv[e].peer # l
          BY <1>2, Basics DEF Pairs
      <4> QED
          BY <3>3, <4>1, <2>2 DEF Pairs
    <3>4. \A k, j \in Ids : chan[k].rid = chan[j].rid /\ chan[k].rid # 0 => k = j
        BY DEF Pairs
    <3> QED
        BY <3>1, <3>2, <3>3, <3>4, <1>1 DEF Pairs
  <2>5. Ends'
      BY <1>1, <1>2, <2>2, Basics DEF Ends
  <2>6. \A c \in Commands(Ids) : Sent(c) => Sent(c)'
    <3> SUFFICES ASSUME NEW c \in Commands(Ids), Sent(c)
                 PROVE  Sent(c)'
        OBVIOUS
    <3>1. c.cmd = "OPEN" => c.arg0 # l
        BY <1>2 DEF Sent
    <3>2. c.cmd = "OPEN" => \A s \in RemoteIds : srv'[s].peer # c.arg0
        BY <3>1, <2>2 DEF Sent
    <3>3. \A s \in RemoteIds : srv[s].st # "idle" => srv'[s].st # "idle"
        BY <2>2
    <3> QED
        BY <3>2, <3>3, <1>1 DEF Sent
  <2>7. Outgoing' /\ OneOpenEach(toServer')
    <3>1. \A i \in 2 .. Len(toServer) : i \in 1 .. Len(toServer)
        BY Basics
    <3> QED
        BY <3>1, <2>6, <1>1, TakesQueue DEF Outgoing
  <2>8. \A c \in Commands(Nat) : Received(c) => Received(c)'
    <3> SUFFICES ASSUME NEW c \in Commands(Nat), Received(c)
                 PROVE  Received(c)'
        OBVIOUS
    <3>1. c.cmd = "OPEN" => c.arg0 # r
        BY <1>2 DEF Received
    <3>2. c.cmd \in {"OKAY", "WRTE"} /\ c.arg0 = r => c.arg1 = l
        BY <1>3 DEF Received
    <3> QED
        BY <3>1, <3>2, <2>2, <1>1 DEF Received
  <2>9. Incoming' /\ OneOpenEach(toProxy') /\ Told' /\ Shook'
    <3>1. \A s \in RemoteIds : srv'[s].peer = srv[s].peer \/ chan[srv'[s].peer].rid # 0
        BY <2>2, <1>2
    <3> QED
        BY <3>1, <2>1, <2>8, <1>1, ReplyQueue
  <2> QED
      BY <2>3, <2>4, <2>5, <2>7, <2>9
<1> QED
    BY <1>4, <1>5

LEMMA ServerOpenStep ==
    ASSUME TypeOK, TypeOK', Wiring, ServerOpen
    PROVE  Wiring'
<1> USE DEF Wiring
<1>m. PICK m : m = Head(toServer)
    OBVIOUS
<1> DEFINE l == m.arg0
<1>1. /\ m \in Commands(Ids) /\ Sent(m) /\ m.cmd = "OPEN"
      /\ m = toServer[1] /\ 1 \in 1 .. Len(toServer)
      /\ UNCHANGED <<next_local_id, streams, chan, tasks, go>>
      /\ toServer # <<>> /\ toServer' = Tail(toServer)
      /\ Outgoing /\ OneOpenEach(toServer)
    BY <1>m, HeadSent DEF ServerOpen, ServerTakes, proxySide
<1>2. /\ l \in Ids /\ l < next_local_id /\ chan[l].rid = 0 /\ l # 0
      /\ (\A s \in RemoteIds : srv[s].peer # l) /\ go # "handshake"
    BY <1>1, CommandTyped, Basics DEF Sent
<1>3. CASE Reply(Command("CLSE", 0, l, 0)) /\ UNCHANGED srv
  <2>1. Fits(Command("CLSE", 0, l, 0))
      BY <1>2, CloseFits
  <2>2. PeersStay /\ Ends'
      BY <1>1, <1>3 DEF PeersStay, Ends
  <2> QED
      BY <1>1, <1>3, <2>1, <2>2, PeersStayStep DEF Reply
<1>4. ASSUME NEW r \in RemoteIds, srv[r].st = "idle", Reply(Command("OKAY", r, l, 0)),
             srv' = [srv EXCEPT ![r] = [Idle EXCEPT !.st = "open", !.peer = l,
                                                    !.credit = TRUE]]
      PROVE  Wiring'
  <2>1. /\ srv'[r].peer = l /\ srv'[r].st = "open" /\ ~srv'[r].owes
        /\ \A s \in RemoteIds : s # r => srv'[s] = srv[s]
      BY <1>4 DEF TypeOK, Idle
  <2>2. srv[r].peer = 0 /\ \A k \in Ids : chan[k].rid # r
      BY <1>4, Basics DEF Ends, Pairs
  <2>3. Named' /\ NamedTasks'
      BY <1>1 DEF Named, NamedTasks
  <2>4. Pairs'
    <3>1. ASSUME NEW k \in Ids, chan[k].rid # 0
          PROVE  srv'[chan[k].rid].peer \in {0, k} /\ srv'[chan[k].rid].st # "idle"
        BY <3>1, <2>1, <2>2 DEF Pairs, Named
    <3>2. ASSUME NEW s \in RemoteIds, srv'[s].peer # 0
          PROVE  srv'[s].peer < next_local_id /\ chan[srv'[s].peer].rid \in {0, s}
        BY <3>2, <2>1, <1>2 DEF Pairs
    <3>3. ASSUME NEW s \in RemoteIds, NEW q \in RemoteIds,
                 srv'[s].peer = srv'[q].peer, srv'[s].peer # 0
          PROVE  s = q
        BY <3>3, <2>1, <1>2 DEF Pairs
    <3>4. \A k, j \in Ids : chan[k].rid = chan[j].rid /\ chan[k].rid # 0 => k = j
        BY DEF Pairs
    <3> QED
        BY <3>1, <3>2, <3>3, <3>4, <1>1 DEF Pairs
  <2>5. Ends'
      BY <1>1, <1>2, <2>1 DEF Ends
  <2>6. ASSUME NEW c \in Commands(Ids), \E i \in 2 .. Len(toServer) : toServer[i] = c
        PROVE  Sent(c)'
    <3>1. PICK i \in 2 .. Len(toServer) : toServer[i] = c
        BY <2>6
    <3>2. i \in 1 .. Len(toServer) /\ i # 1
        BY Basics
    <3>3. Sent(c)
        BY <3>1, <3>2 DEF Outgoing
    <3>4. c.cmd = "OPEN" => c.arg0 # l
        BY <3>1, <3>2, <1>1 DEF OneOpenEach
    <3>5. c.cmd = "OPEN" => \A s \in RemoteIds : srv'[s].peer # c.arg0
        BY <3>3, <3>4, <2>1 DEF Sent
    <3>6. \A s \in RemoteIds : srv[s].st # "idle" => srv'[s].st # "idle"
        BY <2>1
    <3> QED
        BY <3>3, <3>5, <3>6, <1>1 DEF Sent
  <2>7. Outgoing' /\ OneOpenEach(toServer')
      BY <2>6, <1>1, TakesQueue
  <2>8. \A c \in Commands(Nat) : Received(c) => Received(c)'
    <3> SUFFICES ASSUME NEW c \in Commands(Nat), Received(c)
                 PROVE  Received(c)'
        OBVIOUS
    <3>1. c.cmd \in {"OPEN", "OKAY", "WRTE"} => c.arg0 # r
        BY <2>2, <1>4 DEF Received
    <3> QED
        BY <3>1, <2>1, <1>1 DEF Received
  <2> DEFINE o == Command("OKAY", r, l, 0)
  <2>9. o \in Commands(Nat) /\ o.cmd = "OKAY" /\ o.arg0 = r /\ o.arg1 = l
      BY Basics, <1>2, MakeCommand DEF Command
  <2>10. toProxy' = Append(toProxy, o)
      BY <1>4 DEF Reply
  <2> HIDE DEF o
  <2>11. Fits(o)
      BY <2>9, <2>1, <1>2 DEF Fits, Received
  <2>12. Incoming' /\ OneOpenEach(toProxy') /\ Told' /\ Shook'
    <3>1. \A s \in RemoteIds : srv'[s].peer # 0 =>
               \/ srv'[s].peer = srv[s].peer
               \/ \E e : /\ toProxy' = Append(toProxy, e) /\ e \in Commands(Nat)
                         /\ e.cmd = "OKAY" /\ e.arg1 = srv'[s].peer
        BY <2>1, <2>9, <2>10
    <3> QED
        BY <3>1, <2>8, <2>10, <2>11, <1>1, ReplyQueue
  <2> QED
      BY <2>3, <2>4, <2>5, <2>7, <2>12
<1> QED
    BY <1>m, <1>3, <1>4 DEF ServerOpen

(* A step of a client changes the socket r, not its peer.                  *)
LEMMA ClientStep ==
    ASSUME TypeOK, TypeOK', Wiring, NEW r \in RemoteIds,
           ClientOpens(r) \/ ClientWrites(r) \/ ClientReads(r) \/ ClientCloses(r)
    PROVE  Wiring'
<1> USE DEF Wiring
<1>1. UNCHANGED <<next_local_id, streams, chan, tasks, go, toServer>>
    BY DEF ClientOpens, ClientWrites, ClientReads, ClientCloses, proxySide
<1>2. ASSUME srv[r].st = "open"
      PROVE  srv[r].peer \in Ids /\ go # "handshake" /\ Answered(srv[r].peer, Len(toProxy) + 1)
  <2>1. srv[r].peer # 0 /\ srv[r].peer \in Ids
      BY <1>2, Basics DEF Ends
  <2>2. srv[r].peer < next_local_id
      BY <2>1 DEF Pairs
  <2> QED
      BY <2>1, <2>2, Basics DEF Shook, Told
<1>3. CASE ClientOpens(r)
  <2> DEFINE m == Command("OPEN", r, 0, 0)
  <2>1. m \in Commands(Nat) /\ m.cmd = "OPEN" /\ m.arg0 = r
      BY Basics, MakeCommand DEF Command
  <2>2. /\ srv[r].st = "idle" /\ srv' = [srv EXCEPT ![r].st = "opening"]
        /\ toProxy' = Append(toProxy, m) /\ (go = "handshake" => toProxy # <<>>)
      BY <1>3 DEF ClientOpens, Connected, Reply
  <2> HIDE DEF m
  <2>3. srv[r].peer = 0 /\ \A k \in Ids : chan[k].rid # r
      BY <2>2, Basics DEF Ends, Pairs
  <2>4. /\ \A s \in RemoteIds : srv'[s].peer = srv[s].peer /\ srv'[s].owes = srv[s].owes
        /\ srv'[r].st = "opening"
        /\ \A s \in RemoteIds : s # r => srv'[s].st = srv[s].st
      BY <2>2, Basics DEF TypeOK, Sockets
  <2>5. Ends'
      BY <1>1, <2>3, <2>4 DEF Ends
  <2>6. PeersStay
      BY <1>1, <2>4 DEF PeersStay
  <2>7. \A i \in 1 .. Len(toProxy) : toProxy[i].cmd = "OPEN" => toProxy[i].arg0 # r
      BY <2>2 DEF Incoming, Received
  <2>8. Fits(m)
      BY <1>1, <2>1, <2>2, <2>3, <2>4, <2>7 DEF Fits, Received
  <2> QED
      BY <1>1, <2>2, <2>5, <2>6, <2>8, PeersStayStep
<1>4. CASE ClientWrites(r)
  <2>m. PICK m : m = Command("WRTE", r, srv[r].peer, srv[r].sent + 1)
      OBVIOUS
  <2>0. srv[r].st = "open" /\ srv[r].sent \in Nat
      BY <1>4, Basics DEF ClientWrites, Sockets
  <2>1. m \in Commands(Nat) /\ m.cmd = "WRTE" /\ m.arg0 = r /\ m.arg1 = srv[r].peer
      BY <2>m, <2>0, Basics, MakeCommand DEF Command
  <2>2. /\ srv' = [srv EXCEPT ![r].sent = @ + 1, ![r].credit = FALSE]
        /\ toProxy' = Append(toProxy, m)
      BY <2>m, <1>4 DEF ClientWrites, Reply
  <2>3. \A s \in RemoteIds : srv'[s].peer = srv[s].peer /\ srv'[s].owes = srv[s].owes
                             /\ srv'[s].st = srv[s].st
      BY <2>2, Basics DEF TypeOK, Sockets
  <2>4. Ends'
      BY <1>1, <2>3 DEF Ends
  <2>5. PeersStay
      BY <1>1, <2>3 DEF PeersStay
  <2>6. Fits(m)
      BY <1>2, <2>0, <2>1, <2>3, Basics DEF Fits, Received
  <2> QED
      BY <1>1, <2>2, <2>4, <2>5, <2>6, PeersStayStep
<1>5. CASE ClientReads(r)
  <2>m. PICK m : m = Command("OKAY", r, srv[r].peer, 0)
      OBVIOUS
  <2>0. srv[r].st = "open"
      BY <1>5 DEF ClientReads
  <2>1. m \in Commands(Nat) /\ m.cmd = "OKAY" /\ m.arg0 = r /\ m.arg1 = srv[r].peer
      BY <2>m, Basics, MakeCommand DEF Command
  <2>2. srv' = [srv EXCEPT ![r].owes = FALSE] /\ toProxy' = Append(toProxy, m)
      BY <2>m, <1>5 DEF ClientReads, Reply
  <2>3. \A s \in RemoteIds : /\ srv'[s].peer = srv[s].peer /\ srv'[s].st = srv[s].st
                             /\ srv'[s].owes => srv[s].owes
    <3>1. CASE srv[r].owes
        BY <3>1, <2>2, Basics DEF TypeOK, Sockets
    <3> QED
        BY <3>1, <1>5 DEF ClientReads
  <2>4. Ends'
      BY <1>1, <2>3 DEF Ends
  <2>5. PeersStay
      BY <1>1, <2>3 DEF PeersStay
  <2>6. Fits(m)
      BY <1>2, <2>0, <2>1, <2>3, Basics DEF Fits, Received
  <2> QED
      BY <1>1, <2>2, <2>4, <2>5, <2>6, PeersStayStep
<1>6. CASE ClientCloses(r)
  <2>1. srv' = [srv EXCEPT ![r].st = "closed"] /\ srv[r].st \in {"opening", "open"}
      BY <1>6 DEF ClientCloses
  <2>2. \A s \in RemoteIds : /\ srv'[s].peer = srv[s].peer /\ srv'[s].owes = srv[s].owes
                             /\ srv'[s].st = srv[s].st \/ srv'[s].st = "closed"
      BY <2>1, Basics DEF TypeOK, Sockets
  <2>3. Ends'
      BY <1>1, <2>2 DEF Ends
  <2>4. PeersStay
      BY <1>1, <2>2 DEF PeersStay
  <2>5. toProxy' = toProxy \/ \E m : Fits(m) /\ toProxy' = Append(toProxy, m)
    <3>1. CASE srv[r].st = "open"
      <4>1. PICK l \in Ids : l = srv[r].peer
          BY <3>1, <1>2
      <4>2. Fits(Command("CLSE", r, l, 0))
          BY <3>1, <1>2, CloseFits
      <4> QED
          BY <1>6, <3>1, <4>1, <4>2 DEF ClientCloses, Reply
    <3>2. CASE srv[r].st # "open"
        BY <1>6, <3>2 DEF ClientCloses
    <3> QED
        BY <3>1, <3>2
  <2> QED
      BY <1>1, <2>3, <2>4, <2>5, PeersStayStep
<1> QED
    BY <1>3, <1>4, <1>5, <1>6

-----------------------------------------------------------------------------
LEMMA WiringStep ==
    ASSUME TypeOK, TypeOK', Shape, Wiring, [Next]_vars
    PROVE  Wiring'
<1>1. CASE UNCHANGED srv /\ (RecvSome \/ ReverseAccept)
    BY <1>1, RecvHandshakeStep, RecvTaskStep, RecvOpenStep, RecvOkayStep, ReverseStep
    DEF RecvSome
<1>2. CASE UNCHANGED srv /\ (GoStops \/ GoEnds \/ GoInterrupted)
    BY <1>2, GoStep
<1>3. ASSUME NEW l \in Ids, UNCHANGED srv,
             \/ StartSome(l) \/ WriteDrained(l) \/ OpenSome(l)
             \/ SinkSome(l) \/ CloserResumes(l) \/ TeardownClose(l)
      PROVE  Wiring'
    BY <1>3, TasksQuiet, QuietStep
<1>4. CASE ServerHandles
    BY <1>4, ServerCnxnStep, ServerOkayStep, ServerWrteStep, ServerClseStep, ServerOpenStep
    DEF ServerHandles
<1>5. CASE ServerLost
    BY <1>5, StillStep DEF ServerLost, proxySide
<1>6. ASSUME NEW r \in RemoteIds,
             ClientOpens(r) \/ ClientWrites(r) \/ ClientReads(r) \/ ClientCloses(r)
      PROVE  Wiring'
    BY <1>6, ClientStep
<1>7. ASSUME NEW l \in Ids, DeviceProduces(l) \/ DeviceEnds(l)
      PROVE  Wiring'
    BY <1>7, StillStep DEF DeviceProduces, DeviceEnds, DeviceKeeps, loop
<1>8. CASE UNCHANGED vars
    BY <1>8, StillStep DEF vars, proxyVars, loop
<1> QED
    BY <1>1, <1>2, <1>3, <1>4, <1>5, <1>6, <1>7, <1>8
    DEF Next, ProxyNext, ServerNext, DeviceNext

(* Every command and every task on its way names the two ends of one       *)
(* stream: what the dispatch of go() and the ids that open_channel and     *)
(* on_connected give out amount to (adb_proxy.py:201, 258-361).            *)
THEOREM WiringInvariant == Spec => []Wiring
<1>1. Init => Wiring
    BY WiringInit
<1>2. TypeOK /\ TypeOK' /\ Shape /\ Wiring /\ [Next]_vars => Wiring'
    BY WiringStep
<1> QED
    BY <1>1, <1>2, SafetyInvariant, PTL DEF Spec

(* What goes out for a stream names the socket that is its peer: the OKAY  *)
(* that tells it is never overtaken (adb_proxy.py:201, 351).               *)
THEOREM PeerIsRight == Spec => []RightPeer
<1>1. TypeOK /\ Wiring => RightPeer
  <2> SUFFICES ASSUME TypeOK, Wiring, NEW i \in DOMAIN toServer,
                      toServer[i].cmd \in {"WRTE", "CLSE"}, toServer[i].arg0 # 0
               PROVE  LET m == toServer[i] IN
                      /\ m.arg1 \in RemoteIds
                      /\ srv[m.arg1].st = "open" => srv[m.arg1].peer = m.arg0
      BY DEF RightPeer
  <2>1. i \in 1 .. Len(toServer)
      BY Basics
  <2>2. PICK m \in Commands(Ids) : m = toServer[i]
      BY <2>1, Basics
  <2>3. Sent(m) /\ m.arg0 \in Ids
      BY <2>1, <2>2, CommandTyped, Basics DEF Wiring, Outgoing
  <2>4. m.arg1 \in RemoteIds /\ m.arg1 = chan[m.arg0].rid /\ m.arg1 # 0
      BY <2>2, <2>3, Basics DEF Sent
  <2>5. srv[m.arg1].st = "open" => srv[m.arg1].peer = m.arg0
      BY <2>3, <2>4 DEF Wiring, Pairs, Ends
  <2> QED
      BY <2>2, <2>4, <2>5
<1> QED
    BY <1>1, SafetyInvariant, WiringInvariant, PTL

-----------------------------------------------------------------------------
(* Counting the elements of a sequence that are in a set.                  *)

Places(q, S) == {i \in 1 .. Len(q) : q[i] \in S}

Num(q, S) == Cardinality(Places(q, S))

LEMMA PlacesFinite ==
    ASSUME NEW T, NEW q \in Seq(T), NEW S
    PROVE  IsFiniteSet(Places(q, S)) /\ Num(q, S) \in Nat
<1>1. Len(q) \in Nat
    OBVIOUS
<1>2. IsFiniteSet(1 .. Len(q))
    BY <1>1, FS_Interval
<1>3. Places(q, S) \in SUBSET (1 .. Len(q))
    BY DEF Places
<1> QED
    BY <1>2, <1>3, FS_Subset, FS_CardinalityType DEF Num

LEMMA NumAppend ==
    ASSUME NEW T, NEW q \in Seq(T), NEW e \in T, NEW S
    PROVE  Num(Append(q, e), S) = Num(q, S) + (IF e \in S THEN 1 ELSE 0)
<1> DEFINE n == Len(q) + 1
<1>1. /\ Len(Append(q, e)) = n /\ n \in Nat
      /\ \A i \in 1 .. Len(q) : i \in 1 .. n /\ Append(q, e)[i] = q[i] /\ i # n
      /\ \A i \in 1 .. n : i \in 1 .. Len(q) \/ i = n
      /\ n \in 1 .. n
      /\ Append(q, e)[n] = e
    BY AppendType
<1> HIDE DEF n
<1>2. Places(Append(q, e), S) = IF e \in S THEN Places(q, S) \cup {n} ELSE Places(q, S)
    BY <1>1 DEF Places
<1>3. n \notin Places(q, S)
    BY <1>1 DEF Places
<1>4. IsFiniteSet(Places(q, S)) /\ Cardinality(Places(q, S)) \in Nat
    BY PlacesFinite DEF Num
<1>5. Cardinality(Places(q, S) \cup {n}) = Cardinality(Places(q, S)) + 1
    BY <1>3, <1>4, FS_AddElement
<1> QED
    BY <1>2, <1>4, <1>5 DEF Num

LEMMA NumTail ==
    ASSUME NEW T, NEW q \in Seq(T), q # <<>>, NEW S
    PROVE  Num(q, S) = Num(Tail(q), S) + (IF Head(q) \in S THEN 1 ELSE 0)
<1> DEFINE R == Places(q, S) \ {1}
<1>1. /\ Tail(q) \in Seq(T) /\ Len(Tail(q)) = Len(q) - 1 /\ Len(q) \in Nat \ {0}
      /\ \A i \in 1 .. Len(Tail(q)) : i + 1 \in 1 .. Len(q) /\ Tail(q)[i] = q[i + 1]
      /\ Head(q) = q[1]
    BY TailType
<1>2. 1 \in Places(q, S) <=> Head(q) \in S
    BY <1>1 DEF Places
<1>3. /\ IsFiniteSet(Places(q, S)) /\ Cardinality(Places(q, S)) \in Nat
      /\ IsFiniteSet(Places(Tail(q), S)) /\ Cardinality(Places(Tail(q), S)) \in Nat
    BY <1>1, PlacesFinite DEF Num
<1>4. ExistsBijection(Places(Tail(q), S), R)
  <2> DEFINE f == [i \in Places(Tail(q), S) |-> i + 1]
  <2>1. \A i \in Places(Tail(q), S) : i \in Nat /\ i + 1 \in R
      BY <1>1 DEF Places
  <2>2. \A j \in R : j - 1 \in Places(Tail(q), S) /\ (j - 1) + 1 = j
      BY <1>1 DEF Places
  <2>3. f \in [Places(Tail(q), S) -> R]
      BY <2>1
  <2>4. \A i, j \in Places(Tail(q), S) : f[i] = f[j] => i = j
      BY <2>1
  <2>5. \A j \in R : \E i \in Places(Tail(q), S) : f[i] = j
      BY <2>2
  <2>6. f \in Bijection(Places(Tail(q), S), R)
      BY <2>3, <2>4, <2>5 DEF Bijection, Injection, Surjection, IsInjective
  <2> QED
      BY <2>6 DEF ExistsBijection
<1>5. Cardinality(R) = Cardinality(Places(Tail(q), S))
    BY <1>3, <1>4, FS_Bijection
<1>6. Cardinality(R) = IF 1 \in Places(q, S) THEN Cardinality(Places(q, S)) - 1
                                             ELSE Cardinality(Places(q, S))
    BY <1>3, FS_RemoveElement
<1> QED
    BY <1>2, <1>3, <1>5, <1>6 DEF Num

LEMMA NumNone ==
    ASSUME NEW q, NEW S, \A i \in 1 .. Len(q) : q[i] \notin S
    PROVE  Num(q, S) = 0
<1>1. Places(q, S) = {}
    BY DEF Places
<1> QED
    BY <1>1, FS_EmptySet DEF Num

LEMMA NumIncluded ==
    ASSUME NEW T, NEW q \in Seq(T), NEW S, NEW R \in SUBSET S
    PROVE  Num(q, R) <= Num(q, S)
<1>1. Places(q, R) \in SUBSET Places(q, S)
    BY DEF Places
<1> QED
    BY <1>1, PlacesFinite, FS_Subset DEF Num

-----------------------------------------------------------------------------
(* One permit at most.  The tokens of l: what may become a WRTE of l, or   *)
(* was one, and is not acknowledged.                                       *)
Bit(b) == IF b THEN 1 ELSE 0

ReadyFor(l) == {t \in Tasks : t.op = "ready" /\ t.id = l}
OkayTo(l) == {m \in Commands(Nat) : m.cmd = "OKAY" /\ m.arg1 = l}
SentBy(l) == {m \in Commands(Ids) : m.cmd \in {"OPEN", "WRTE"} /\ m.arg0 = l}

HeldBy(c) == c.ready + Bit(c.open = "okSent") + Bit(c.sink = "read")

Held(l) == HeldBy(chan[l])

Owing(l) == Bit(\E r \in RemoteIds : srv[r].peer = l /\ srv[r].owes)

Tokens(l) ==
    Held(l) + Num(tasks, ReadyFor(l)) + Num(toProxy, OkayTo(l))
    + Num(toServer, SentBy(l)) + Owing(l)

(* Before its OPEN is answered or sent, a stream has none.                 *)
Early(c) == c.open \in {"none", "connecting", "okayAnswer"}

Flow == \A l \in Ids : Tokens(l) <= 1 /\ (Early(chan[l]) => Tokens(l) = 0)

LEMMA TokenTypes ==
    ASSUME TypeOK, NEW l \in Ids
    PROVE  /\ Held(l) \in Nat /\ Owing(l) \in Nat
           /\ Num(tasks, ReadyFor(l)) \in Nat /\ Num(toProxy, OkayTo(l)) \in Nat
           /\ Num(toServer, SentBy(l)) \in Nat
           /\ Tokens(l) \in Nat
<1>1. Held(l) \in Nat
    BY DEF TypeOK, Channels, Held, HeldBy, Bit
<1>2. Owing(l) \in Nat
    BY DEF Owing, Bit
<1>3. /\ Num(tasks, ReadyFor(l)) \in Nat /\ Num(toProxy, OkayTo(l)) \in Nat
      /\ Num(toServer, SentBy(l)) \in Nat
    BY Basics, PlacesFinite
<1> QED
    BY <1>1, <1>2, <1>3 DEF Tokens

LEMMA TokenTypesNext ==
    ASSUME TypeOK', NEW l \in Ids
    PROVE  /\ Held(l)' \in Nat /\ Owing(l)' \in Nat
           /\ Num(tasks, ReadyFor(l))' \in Nat /\ Num(toProxy, OkayTo(l))' \in Nat
           /\ Num(toServer, SentBy(l))' \in Nat
           /\ Tokens(l)' \in Nat
<1>1. Held(l)' \in Nat
    BY DEF TypeOK, Channels, Held, HeldBy, Bit
<1>2. Owing(l)' \in Nat
    BY DEF Owing, Bit
<1>3. /\ Num(tasks', ReadyFor(l)) \in Nat /\ Num(toProxy', OkayTo(l)) \in Nat
      /\ Num(toServer', SentBy(l)) \in Nat
  <2>1. /\ tasks' \in Seq(Tasks) /\ toProxy' \in Seq(Commands(Nat))
        /\ toServer' \in Seq(Commands(Ids))
      BY DEF TypeOK
  <2> QED
      BY <2>1, PlacesFinite
<1> QED
    BY <1>1, <1>2, <1>3 DEF Tokens

LEMMA FlowInit == Init => Flow
<1> SUFFICES ASSUME Init, NEW l \in Ids
             PROVE  Tokens(l) = 0
    BY DEF Flow
<1>1. Held(l) = 0
    BY DEF Init, ProxyInit, Unused, Held, HeldBy, Bit
<1>2. Owing(l) = 0
    BY DEF Init, Idle, Owing, Bit
<1>3. Num(tasks, ReadyFor(l)) = 0 /\ Num(toProxy, OkayTo(l)) = 0
  <2>1. Len(tasks) = 0 /\ Len(toProxy) = 0
      BY DEF Init, ProxyInit
  <2> QED
      BY <2>1, NumNone
<1>4. Num(toServer, SentBy(l)) = 0
  <2>1. Len(toServer) = 1 /\ toServer[1].cmd = "CNXN"
      BY DEF Init, ProxyInit, Command
  <2> QED
      BY <2>1, NumNone DEF SentBy
<1> QED
    BY <1>1, <1>2, <1>3, <1>4 DEF Tokens

(* What sending, taking and creating do to the counts.                     *)
LEMMA SendCounts ==
    ASSUME TypeOK, NEW m \in Commands(Ids), Send(m), NEW l \in Ids
    PROVE  Num(toServer, SentBy(l))' <= Num(toServer, SentBy(l))
               + Bit(m.cmd \in {"OPEN", "WRTE"} /\ m.arg0 = l)
<1>1. Num(toServer, SentBy(l)) \in Nat
    BY TokenTypes
<1>2. m \in SentBy(l) <=> m.cmd \in {"OPEN", "WRTE"} /\ m.arg0 = l
    BY DEF SentBy
<1> QED
    BY <1>1, <1>2, Basics, NumAppend DEF Send, Bit

LEMMA TasksCounts ==
    ASSUME TypeOK, NEW l \in Ids,
           tasks' = tasks \/ (tasks # <<>> /\ tasks' = Tail(tasks))
    PROVE  Num(tasks, ReadyFor(l))' <= Num(tasks, ReadyFor(l))
<1>1. Num(tasks, ReadyFor(l)) \in Nat
    BY TokenTypes
<1>2. CASE tasks' = tasks
    BY <1>1, <1>2
<1>3. CASE tasks # <<>> /\ tasks' = Tail(tasks)
  <2>1. Tail(tasks) \in Seq(Tasks)
      BY <1>3, Basics, TailType
  <2>2. Num(Tail(tasks), ReadyFor(l)) \in Nat
      BY <2>1, PlacesFinite
  <2> QED
      BY <1>1, <1>3, <2>2, Basics, NumTail
<1> QED
    BY <1>2, <1>3

(* A step of a task for l: only the tokens of l change.                    *)
LEMMA FlowQuiet ==
    ASSUME TypeOK, TypeOK', Flow, NEW l \in Ids, Quiet(l),
           \/ Tokens(l)' <= Tokens(l) /\ (Early(chan'[l]) => Early(chan[l]))
           \/ Tokens(l)' <= 1 /\ (Early(chan'[l]) => Tokens(l)' = 0)
    PROVE  Flow'
<1> SUFFICES ASSUME NEW k \in Ids
             PROVE  (Tokens(k) <= 1 /\ (Early(chan[k]) => Tokens(k) = 0))'
    BY DEF Flow
<1>1. /\ Tokens(k) \in Nat /\ Tokens(k)' \in Nat
      /\ Tokens(k) <= 1 /\ (Early(chan[k]) => Tokens(k) = 0)
    BY TokenTypes, TokenTypesNext DEF Flow
<1>2. CASE k = l
    BY <1>1, <1>2
<1>3. CASE k # l
  <2>1. chan'[k] = chan[k]
      BY <1>3 DEF Quiet
  <2>2. Held(k)' = Held(k)
      BY <2>1 DEF Held
  <2>3. Num(tasks, ReadyFor(k))' <= Num(tasks, ReadyFor(k))
      BY TasksCounts DEF Quiet
  <2>4. Num(toServer, SentBy(k))' <= Num(toServer, SentBy(k))
    <3>1. CASE toServer' = toServer
        BY <3>1, TokenTypes
    <3>2. ASSUME NEW m, Speaks(l, m), toServer' = Append(toServer, m)
          PROVE  Num(toServer, SentBy(k))' <= Num(toServer, SentBy(k))
      <4>1. m \notin SentBy(k) /\ m \in Commands(Ids)
          BY <1>3, <3>2 DEF Speaks, SentBy
      <4> QED
          BY <3>2, <4>1, Basics, NumAppend, TokenTypes
    <3> QED
        BY <3>1, <3>2 DEF Quiet
  <2>5. Num(toProxy, OkayTo(k))' = Num(toProxy, OkayTo(k)) /\ Owing(k)' = Owing(k)
      BY DEF Quiet, Owing
  <2>6. Tokens(k)' <= Tokens(k)
    <3>1. /\ Held(k) \in Nat /\ Num(tasks, ReadyFor(k)) \in Nat
          /\ Num(toProxy, OkayTo(k)) \in Nat /\ Owing(k) \in Nat
          /\ Num(toServer, SentBy(k)) \in Nat
          /\ Num(tasks, ReadyFor(k))' \in Nat /\ Num(toServer, SentBy(k))' \in Nat
        BY TokenTypes, TokenTypesNext
    <3> QED
        BY <2>2, <2>3, <2>4, <2>5, <3>1 DEF Tokens
  <2> QED
      BY <1>1, <2>1, <2>6
<1> QED
    BY <1>2, <1>3

LEMMA EnterCloseHeld ==
    ASSUME NEW c \in Channels, NEW b, NEW who
    PROVE  HeldBy(EnterClose(c, b, who)) <= HeldBy(c) /\ EnterClose(c, b, who).open = c.open
    BY DEF EnterClose, HeldBy, Bit, Channels

LEMMA FlowTasks ==
    ASSUME TypeOK, TypeOK', Shape, Wiring, Flow, NEW l \in Ids, UNCHANGED srv,
           \/ StartSome(l) \/ WriteDrained(l) \/ OpenSome(l)
           \/ SinkSome(l) \/ CloserResumes(l) \/ TeardownClose(l)
    PROVE  Flow'
<1> DEFINE T == Num(tasks, ReadyFor(l))
<1> DEFINE S == Num(toServer, SentBy(l))
<1>q. Quiet(l)
    BY TasksQuiet
<1>c. chan \in [Ids -> Channels] /\ chan[l] \in Channels
    BY DEF TypeOK
<1>n. /\ Held(l) \in Nat /\ T \in Nat /\ S \in Nat
      /\ Held(l)' \in Nat /\ T' \in Nat /\ S' \in Nat
      /\ Num(toProxy, OkayTo(l)) \in Nat /\ Owing(l) \in Nat
    BY TokenTypes, TokenTypesNext
<1>t. T' <= T
    BY <1>q, TasksCounts DEF Quiet
<1>u. Num(toProxy, OkayTo(l))' = Num(toProxy, OkayTo(l)) /\ Owing(l)' = Owing(l)
    BY <1>q DEF Quiet, Owing
<1>f. Tokens(l) <= 1 /\ (Early(chan[l]) => Tokens(l) = 0)
    BY DEF Flow
<1>i. ASSUME Held(l)' <= Held(l), S' <= S, Early(chan'[l]) => Early(chan[l])
      PROVE  Flow'
  <2>1. Tokens(l)' <= Tokens(l)
      BY <1>i, <1>n, <1>t, <1>u DEF Tokens
  <2> QED
      BY <2>1, <1>i, <1>q, FlowQuiet
<1>s. ASSUME NEW cmd \in {"OKAY", "CLSE"}, NEW a \in {0, l}, NEW d \in Nat,
             Send(Command(cmd, a, chan[l].rid, d))
      PROVE  S' <= S
  <2>1. Command(cmd, a, chan[l].rid, d) \in Commands(Ids)
      BY Basics, MakeCommand
  <2> QED
      BY <2>1, <1>s, <1>n, SendCounts DEF Command, Bit
<1>z. ASSUME toServer' = toServer
      PROVE  S' <= S
    BY <1>z, <1>n
<1>r. ASSUME NEW c \in Channels, WriteRaises(l, c), HeldBy(c) = Held(l), c.open = chan[l].open
      PROVE  /\ Held(l)' <= Held(l) /\ S' <= S
             /\ Early(chan'[l]) => Early(chan[l])
  <2>1. chan'[l] = EnterClose(c, l \in streams, "write")
      BY <1>r, <1>c DEF WriteRaises
  <2>2. S' <= S
      BY <1>r, <1>z DEF WriteRaises
  <2> QED
      BY <2>1, <2>2, <1>r, EnterCloseHeld DEF Held, Early
<1>1. CASE StartOpen(l)
  <2>1. tasks[1] = Head(tasks) /\ 1 \in 1 .. Len(tasks)
      BY <1>1, Basics, TailType DEF StartOpen, Start
  <2>2. chan[l].open = "none"
      BY <1>1, <2>1 DEF StartOpen, Start, Shape, FreshOpens
  <2>3. Held(l)' <= Held(l)
      BY <1>1, <2>2, <1>c, <1>n DEF StartOpen, Held, HeldBy, Bit, Channels
  <2> QED
      BY <1>1, <2>2, <2>3, <1>i, <1>z DEF StartOpen, Early
<1>2. CASE StartReady(l)
  <2>1. Held(l)' = Held(l) + 1
      BY <1>2, <1>c, <1>n DEF StartReady, Held, HeldBy, Bit, Channels
  <2>2. T = T' + 1
    <3>1. tasks # <<>> /\ tasks' = Tail(tasks) /\ Head(tasks) \in ReadyFor(l)
        BY <1>2, Basics, TailType DEF StartReady, Start, ReadyFor
    <3> QED
        BY <3>1, Basics, NumTail
  <2>3. Early(chan'[l]) => Early(chan[l])
      BY <1>2, <1>c DEF StartReady, Early, Channels
  <2>4. Tokens(l)' <= Tokens(l)
    <3>1. toServer' = toServer
        BY <1>2 DEF StartReady
    <3> QED
        BY <3>1, <2>1, <2>2, <1>n, <1>u DEF Tokens
  <2> QED
      BY <2>3, <2>4, <1>q, FlowQuiet
<1>3. CASE StartClose(l)
    BY <1>3, <1>c, <1>i, <1>z, EnterCloseHeld DEF StartClose, Held, Early
<1>5. CASE StartWrite(l)
  <2>1. CASE WriteAcks(l) /\ UNCHANGED chan
      BY <2>1, <1>i, <1>s, <1>n DEF WriteAcks, Held
  <2>2. CASE chan' = [chan EXCEPT ![l].drain = TRUE] /\ UNCHANGED toServer
    <3>1. Held(l)' = Held(l) /\ (Early(chan'[l]) => Early(chan[l]))
        BY <2>2, <1>c DEF Held, HeldBy, Early, Channels
    <3> QED
        BY <2>2, <3>1, <1>i, <1>n, <1>z
  <2>3. CASE WriteRaises(l, chan[l])
      BY <2>3, <1>r, <1>c, <1>i DEF Held
  <2> QED
      BY <1>5, <2>1, <2>2, <2>3 DEF StartWrite
<1>6. CASE WriteDrained(l)
  <2> DEFINE c == [chan[l] EXCEPT !.drain = FALSE]
  <2>0. c \in Channels /\ HeldBy(c) = Held(l) /\ c.open = chan[l].open
      BY <1>c, DrainType DEF Channels, HeldBy, Held
  <2>1. CASE WriteAcks(l) /\ chan' = [chan EXCEPT ![l].drain = FALSE]
    <3>1. chan'[l] = c
        BY <2>1, <1>c
    <3> QED
        BY <2>0, <2>1, <3>1, <1>i, <1>s, <1>n DEF WriteAcks, Held, Early
  <2>2. CASE WriteRaises(l, c)
      BY <2>0, <2>2, <1>r, <1>i
  <2> QED
      BY <1>6, <2>1, <2>2 DEF WriteDrained
<1>7. CASE OpenSucceeds(l)
  <2>1. Tokens(l) = 0
      BY <1>7, <1>f DEF OpenSucceeds, Early
  <2>2. S' <= S
      BY <1>7, <1>s DEF OpenSucceeds
  <2>3. Held(l)' = Held(l) + 1 /\ ~Early(chan'[l])
    <3>1. chan'[l] = [[chan[l] EXCEPT !.open = "okSent"] EXCEPT !.sink = "acquire",
                                                                 !.writer = "open"]
        BY <1>7, <1>c DEF OpenSucceeds, Register
    <3>2. chan[l].open = "connecting" /\ chan[l].sink = "none"
        BY <1>7 DEF OpenSucceeds, Shape, ShapeOf
    <3> QED
        BY <3>1, <3>2, <1>c DEF Held, HeldBy, Bit, Early, Channels
  <2>4. Tokens(l)' <= 1
      BY <2>1, <2>2, <2>3, <1>n, <1>t, <1>u DEF Tokens
  <2> QED
      BY <2>3, <2>4, <1>q, FlowQuiet
<1>8. CASE OpenReady(l)
  <2>1. Held(l)' = Held(l) /\ ~Early(chan'[l])
      BY <1>8, <1>c DEF OpenReady, FirstPermit, Held, HeldBy, Bit, Early, Channels
  <2> QED
      BY <1>8, <2>1, <1>i, <1>n, <1>z DEF OpenReady
<1>9. CASE OpenUnannounced(l)
  <2>1. Held(l)' <= Held(l) /\ ~Early(chan'[l])
      BY <1>9, <1>c DEF OpenUnannounced, Held, HeldBy, Bit, Early, Channels
  <2> QED
      BY <1>9, <2>1, <1>i, <1>z DEF OpenUnannounced
<1>10. CASE OpenFails(l)
  <2>1. Held(l)' = Held(l) /\ ~Early(chan'[l])
      BY <1>10, <1>c DEF OpenFails, Held, HeldBy, Bit, Early, Channels
  <2> QED
      BY <1>10, <2>1, <1>i, <1>n, <1>s DEF OpenFails, ReportsFailure
<1>11. CASE AnswerBegins(l)
  <2>1. Held(l)' = Held(l) /\ Early(chan[l])
      BY <1>11, <1>c DEF AnswerBegins, Held, HeldBy, Bit, Early, Channels
  <2> QED
      BY <1>11, <2>1, <1>i, <1>n, <1>s DEF AnswerBegins
<1>12. CASE AnswerData(l)
  <2>1. Tokens(l) = 0
      BY <1>12, <1>f DEF AnswerData, Early
  <2>2. Held(l)' = Held(l) /\ ~Early(chan'[l])
      BY <1>12, <1>c DEF AnswerData, Held, HeldBy, Bit, Early, Channels
  <2>3. S' <= S + 1
    <3>1. Command("WRTE", l, chan[l].rid, 1) \in Commands(Ids)
        BY Basics, MakeCommand
    <3> QED
        BY <3>1, <1>12, <1>n, SendCounts DEF AnswerData, Bit
  <2>4. Tokens(l)' <= 1
      BY <2>1, <2>2, <2>3, <1>n, <1>t, <1>u DEF Tokens
  <2> QED
      BY <2>2, <2>4, <1>q, FlowQuiet
<1>13. CASE AnswerEnds(l)
  <2>1. Held(l)' = Held(l) /\ ~Early(chan'[l])
      BY <1>13, <1>c DEF AnswerEnds, Held, HeldBy, Bit, Early, Channels
  <2> QED
      BY <1>13, <2>1, <1>i, <1>n, <1>s DEF AnswerEnds, SendClse
<1>14. CASE AnswerRaises(l)
  <2>1. Held(l)' = Held(l) /\ ~Early(chan'[l])
      BY <1>14, <1>c DEF AnswerRaises, Held, HeldBy, Bit, Early, Channels
  <2> QED
      BY <1>14, <2>1, <1>i, <1>n, <1>s DEF AnswerRaises, ReportsFailure
<1>15. CASE SinkAcquire(l)
  <2>1. Held(l)' = Held(l) /\ (Early(chan'[l]) => Early(chan[l]))
      BY <1>15, <1>c DEF SinkAcquire, Permitted, Held, HeldBy, Bit, Early, Channels
  <2> QED
      BY <1>15, <2>1, <1>i, <1>n, <1>z DEF SinkAcquire
<1>16. CASE SinkReads(l)
  <2>1. Held(l) = Held(l)' + 1 /\ (Early(chan'[l]) => Early(chan[l]))
      BY <1>16, <1>c DEF SinkReads, AfterChunk, Held, HeldBy, Bit, Early, Channels
  <2>2. PICK d \in Nat : Send(Command("WRTE", l, chan[l].rid, d))
      BY <1>16 DEF SinkReads, TypeOK
  <2>3. S' <= S + 1
    <3>1. Command("WRTE", l, chan[l].rid, d) \in Commands(Ids)
        BY Basics, MakeCommand
    <3> QED
        BY <3>1, <2>2, <1>n, SendCounts DEF Bit
  <2>4. Tokens(l)' <= Tokens(l)
      BY <2>1, <2>3, <1>n, <1>t, <1>u DEF Tokens
  <2> QED
      BY <2>1, <2>4, <1>q, FlowQuiet
<1>17. ASSUME SinkCloses(l)
       PROVE  Flow'
  <2>1. Held(l)' <= Held(l) /\ (Early(chan'[l]) => Early(chan[l]))
      BY <1>17, <1>c DEF SinkCloses, Held, HeldBy, Bit, Early, Channels
  <2>2. S' <= S
      BY <1>17, <1>s, <1>z DEF SinkCloses, SendClse
  <2> QED
      BY <2>1, <2>2, <1>i
<1>18. CASE SinkEnds(l) \/ SinkCancelled(l)
    BY <1>17, <1>18 DEF SinkEnds, SinkSendRaises, SinkCancelled
<1>20. CASE CloserResumes(l)
  <2>1. Held(l)' = Held(l) /\ (Early(chan'[l]) => Early(chan[l]))
      BY <1>20, <1>c DEF CloserResumes, Held, HeldBy, Bit, Early, Channels
  <2>2. S' <= S
      BY <1>20, <1>s, <1>z DEF CloserResumes, SendClse
  <2> QED
      BY <2>1, <2>2, <1>i, <1>n
<1>21. CASE TeardownClose(l)
  <2> DEFINE c == EnterClose(chan[l], l \in streams, "teardown")
  <2>1. c \in Channels /\ HeldBy(c) <= Held(l) /\ c.open = chan[l].open
      BY <1>c, EnterCloseType, EnterCloseHeld DEF Held
  <2>2. chan' = [chan EXCEPT ![l] = [c EXCEPT !.td = TeardownWaits(l)]]
        /\ toServer' = toServer
      BY <1>21 DEF TeardownClose
  <2> HIDE DEF c
  <2>3. Held(l)' = HeldBy(c) /\ (Early(chan'[l]) => Early(c))
      BY <2>1, <2>2, <1>c DEF Held, HeldBy, Early, Channels
  <2> QED
      BY <2>1, <2>2, <2>3, <1>i, <1>z DEF Early
<1> QED
    BY <1>1, <1>2, <1>3, <1>5, <1>6, <1>7, <1>8, <1>9, <1>10, <1>11, <1>12, <1>13, <1>14,
       <1>15, <1>16, <1>18, <1>20, <1>21
    DEF StartSome, OpenSome, AnswerGoesOn, SinkSome

(* The other steps, of which none gives a stream a token.                  *)
LEMMA FlowKept ==
    ASSUME TypeOK, TypeOK', Flow,
           \A k \in Ids : Tokens(k)' <= Tokens(k) /\ (Early(chan'[k]) => Early(chan[k]))
    PROVE  Flow'
<1> SUFFICES ASSUME NEW k \in Ids
             PROVE  (Tokens(k) <= 1 /\ (Early(chan[k]) => Tokens(k) = 0))'
    BY DEF Flow
<1>1. /\ Tokens(k) \in Nat /\ Tokens(k)' \in Nat
      /\ Tokens(k) <= 1 /\ (Early(chan[k]) => Tokens(k) = 0)
    BY TokenTypes, TokenTypesNext DEF Flow
<1> QED
    BY <1>1

LEMMA RecvCounts ==
    ASSUME TypeOK, NEW l \in Ids, toProxy # <<>>, toProxy' = Tail(toProxy)
    PROVE  Num(toProxy, OkayTo(l)) = Num(toProxy, OkayTo(l))'
               + Bit(Head(toProxy).cmd = "OKAY" /\ Head(toProxy).arg1 = l)
<1>1. Head(toProxy) \in Commands(Nat)
    BY Basics, TailType
<1>2. Head(toProxy) \in OkayTo(l) <=> Head(toProxy).cmd = "OKAY" /\ Head(toProxy).arg1 = l
    BY <1>1 DEF OkayTo
<1> QED
    BY <1>2, Basics, NumTail DEF Bit

LEMMA SpawnCounts ==
    ASSUME TypeOK, NEW l \in Ids, NEW op \in {"open", "close", "ready", "write"},
           NEW k \in Ids, NEW d \in Nat, Spawn(op, k, d)
    PROVE  Num(tasks, ReadyFor(l))' = Num(tasks, ReadyFor(l)) + Bit(op = "ready" /\ k = l)
<1> DEFINE t == [op |-> op, id |-> k, data |-> d]
<1>1. t \in Tasks /\ (t \in ReadyFor(l) <=> op = "ready" /\ k = l)
    BY DEF Tasks, ReadyFor
<1> QED
    BY <1>1, Basics, NumAppend DEF Spawn, Bit

LEMMA ReplyCounts ==
    ASSUME TypeOK, NEW l \in Ids, NEW m \in Commands(Nat), Reply(m)
    PROVE  Num(toProxy, OkayTo(l))' = Num(toProxy, OkayTo(l))
               + Bit(m.cmd = "OKAY" /\ m.arg1 = l)
<1>1. m \in OkayTo(l) <=> m.cmd = "OKAY" /\ m.arg1 = l
    BY DEF OkayTo
<1> QED
    BY <1>1, Basics, NumAppend DEF Reply, Bit

LEMMA TakesCounts ==
    ASSUME TypeOK, NEW l \in Ids, toServer # <<>>, toServer' = Tail(toServer)
    PROVE  Num(toServer, SentBy(l)) = Num(toServer, SentBy(l))'
               + Bit(Head(toServer).cmd \in {"OPEN", "WRTE"} /\ Head(toServer).arg0 = l)
<1>1. Head(toServer) \in Commands(Ids)
    BY Basics, TailType
<1>2. Head(toServer) \in SentBy(l) <=>
          Head(toServer).cmd \in {"OPEN", "WRTE"} /\ Head(toServer).arg0 = l
    BY <1>1 DEF SentBy
<1> QED
    BY <1>2, Basics, NumTail DEF Bit

LEMMA FlowRecv ==
    ASSUME TypeOK, TypeOK', Shape, Wiring, Flow, UNCHANGED srv, RecvSome
    PROVE  Flow'
<1> SUFFICES ASSUME NEW k \in Ids
             PROVE  Tokens(k)' <= Tokens(k) /\ (Early(chan'[k]) => Early(chan[k]))
    BY FlowKept
<1> DEFINE T == Num(tasks, ReadyFor(k))
<1> DEFINE P == Num(toProxy, OkayTo(k))
<1> DEFINE S == Num(toServer, SentBy(k))
<1> DEFINE l == Head(toProxy).arg1
<1>c. chan \in [Ids -> Channels] /\ chan[k] \in Channels
    BY DEF TypeOK
<1>n. /\ Held(k) \in Nat /\ T \in Nat /\ P \in Nat /\ S \in Nat /\ Owing(k) \in Nat
      /\ Held(k)' \in Nat /\ T' \in Nat /\ P' \in Nat /\ S' \in Nat
    BY TokenTypes, TokenTypesNext
<1>u. S' = S /\ Owing(k)' = Owing(k) /\ streams \subseteq Ids
    BY DEF RecvSome, RecvHandshake, RecvOpen, RecvClse, RecvOkay, RecvWrte, untouched,
           Owing, TypeOK
<1>p. toProxy # <<>> /\ toProxy' = Tail(toProxy)
    BY DEF RecvSome, RecvHandshake, RecvOpen, RecvClse, RecvOkay, RecvWrte, Recv
<1>q. P = P' + Bit(Head(toProxy).cmd = "OKAY" /\ l = k)
    BY <1>p, RecvCounts
<1>d. Head(toProxy).data \in Nat
    BY <1>p, Basics, TailType, CommandTyped
<1>1. Held(k)' = Held(k) /\ (Early(chan'[k]) => Early(chan[k]))
  <2>1. CASE UNCHANGED chan
      BY <2>1 DEF Held
  <2>2. ASSUME NEW j, NEW r, chan' = [chan EXCEPT ![j].rid = r]
        PROVE  Held(k)' = Held(k) /\ (Early(chan'[k]) => Early(chan[k]))
      BY <2>2, <1>c DEF Held, HeldBy, Early, Channels
  <2> QED
      BY <2>1, <2>2
      DEF RecvSome, RecvHandshake, RecvOpen, RecvClse, RecvOkay, RecvWrte, RidTaken, Target
<1>2. T' + P' <= T + P
  <2>1. CASE tasks' = tasks
      BY <2>1, <1>n, <1>q DEF Bit
  <2>2. ASSUME NEW op \in {"open", "close", "write"}, NEW j \in Ids, NEW d \in Nat,
               Spawn(op, j, d)
        PROVE  T' + P' <= T + P
    <3>1. T' = T
        BY <2>2, <1>n, SpawnCounts DEF Bit
    <3> QED
        BY <3>1, <1>n, <1>q DEF Bit
  <2>3. CASE RecvOkay /\ l \in streams
    <3>1. l \in Ids /\ Spawn("ready", l, 0) /\ Head(toProxy).cmd = "OKAY"
        BY <2>3, <1>u DEF RecvOkay, Recv, Target
    <3>2. T' = T + Bit(l = k)
        BY <3>1, SpawnCounts DEF Bit
    <3> QED
        BY <3>1, <3>2, <1>n, <1>q DEF Bit
  <2>4. CASE RecvHandshake
      BY <2>1, <2>4 DEF RecvHandshake
  <2>5. CASE RecvOpen
    <3>1. next_local_id \in Ids
        BY <2>5, Basics, ProxyAssumption DEF RecvOpen, Ids
    <3> QED
        BY <2>2, <2>5, <3>1 DEF RecvOpen
  <2>6. CASE RecvClse
      BY <2>1, <2>2, <2>6, <1>u DEF RecvClse, Target
  <2>7. CASE RecvWrte
      BY <2>1, <2>2, <2>7, <1>u, <1>d DEF RecvWrte, Target
  <2>8. CASE RecvOkay
      BY <2>1, <2>3, <2>8 DEF RecvOkay, Target
  <2> QED
      BY <2>4, <2>5, <2>6, <2>7, <2>8 DEF RecvSome
<1>3. Tokens(k)' <= Tokens(k)
    BY <1>1, <1>2, <1>n, <1>u DEF Tokens
<1> QED
    BY <1>1, <1>3

LEMMA FlowReverse ==
    ASSUME TypeOK, TypeOK', Shape, Wiring, Flow, UNCHANGED srv, ReverseAccept
    PROVE  Flow'
<1> SUFFICES ASSUME NEW k \in Ids
             PROVE  (Tokens(k) <= 1 /\ (Early(chan[k]) => Tokens(k) = 0))'
    BY DEF Flow
<1> DEFINE n == next_local_id
<1> DEFINE T == Num(tasks, ReadyFor(k))
<1> DEFINE P == Num(toProxy, OkayTo(k))
<1> DEFINE S == Num(toServer, SentBy(k))
<1>c. chan \in [Ids -> Channels] /\ chan[k] \in Channels
    BY DEF TypeOK
<1>n. /\ Held(k) \in Nat /\ T \in Nat /\ P \in Nat /\ S \in Nat /\ Owing(k) \in Nat
      /\ Held(k)' \in Nat /\ S' \in Nat
    BY TokenTypes, TokenTypesNext
<1>f. Tokens(k) <= 1 /\ (Early(chan[k]) => Tokens(k) = 0)
    BY DEF Flow
<1>u. T' = T /\ P' = P /\ Owing(k)' = Owing(k)
    BY DEF ReverseAccept, loop, Owing
<1>1. n \in Ids /\ Command("OPEN", n, 0, 0) \in Commands(Ids)
  <2>1. n \in Ids
      BY Basics, ProxyAssumption DEF ReverseAccept, Ids
  <2> QED
      BY <2>1, MakeCommand
<1>2. S' <= S + Bit(n = k)
    BY <1>1, SendCounts DEF ReverseAccept, Command, Bit
<1>3. CASE k = n
  <2>1. chan[n].open = "none"
      BY <1>1, Basics DEF Shape, ShapeOf
  <2>2. Held(k)' = 0 /\ ~Early(chan'[k])
      BY <1>3, <1>c DEF ReverseAccept, Register, Unused, Held, HeldBy, Bit, Early
  <2>3. Tokens(k) = 0
      BY <1>3, <1>f, <2>1 DEF Early
  <2>4. Tokens(k)' <= 1
      BY <1>2, <1>n, <1>u, <2>2, <2>3 DEF Tokens, Bit
  <2> QED
      BY <2>2, <2>4
<1>4. CASE k # n
  <2>1. chan'[k] = chan[k]
      BY <1>4, <1>c DEF ReverseAccept, Register
  <2>2. Tokens(k)' <= Tokens(k)
      BY <1>2, <1>4, <1>n, <1>u, <2>1 DEF Tokens, Held, Bit
  <2>3. Tokens(k) \in Nat /\ Tokens(k)' \in Nat
      BY TokenTypes, TokenTypesNext
  <2> QED
      BY <1>f, <2>1, <2>2, <2>3
<1> QED
    BY <1>3, <1>4

LEMMA FlowStill ==
    ASSUME TypeOK, TypeOK', Flow, UNCHANGED <<toProxy, srv, tasks>>,
           toServer' = toServer \/ toServer' = <<>>,
           \A k \in Ids : Held(k)' = Held(k) /\ chan'[k].open = chan[k].open
    PROVE  Flow'
<1> SUFFICES ASSUME NEW k \in Ids
             PROVE  Tokens(k)' <= Tokens(k) /\ (Early(chan'[k]) => Early(chan[k]))
    BY FlowKept
<1> DEFINE S == Num(toServer, SentBy(k))
<1>1. S' <= S /\ S \in Nat /\ S' \in Nat
  <2>0. S \in Nat
      BY TokenTypes
  <2>1. CASE toServer' = toServer
      BY <2>0, <2>1
  <2>2. CASE toServer' = <<>>
    <3>1. Len(toServer') = 0
        BY <2>2
    <3>2. Num(toServer', SentBy(k)) = 0
        BY <3>1, NumNone
    <3> QED
        BY <2>0, <3>2
  <2> QED
      BY <2>1, <2>2
<1>2. Owing(k)' = Owing(k)
    BY DEF Owing
<1>3. Held(k) \in Nat /\ Num(tasks, ReadyFor(k)) \in Nat /\ Num(toProxy, OkayTo(k)) \in Nat
      /\ Owing(k) \in Nat
    BY TokenTypes
<1> QED
    BY <1>1, <1>2, <1>3 DEF Tokens, Early

(* The ADB server and its clients.                                         *)
LEMMA FlowServer ==
    ASSUME TypeOK, TypeOK', Wiring, Flow,
           \/ ServerHandles
           \/ \E r \in RemoteIds :
                 ClientOpens(r) \/ ClientWrites(r) \/ ClientReads(r) \/ ClientCloses(r)
    PROVE  Flow'
<1> SUFFICES ASSUME NEW k \in Ids
             PROVE  Tokens(k)' <= Tokens(k) /\ (Early(chan'[k]) => Early(chan[k]))
    BY FlowKept
<1> DEFINE P == Num(toProxy, OkayTo(k))
<1> DEFINE S == Num(toServer, SentBy(k))
<1> DEFINE O(s) == \E r \in RemoteIds : s[r].peer = k /\ s[r].owes
<1>n. /\ Held(k) \in Nat /\ Num(tasks, ReadyFor(k)) \in Nat /\ P \in Nat /\ S \in Nat
      /\ Owing(k) \in Nat /\ Owing(k)' \in Nat /\ P' \in Nat /\ S' \in Nat
    BY TokenTypes, TokenTypesNext
<1>u. UNCHANGED <<chan, tasks>>
    BY DEF ServerHandles, ServerCnxn, ServerOkay, ServerWrte, ServerClse, ServerOpen,
           ServerTakes, ClientOpens, ClientWrites, ClientReads, ClientCloses, proxySide
<1>o. (O(srv') => O(srv)) => Owing(k)' <= Owing(k)
    BY DEF Owing, Bit
<1>i. ASSUME P' + S' + Owing(k)' <= P + S + Owing(k)
      PROVE  Tokens(k)' <= Tokens(k) /\ (Early(chan'[k]) => Early(chan[k]))
  <2>1. Held(k)' = Held(k) /\ Num(tasks, ReadyFor(k))' = Num(tasks, ReadyFor(k))
      BY <1>u DEF Held
  <2> QED
      BY <2>1, <1>i, <1>n, <1>u DEF Tokens
<1>p. ASSUME toProxy' = toProxy \/ \E m \in Commands(Nat) : Reply(m) /\ m.cmd # "OKAY"
      PROVE  P' = P
  <2>1. CASE toProxy' = toProxy
      BY <2>1
  <2>2. ASSUME NEW m \in Commands(Nat), Reply(m), m.cmd # "OKAY"
        PROVE  P' = P
      BY <2>2, <1>n, ReplyCounts DEF Bit
  <2> QED
      BY <2>1, <2>2, <1>p
<1>s. ASSUME toServer # <<>>, toServer' = Tail(toServer)
      PROVE  S' <= S
    BY <1>s, <1>n, TakesCounts DEF Bit
<1>z. ASSUME NEW r \in {0} \cup RemoteIds, NEW l \in {0} \cup Ids, NEW d \in Nat,
             NEW cmd \in {"CLSE", "WRTE", "OPEN"}, Reply(Command(cmd, r, l, d))
      PROVE  P' = P
  <2>1. r \in Nat /\ l \in Nat
      BY Basics
  <2>2. Command(cmd, r, l, d) \in Commands(Nat) /\ Command(cmd, r, l, d).cmd # "OKAY"
      BY <2>1, MakeCommand DEF Command
  <2> QED
      BY <2>2, <1>z, <1>p
<1>h. toServer # <<>> =>
          /\ Head(toServer) \in Commands(Ids) /\ Sent(Head(toServer))
          /\ Head(toServer).arg0 \in {0} \cup Ids
    BY HeadSent, CommandTyped, Basics DEF Wiring
<1>1. CASE ServerCnxn
  <2>1. Command("CNXN", 0, ServerMax, 0) \in Commands(Nat)
        /\ Command("CNXN", 0, ServerMax, 0).cmd = "CNXN"
      BY SessionAssumption, MakeCommand DEF Command
  <2>2. P' = P
      BY <1>1, <1>p, <2>1 DEF ServerCnxn
  <2>3. S' <= S /\ srv' = srv
      BY <1>1, <1>s DEF ServerCnxn, ServerTakes
  <2>4. Owing(k)' = Owing(k)
      BY <2>3 DEF Owing
  <2> QED
      BY <2>2, <2>3, <2>4, <1>i, <1>n
<1>2. CASE ServerOkay
  <2>m. PICK m : m = Head(toServer)
      OBVIOUS
  <2>1. /\ toServer # <<>> /\ Sent(m) /\ m.cmd = "OKAY" /\ m.arg0 \in Ids /\ S' <= S
      BY <2>m, <1>2, <1>h, <1>s DEF ServerOkay, ServerTakes, Sent
  <2>2. m.arg1 \in RemoteIds /\ m.arg1 = chan[m.arg0].rid /\ m.arg1 # 0
      BY <2>1, Basics DEF Sent
  <2>3. P' = P
      BY <2>m, <1>2, <1>p, <1>z, <2>1, <2>2 DEF ServerOkay
  <2>4. srv[m.arg1].peer \in {0, m.arg0}
      BY <2>1, <2>2 DEF Wiring, Pairs
  <2>5. O(srv') => O(srv)
    <3>1. CASE srv' = srv
        BY <3>1
    <3>2. CASE srv' = [srv EXCEPT ![m.arg1].st = "open", ![m.arg1].peer = m.arg0,
                                  ![m.arg1].credit = TRUE]
      <4>1. /\ srv'[m.arg1].peer = m.arg0 /\ srv'[m.arg1].owes = srv[m.arg1].owes
            /\ \A s \in RemoteIds : s # m.arg1 => srv'[s] = srv[s]
          BY <3>2, <2>2, Basics DEF TypeOK, Sockets
      <4>2. srv[m.arg1].owes => srv[m.arg1].peer = m.arg0
          BY <2>2, <2>4 DEF Wiring, Ends
      <4> QED
          BY <4>1, <4>2, <2>2
    <3> QED
        BY <2>m, <3>1, <3>2, <1>2 DEF ServerOkay
  <2> QED
      BY <2>1, <2>3, <2>5, <1>i, <1>n, <1>o
<1>3. CASE ServerWrte
  <2>m. PICK m : m = Head(toServer)
      OBVIOUS
  <2>1. /\ toServer # <<>> /\ toServer' = Tail(toServer) /\ UNCHANGED toProxy
        /\ Sent(m) /\ m.cmd = "WRTE" /\ m.arg0 \in Ids
        /\ srv' = IF srv[m.arg1].st = "open" THEN [srv EXCEPT ![m.arg1].owes = TRUE] ELSE srv
      BY <2>m, <1>3, <1>h DEF ServerWrte, ServerTakes, Sent
  <2>2. m.arg1 \in RemoteIds /\ m.arg1 = chan[m.arg0].rid /\ m.arg1 # 0
      BY <2>1, Basics DEF Sent
  <2>3. S = S' + Bit(m.arg0 = k)
      BY <2>m, <2>1, TakesCounts DEF Bit
  <2>4. srv[m.arg1].st = "open" => srv[m.arg1].peer = m.arg0
      BY <2>1, <2>2 DEF Wiring, Pairs, Ends
  <2>5. O(srv') => O(srv) \/ m.arg0 = k
    <3>1. CASE srv' = srv
        BY <3>1
    <3>2. CASE srv[m.arg1].st = "open" /\ srv' = [srv EXCEPT ![m.arg1].owes = TRUE]
      <4>t. srv \in [RemoteIds -> Sockets]
          BY DEF TypeOK
      <4>1. /\ \A s \in RemoteIds : srv'[s].peer = srv[s].peer
            /\ \A s \in RemoteIds : s # m.arg1 => srv'[s] = srv[s]
          BY <4>t, <3>2, <2>2, SetsOwes
      <4> QED
          BY <4>1, <3>2, <2>4
    <3> QED
        BY <2>1, <3>1, <3>2
  <2>6. Owing(k)' <= Owing(k) + Bit(m.arg0 = k)
      BY <2>5 DEF Owing, Bit
  <2> QED
      BY <2>1, <2>3, <2>6, <1>i, <1>n DEF Bit
<1>4. CASE ServerClse
  <2>m. PICK m : m = Head(toServer)
      OBVIOUS
  <2>1. /\ toServer # <<>> /\ Sent(m) /\ m.cmd = "CLSE" /\ m.arg0 \in {0} \cup Ids
        /\ S' <= S
      BY <2>m, <1>4, <1>h, <1>s DEF ServerClse, ServerTakes
  <2>2. m.arg1 \in RemoteIds
      BY <2>1 DEF Sent
  <2>3. P' = P
      BY <2>m, <1>4, <1>p, <1>z, <2>1, <2>2 DEF ServerClse
  <2>4. \A s \in RemoteIds : srv'[s].peer = srv[s].peer /\ srv'[s].owes = srv[s].owes
      BY <2>m, <2>2, <1>4, Basics DEF ServerClse, TypeOK, Sockets
  <2>5. O(srv') => O(srv)
      BY <2>4
  <2> QED
      BY <2>1, <2>3, <2>5, <1>i, <1>n, <1>o
<1>5. CASE ServerOpen
  <2>m. PICK m : m = Head(toServer)
      OBVIOUS
  <2>1. /\ toServer # <<>> /\ toServer' = Tail(toServer)
        /\ Sent(m) /\ m.cmd = "OPEN" /\ m.arg0 \in Ids
      BY <2>m, <1>5, <1>h DEF ServerOpen, ServerTakes, Sent
  <2>2. S = S' + Bit(m.arg0 = k)
      BY <2>m, <2>1, TakesCounts DEF Bit
  <2>3. CASE Reply(Command("CLSE", 0, m.arg0, 0)) /\ UNCHANGED srv
    <3>1. P' = P /\ Owing(k)' = Owing(k)
        BY <2>1, <2>3, <1>z DEF Owing
    <3> QED
        BY <3>1, <2>2, <1>i, <1>n DEF Bit
  <2>4. ASSUME NEW r \in RemoteIds, Reply(Command("OKAY", r, m.arg0, 0)),
               srv' = [srv EXCEPT ![r] = [Idle EXCEPT !.st = "open", !.peer = m.arg0,
                                                      !.credit = TRUE]]
        PROVE  Tokens(k)' <= Tokens(k) /\ (Early(chan'[k]) => Early(chan[k]))
    <3>1. Command("OKAY", r, m.arg0, 0) \in Commands(Nat)
        BY <2>1, Basics, MakeCommand
    <3>2. P' = P + Bit(m.arg0 = k)
        BY <2>4, <3>1, ReplyCounts DEF Command, Bit
    <3>3. /\ ~srv'[r].owes
          /\ \A s \in RemoteIds : s # r => srv'[s] = srv[s]
        BY <2>4 DEF TypeOK, Idle
    <3>4. O(srv') => O(srv)
        BY <3>3
    <3> QED
        BY <2>2, <3>2, <3>4, <1>i, <1>n, <1>o DEF Bit
  <2> QED
      BY <2>m, <2>3, <2>4, <1>5 DEF ServerOpen
<1>6. ASSUME NEW r \in RemoteIds, ClientOpens(r) \/ ClientWrites(r) \/ ClientCloses(r)
      PROVE  Tokens(k)' <= Tokens(k) /\ (Early(chan'[k]) => Early(chan[k]))
  <2>1. srv[r].peer \in {0} \cup Ids /\ srv[r].sent + 1 \in Nat
      BY Basics DEF Sockets
  <2>2. P' = P
      BY <1>6, <2>1, <1>p, <1>z DEF ClientOpens, ClientWrites, ClientCloses
  <2>3. S' = S
      BY <1>6 DEF ClientOpens, ClientWrites, ClientCloses
  <2>4. \A s \in RemoteIds : srv'[s].peer = srv[s].peer /\ srv'[s].owes = srv[s].owes
    <3>1. CASE ClientOpens(r)
        BY <3>1, Basics DEF ClientOpens, TypeOK, Sockets
    <3>2. CASE ClientWrites(r)
        BY SMTT(20), <3>2, Basics DEF ClientWrites, TypeOK, Sockets
    <3>3. CASE ClientCloses(r)
        BY SMTT(20), <3>3, Basics DEF ClientCloses, TypeOK, Sockets
    <3> QED
        BY <1>6, <3>1, <3>2, <3>3
  <2>5. O(srv') => O(srv)
      BY <2>4
  <2> QED
      BY <2>2, <2>3, <2>5, <1>i, <1>n, <1>o
<1>7. ASSUME NEW r \in RemoteIds, ClientReads(r)
      PROVE  Tokens(k)' <= Tokens(k) /\ (Early(chan'[k]) => Early(chan[k]))
  <2>1. srv[r].peer \in {0} \cup Ids /\ srv[r].owes /\ srv[r].peer # 0
      BY <1>7, Basics DEF ClientReads, Wiring, Ends
  <2>2. Command("OKAY", r, srv[r].peer, 0) \in Commands(Nat)
      BY Basics, MakeCommand
  <2>3. P' = P + Bit(srv[r].peer = k)
      BY <1>7, <2>2, ReplyCounts DEF ClientReads, Command, Bit
  <2>4. S' = S
      BY <1>7 DEF ClientReads
  <2>5. /\ srv' = [srv EXCEPT ![r].owes = FALSE]
        /\ \A s \in RemoteIds : s # r => srv'[s] = srv[s]
        /\ ~srv'[r].owes
      BY <1>7 DEF ClientReads, TypeOK
  <2>6. O(srv') => O(srv)
      BY <2>5
  <2>7. srv[r].peer = k => O(srv) /\ ~O(srv')
      BY <2>1, <2>5 DEF Wiring, Pairs
  <2>8. Owing(k)' + Bit(srv[r].peer = k) <= Owing(k)
      BY <2>6, <2>7 DEF Owing, Bit
  <2> QED
      BY <2>3, <2>4, <2>8, <1>i, <1>n DEF Bit
<1> QED
    BY <1>1, <1>2, <1>3, <1>4, <1>5, <1>6, <1>7 DEF ServerHandles

LEMMA FlowStep ==
    ASSUME TypeOK, TypeOK', Shape, Wiring, Flow, [Next]_vars
    PROVE  Flow'
<1>c. chan \in [Ids -> Channels]
    BY DEF TypeOK
<1>1. CASE UNCHANGED srv /\ RecvSome
    BY <1>1, FlowRecv
<1>2. CASE UNCHANGED srv /\ ReverseAccept
    BY <1>2, FlowReverse
<1>3. CASE UNCHANGED srv /\ (GoStops \/ GoEnds \/ GoInterrupted)
  <2>1. \A k \in Ids : Held(k)' = Held(k) /\ chan'[k].open = chan[k].open
    <3>1. CASE UNCHANGED chan
        BY <3>1 DEF Held
    <3>2. CASE chan' = [l \in Ids |-> IF l \in streams THEN [chan[l] EXCEPT !.td = "queued"]
                                                       ELSE chan[l]]
        BY <3>2, <1>c DEF Held, HeldBy, Channels
    <3> QED
        BY <1>3, <3>1, <3>2 DEF GoStops, GoEnds, GoInterrupted
  <2> QED
      BY <1>3, <2>1, FlowStill DEF GoStops, GoEnds, GoInterrupted
<1>4. ASSUME NEW l \in Ids, UNCHANGED srv,
             \/ StartSome(l) \/ WriteDrained(l) \/ OpenSome(l)
             \/ SinkSome(l) \/ CloserResumes(l) \/ TeardownClose(l)
      PROVE  Flow'
    BY <1>4, FlowTasks
<1>5. CASE ServerHandles \/ \E r \in RemoteIds :
               ClientOpens(r) \/ ClientWrites(r) \/ ClientReads(r) \/ ClientCloses(r)
    BY <1>5, FlowServer
<1>6. CASE \/ ServerLost \/ UNCHANGED vars
           \/ \E l \in Ids : DeviceProduces(l) \/ DeviceEnds(l)
  <2>1. UNCHANGED <<chan, toProxy, srv, tasks>> /\ (toServer' = toServer \/ toServer' = <<>>)
      BY <1>6 DEF ServerLost, proxySide, vars, proxyVars, loop, DeviceProduces, DeviceEnds,
                  DeviceKeeps
  <2>2. \A k \in Ids : Held(k)' = Held(k) /\ chan'[k].open = chan[k].open
      BY <2>1 DEF Held
  <2> QED
      BY <2>1, <2>2, FlowStill
<1> QED
    BY <1>1, <1>2, <1>3, <1>4, <1>5, <1>6
    DEF Next, ProxyNext, ServerNext, DeviceNext

(* At most one token per stream: of the permits of its semaphore, the      *)
(* ready() tasks, the OKAYs for it, its WRTEs and the OPEN of a stream of  *)
(* the device, there is never more than one (adb_proxy.py:75, 91-107,      *)
(* 201-204, 294, 346-352); none before its OPEN was answered or sent.      *)
THEOREM FlowInvariant == Spec => []Flow
<1>1. Init => Flow
    BY FlowInit
<1>2. TypeOK /\ TypeOK' /\ Shape /\ Wiring /\ Flow /\ [Next]_vars => Flow'
    BY FlowStep
<1> QED
    BY <1>1, <1>2, SafetyInvariant, WiringInvariant, PTL DEF Spec

(* One WRTE per OKAY: nothing makes a second permit of one OKAY or of the  *)
(* OPEN, and no WRTE leaves without one (adb_proxy.py:75, 91-107, 294,     *)
(* 346-352).                                                               *)
THEOREM OneWritePerOkay == Spec => []FlowControl
<1>1. TypeOK /\ Wiring /\ Flow => FlowControl
  <2> SUFFICES ASSUME TypeOK, Wiring, Flow, NEW l \in Ids
               PROVE  Permits(l) <= 1
      BY DEF FlowControl
  <2>1. Tokens(l) <= 1
      BY DEF Flow
  <2>2. Count(tasks, LAMBDA t : t.op = "ready" /\ t.id = l) = Num(tasks, ReadyFor(l))
    <3>1. {i \in DOMAIN tasks : tasks[i].op = "ready" /\ tasks[i].id = l}
              = Places(tasks, ReadyFor(l))
        BY Basics DEF Places, ReadyFor
    <3> QED
        BY <3>1 DEF Count, Num
  <2>3. Count(toProxy, LAMBDA m : m.cmd = "OKAY" /\ m.arg1 = l) = Num(toProxy, OkayTo(l))
    <3>1. {i \in DOMAIN toProxy : toProxy[i].cmd = "OKAY" /\ toProxy[i].arg1 = l}
              = Places(toProxy, OkayTo(l))
        BY Basics DEF Places, OkayTo
    <3> QED
        BY <3>1 DEF Count, Num
  <2>4. /\ Count(toServer, LAMBDA m : m.cmd = "WRTE" /\ m.arg0 = l) <= Num(toServer, SentBy(l))
        /\ Count(toServer, LAMBDA m : m.cmd = "WRTE" /\ m.arg0 = l) \in Nat
    <3> DEFINE W == {m \in SentBy(l) : m.cmd = "WRTE"}
    <3>1. {i \in DOMAIN toServer : toServer[i].cmd = "WRTE" /\ toServer[i].arg0 = l}
              = Places(toServer, W)
        BY Basics DEF Places, SentBy
    <3>2. Num(toServer, W) <= Num(toServer, SentBy(l)) /\ Num(toServer, W) \in Nat
        BY Basics, NumIncluded, PlacesFinite
    <3> QED
        BY <3>1, <3>2 DEF Count, Num
  <2>5. (IF chan[l].rid # 0 /\ srv[chan[l].rid].peer = l /\ srv[chan[l].rid].owes
         THEN 1 ELSE 0) <= Owing(l)
      BY DEF Wiring, Named, Owing, Bit
  <2>6. Permits(l) <= Tokens(l) /\ Permits(l) \in Nat
    <3>1. chan[l].ready \in Nat
        BY Basics DEF Channels
    <3> QED
        BY <2>2, <2>3, <2>4, <2>5, <3>1, TokenTypes DEF Permits, Tokens, Held, HeldBy, Bit
  <2> QED
      BY <2>1, <2>6, TokenTypes
<1> QED
    BY <1>1, SafetyInvariant, WiringInvariant, FlowInvariant, PTL

-----------------------------------------------------------------------------
(* One answer to each OPEN of the ADB server.                              *)

(* The socket of l knows that it is the peer of l.                         *)
Knows(l) == chan[l].rid # 0 /\ srv[chan[l].rid].peer = l

(* Only such a socket has written.                                         *)
Wrote ==
    /\ \A l \in Ids : chan[l].drain => Knows(l)
    /\ \A i \in 1 .. Len(tasks) : tasks[i].op = "write" => Knows(tasks[i].id)

OpenOf(r) == {m \in Commands(Nat) : m.cmd = "OPEN" /\ m.arg0 = r}
AnswerTo(r) == {m \in Commands(Ids) :
                  m.arg1 = r /\ (m.cmd = "OKAY" \/ (m.cmd = "CLSE" /\ m.arg0 = 0))}

HasOpen(l) == \E i \in 1 .. Len(tasks) : tasks[i].op = "open" /\ tasks[i].id = l
Pending(l) == chan[l].open = "connecting" \/ HasOpen(l)

(* Where an OPEN of r can be: on its way, in open_channel, answered.       *)
Whereabouts(r) ==
    Num(toProxy, OpenOf(r)) + Bit(\E l \in Ids : chan[l].rid = r /\ Pending(l))
    + Num(toServer, AnswerTo(r))

Once ==
    conn = "up" => \A r \in RemoteIds : srv[r].st = "opening" => Whereabouts(r) = 1

(* A remote id that is known and a peer that is known are so for ever.     *)
LEMMA PeersForEver ==
    ASSUME TypeOK, Shape, Wiring, [Next]_vars
    PROVE  /\ \A k \in Ids : chan[k].rid # 0 => chan'[k].rid = chan[k].rid
           /\ \A r \in RemoteIds : srv[r].peer # 0 => srv'[r].peer = srv[r].peer
<1> USE DEF Wiring
<1> DEFINE C == \A k \in Ids : chan[k].rid # 0 => chan'[k].rid = chan[k].rid
<1> DEFINE P == \A r \in RemoteIds : srv[r].peer # 0 => srv'[r].peer = srv[r].peer
<1>c. chan \in [Ids -> Channels] /\ srv \in [RemoteIds -> Sockets]
    BY DEF TypeOK
<1>1. ASSUME NEW j, NEW r, chan' = [chan EXCEPT ![j].rid = r],
             j \in Ids => chan[j].rid \in {0, r}
      PROVE  C
    BY <1>1, <1>c DEF Channels
<1>2. CASE UNCHANGED srv /\ RecvSome
  <2>1. CASE UNCHANGED chan
      BY <1>2, <2>1
  <2>2. CASE RecvOpen
      BY <1>1, <1>2, <2>2, Basics DEF RecvOpen, Named
  <2>3. CASE RecvOkay /\ ~UNCHANGED chan
    <3>1. /\ toProxy # <<>> /\ Head(toProxy).cmd = "OKAY"
          /\ chan' = [chan EXCEPT ![Head(toProxy).arg1].rid = Head(toProxy).arg0]
        BY <2>3 DEF RecvOkay, Recv, RidTaken, Target
    <3>2. toProxy[1] = Head(toProxy) /\ 1 \in 1 .. Len(toProxy)
        BY <3>1, Basics, TailType
    <3>3. Head(toProxy).arg1 \in Ids => chan[Head(toProxy).arg1].rid \in {0, Head(toProxy).arg0}
        BY <3>1, <3>2 DEF Incoming, Received, Pairs
    <3> QED
        BY <1>1, <1>2, <3>1, <3>3
  <2> QED
      BY <1>2, <2>1, <2>2, <2>3 DEF RecvSome, RecvHandshake, RecvClse, RecvWrte
<1>3. CASE UNCHANGED srv /\ ReverseAccept
  <2>1. chan[next_local_id].rid = 0 \/ next_local_id \notin Ids
      BY Basics DEF Named
  <2> QED
      BY <1>3, <2>1, <1>c DEF ReverseAccept, Register
<1>4. CASE UNCHANGED srv /\ (GoStops \/ GoEnds \/ GoInterrupted)
  <2>1. CASE UNCHANGED chan
      BY <1>4, <2>1
  <2>2. CASE chan' = [l \in Ids |-> IF l \in streams THEN [chan[l] EXCEPT !.td = "queued"]
                                                     ELSE chan[l]]
      BY <1>4, <2>2, <1>c DEF Channels
  <2> QED
      BY <1>4, <2>1, <2>2 DEF GoStops, GoEnds, GoInterrupted
<1>5. ASSUME NEW l \in Ids, UNCHANGED srv,
             \/ StartSome(l) \/ WriteDrained(l) \/ OpenSome(l)
             \/ SinkSome(l) \/ CloserResumes(l) \/ TeardownClose(l)
      PROVE  C /\ P
    BY <1>5, TasksQuiet DEF Quiet
<1>h. toServer # <<>> => Sent(Head(toServer)) /\ Head(toServer) \in Commands(Ids)
    BY HeadSent
<1>6. CASE ServerHandles
  <2>1. UNCHANGED chan /\ toServer # <<>>
      BY <1>6 DEF ServerHandles, ServerCnxn, ServerOkay, ServerWrte, ServerClse, ServerOpen,
                  ServerTakes, proxySide
  <2>2. CASE ServerOkay
    <3>1. Sent(Head(toServer)) /\ Head(toServer).cmd = "OKAY"
        BY <1>h, <2>1, <2>2 DEF ServerOkay, ServerTakes
    <3>2. /\ Head(toServer).arg1 \in RemoteIds /\ Head(toServer).arg0 \in Ids
          /\ Head(toServer).arg1 = chan[Head(toServer).arg0].rid
          /\ Head(toServer).arg1 # 0
        BY <3>1, <1>h, <2>1, CommandTyped, Basics DEF Sent
    <3>3. srv[Head(toServer).arg1].peer \in {0, Head(toServer).arg0}
        BY <3>2 DEF Pairs
    <3> QED
        BY <2>1, <2>2, <3>2, <3>3, <1>c DEF ServerOkay, Sockets
  <2>3. CASE ServerOpen
    <3>1. \A r \in RemoteIds : srv[r].st = "idle" => srv[r].peer = 0
        BY DEF Ends
    <3> QED
        BY <2>1, <2>3, <3>1, <1>c DEF ServerOpen, Sockets
  <2>4. CASE ServerCnxn
      BY <2>1, <2>4 DEF ServerCnxn
  <2>5. CASE ServerWrte
    <3>1. CASE srv' = srv
        BY <2>1, <3>1
    <3>2. CASE srv' = [srv EXCEPT ![Head(toServer).arg1].owes = TRUE]
        BY <2>1, <3>2, <1>c DEF Sockets
    <3> QED
        BY <2>5, <3>1, <3>2 DEF ServerWrte
  <2>6. CASE ServerClse
      BY <2>1, <2>6, <1>c DEF ServerClse, Sockets
  <2> QED
      BY <1>6, <2>2, <2>3, <2>4, <2>5, <2>6 DEF ServerHandles
<1>7. ASSUME NEW r \in RemoteIds,
             ClientOpens(r) \/ ClientWrites(r) \/ ClientReads(r) \/ ClientCloses(r)
      PROVE  C /\ P
  <2>1. UNCHANGED chan
      BY <1>7 DEF ClientOpens, ClientWrites, ClientReads, ClientCloses, proxySide
  <2>2. CASE ClientOpens(r)
      BY <2>1, <2>2, <1>c DEF ClientOpens, Sockets
  <2>3. CASE ClientWrites(r)
      BY <2>1, <2>3, <1>c DEF ClientWrites, Sockets
  <2>4. CASE ClientReads(r)
    <3>1. srv' = [srv EXCEPT ![r].owes = FALSE]
        BY <2>4 DEF ClientReads
    <3> QED
        BY <2>1, <3>1, <1>c DEF Sockets
  <2>5. CASE ClientCloses(r)
      BY <2>1, <2>5, <1>c DEF ClientCloses, Sockets
  <2> QED
      BY <1>7, <2>2, <2>3, <2>4, <2>5
<1>8. CASE \/ ServerLost \/ UNCHANGED vars
           \/ \E l \in Ids : DeviceProduces(l) \/ DeviceEnds(l)
    BY <1>8
    DEF ServerLost, proxySide, vars, proxyVars, DeviceProduces, DeviceEnds, DeviceKeeps
<1> QED
    BY <1>2, <1>3, <1>4, <1>5, <1>6, <1>7, <1>8
    DEF Next, ProxyNext, ServerNext, DeviceNext

LEMMA WroteInit == Init => Wrote
<1> SUFFICES ASSUME Init PROVE Wrote
    OBVIOUS
<1>1. \A l \in Ids : ~chan[l].drain
    BY DEF Init, ProxyInit, Unused
<1>2. Len(tasks) = 0
    BY DEF Init, ProxyInit
<1> QED
    BY <1>1, <1>2 DEF Wrote

(* Only a write() that has begun waits in drain().                         *)
LEMMA DrainsOf ==
    ASSUME TypeOK, Wrote, NEW l \in Ids, NEW k \in Ids, chan'[k].drain,
           \/ StartSome(l) \/ WriteDrained(l) \/ OpenSome(l)
           \/ SinkSome(l) \/ CloserResumes(l) \/ TeardownClose(l)
    PROVE  Knows(k)
<1>c. chan \in [Ids -> Channels] /\ chan[l] \in Channels
    BY DEF TypeOK
<1>d. chan[k].drain => Knows(k)
    BY DEF Wrote
<1>e. \A c \in Channels : \A b, who : EnterClose(c, b, who).drain = c.drain
    BY DEF EnterClose, Channels
<1>1. CASE StartOpen(l) \/ StartReady(l)
    BY <1>1, <1>c, <1>d DEF StartOpen, StartReady, Channels
<1>2. CASE StartClose(l)
    BY <1>2, <1>c, <1>d, <1>e DEF StartClose
<1>3. CASE StartWrite(l)
  <2>1. tasks[1] = Head(tasks) /\ 1 \in 1 .. Len(tasks)
        /\ Head(tasks).op = "write" /\ Head(tasks).id = l
      BY <1>3, Basics, TailType DEF StartWrite, Start
  <2>2. Knows(l)
      BY <2>1 DEF Wrote
  <2>3. k # l => chan'[k] = chan[k]
      BY <1>3, <1>c DEF StartWrite, WriteRaises
  <2> QED
      BY <2>2, <2>3, <1>d
<1>4. CASE WriteDrained(l)
  <2>1. [chan[l] EXCEPT !.drain = FALSE] \in Channels
      BY <1>c, DrainType
  <2> QED
      BY <1>4, <2>1, <1>c, <1>d, <1>e DEF WriteDrained, WriteRaises, Channels
<1>5. CASE OpenSucceeds(l)
    BY <1>5, <1>c, <1>d DEF OpenSucceeds, Register, Channels
<1>6. CASE OpenReady(l) \/ OpenUnannounced(l) \/ OpenFails(l) \/ AnswerBegins(l)
    BY <1>6, <1>c, <1>d
    DEF OpenReady, FirstPermit, OpenUnannounced, OpenFails, AnswerBegins, Channels
<1>7. CASE AnswerGoesOn(l)
    BY <1>7, <1>c, <1>d DEF AnswerGoesOn, AnswerData, AnswerEnds, AnswerRaises, Channels
<1>8. CASE SinkAcquire(l) \/ SinkReads(l)
    BY <1>8, <1>c, <1>d DEF SinkAcquire, SinkReads, Permitted, AfterChunk, Channels
<1>9. CASE SinkEnds(l) \/ SinkCancelled(l)
    BY <1>9, <1>c, <1>d DEF SinkEnds, SinkSendRaises, SinkCancelled, SinkCloses, Channels
<1>10. CASE CloserResumes(l)
    BY <1>10, <1>c, <1>d DEF CloserResumes, Channels
<1>11. CASE TeardownClose(l)
  <2> DEFINE c == EnterClose(chan[l], l \in streams, "teardown")
  <2>1. c \in Channels /\ c.drain = chan[l].drain
      BY <1>c, <1>e, EnterCloseType
  <2>2. chan' = [chan EXCEPT ![l] = [c EXCEPT !.td = TeardownWaits(l)]]
      BY <1>11 DEF TeardownClose
  <2> HIDE DEF c
  <2> QED
      BY <2>1, <2>2, <1>c, <1>d DEF Channels
<1> QED
    BY <1>1, <1>2, <1>3, <1>4, <1>5, <1>6, <1>7, <1>8, <1>9, <1>10, <1>11
    DEF StartSome, OpenSome, SinkSome

LEMMA WroteStep ==
    ASSUME TypeOK, Shape, Wiring, Wrote, [Next]_vars
    PROVE  Wrote'
<1> DEFINE C == \A k \in Ids : chan'[k].drain => Knows(k)
<1> DEFINE W == \A i \in 1 .. Len(tasks') : tasks'[i].op = "write" =>
                    tasks'[i].id \in Ids /\ Knows(tasks'[i].id)
<1>c. chan \in [Ids -> Channels]
    BY DEF TypeOK
<1>d. \A k \in Ids : chan[k].drain => Knows(k)
    BY DEF Wrote
<1>e. tasks' = tasks => W
    BY Basics DEF Wrote
<1>f. tasks # <<>> /\ tasks' = Tail(tasks) => W
    BY Basics, TailType DEF Wrote
<1>g. ASSUME NEW op \in {"open", "close", "ready", "write"}, NEW l \in Ids, NEW d \in Nat,
             Spawn(op, l, d), op = "write" => Knows(l)
      PROVE  W
  <2> DEFINE t == [op |-> op, id |-> l, data |-> d]
  <2>1. t \in Tasks /\ t.op = op /\ t.id = l /\ tasks' = Append(tasks, t)
      BY <1>g DEF Tasks, Spawn
  <2> HIDE DEF t
  <2>2. /\ Len(tasks') = Len(tasks) + 1
        /\ \A i \in 1 .. Len(tasks) : tasks'[i] = tasks[i]
        /\ tasks'[Len(tasks) + 1] = t
      BY <2>1, Basics, AppendType
  <2>3. \A i \in 1 .. Len(tasks') : i \in 1 .. Len(tasks) \/ i = Len(tasks) + 1
      BY <2>2, Basics
  <2> QED
      BY <1>g, <2>1, <2>2, <2>3, Basics DEF Wrote
<1>h. UNCHANGED chan => C
    BY <1>d
<1> HIDE DEF W, C
<1>1. ASSUME RecvSome
      PROVE  C /\ W
  <2>1. C
    <3>1. ASSUME NEW j, NEW r, chan' = [chan EXCEPT ![j].rid = r]
          PROVE  C
        BY <3>1, <1>c, <1>d DEF C, Channels
    <3> QED
        BY <1>1, <3>1, <1>h
        DEF RecvSome, RecvHandshake, RecvOpen, RecvClse, RecvOkay, RecvWrte, RidTaken
  <2>m. PICK m : m = Head(toProxy)
      OBVIOUS
  <2>t. toProxy # <<>>
      BY <1>1 DEF RecvSome, RecvHandshake, RecvOpen, RecvClse, RecvOkay, RecvWrte, Recv
  <2>2. /\ toProxy # <<>> /\ m \in Commands(Nat) /\ m.data \in Nat /\ m.arg1 \in Nat
        /\ m = toProxy[1] /\ 1 \in 1 .. Len(toProxy)
        /\ streams \subseteq Ids
    <3>1. m \in Commands(Nat) /\ m = toProxy[1] /\ 1 \in 1 .. Len(toProxy)
        BY <2>m, <2>t, Basics, TailType
    <3> QED
        BY <3>1, <2>t, CommandTyped DEF TypeOK
  <2>4. ASSUME RecvHandshake
        PROVE  W
      BY <2>4, <1>e DEF RecvHandshake
  <2>5. ASSUME RecvOpen
        PROVE  W
    <3>1. next_local_id \in Ids
        BY <2>5, Basics, ProxyAssumption DEF RecvOpen, Ids
    <3> QED
        BY <1>g, <2>5, <3>1 DEF RecvOpen
  <2>6. ASSUME RecvClse
        PROVE  W
      BY <2>m, <2>2, <1>e, <1>g, <2>6 DEF RecvClse, Target
  <2>7. ASSUME RecvOkay
        PROVE  W
      BY <2>m, <2>2, <1>e, <1>g, <2>7 DEF RecvOkay, Target
  <2>8. ASSUME RecvWrte
        PROVE  W
    <3>1. CASE m.arg1 \notin streams
        BY <2>m, <2>8, <3>1, <1>e DEF RecvWrte, Target
    <3>2. CASE m.arg1 \in streams
      <4>1. Received(m) /\ m.cmd = "WRTE" /\ Answered(m.arg1, 1)
          BY <2>m, <2>2, <2>8 DEF RecvWrte, Recv, Wiring, Incoming
      <4>2. m.arg0 \in RemoteIds /\ srv[m.arg0].peer = m.arg1 /\ m.arg1 # 0
          BY <4>1 DEF Received
      <4>3. chan[m.arg1].rid # 0
          BY <4>1, <3>2 DEF Answered
      <4>4. chan[m.arg1].rid = m.arg0
          BY <4>2, <4>3 DEF Wiring, Pairs
      <4>5. Knows(m.arg1)
          BY <4>2, <4>3, <4>4 DEF Knows
      <4> QED
          BY <2>m, <2>2, <1>g, <2>8, <3>2, <4>5 DEF RecvWrte, Target
    <3> QED
        BY <3>1, <3>2
  <2>9. W
      BY <1>1, <2>4, <2>5, <2>6, <2>7, <2>8 DEF RecvSome
  <2> QED
      BY <2>1, <2>9
<1>2. ASSUME ReverseAccept
      PROVE  C /\ W
    BY <1>2, <1>c, <1>d, <1>e DEF C, ReverseAccept, Register, Unused
<1>3. ASSUME GoStops \/ GoEnds \/ GoInterrupted
      PROVE  C /\ W
  <2>1. ASSUME UNCHANGED chan
        PROVE  C /\ W
      BY <1>3, <2>1, <1>e, <1>h DEF GoStops, GoEnds, GoInterrupted
  <2>2. ASSUME chan' = [l \in Ids |-> IF l \in streams THEN [chan[l] EXCEPT !.td = "queued"]
                                                      ELSE chan[l]]
        PROVE  C /\ W
      BY <1>3, <2>2, <1>c, <1>d, <1>e DEF C, GoStops, GoEnds, GoInterrupted, Channels
  <2> QED
      BY <1>3, <2>1, <2>2 DEF GoStops, GoEnds, GoInterrupted
<1>4. ASSUME NEW l \in Ids, UNCHANGED srv,
             \/ StartSome(l) \/ WriteDrained(l) \/ OpenSome(l)
             \/ SinkSome(l) \/ CloserResumes(l) \/ TeardownClose(l)
      PROVE  C /\ W
  <2>1. C
      BY <1>4, DrainsOf DEF C
  <2>2. W
      BY <1>4, <1>e, <1>f, TasksQuiet DEF Quiet
  <2> QED
      BY <2>1, <2>2
<1>5. ASSUME \/ ServerNext \/ DeviceNext \/ UNCHANGED vars
      PROVE  C /\ W
  <2>1. UNCHANGED <<chan, tasks>>
      BY <1>5
      DEF ServerNext, ServerHandles, ServerCnxn, ServerOkay, ServerWrte, ServerClse,
          ServerOpen, ServerTakes, ServerLost, ClientOpens, ClientWrites, ClientReads,
          ClientCloses, proxySide, DeviceNext, DeviceProduces, DeviceEnds, DeviceKeeps,
          vars, proxyVars
  <2> QED
      BY <2>1, <1>e, <1>h
<1>6. C /\ W
    BY <1>1, <1>2, <1>3, <1>4, <1>5 DEF Next, ProxyNext
<1>7. \A k \in Ids : Knows(k) => Knows(k)'
  <2>1. \A k \in Ids : chan[k].rid # 0 =>
            chan'[k].rid = chan[k].rid /\ chan[k].rid \in RemoteIds
      BY PeersForEver DEF Wiring, Named
  <2>2. \A k \in Ids : k # 0
      BY Basics
  <2>3. \A r \in RemoteIds : srv[r].peer # 0 => srv'[r].peer = srv[r].peer
      BY PeersForEver
  <2> QED
      BY <2>1, <2>2, <2>3 DEF Knows
<1>9. \A i \in 1 .. Len(tasks') : (tasks[i].op = "write" => Knows(tasks[i].id))'
  <2> SUFFICES ASSUME NEW i \in 1 .. Len(tasks'), tasks'[i].op = "write"
               PROVE  Knows(tasks[i].id)'
      OBVIOUS
  <2>1. PICK k \in Ids : k = tasks'[i].id
      BY <1>6 DEF W
  <2>2. Knows(k)'
      BY <2>1, <1>6, <1>7 DEF W
  <2> QED
      BY <2>1, <2>2
<1>10. \A k \in Ids : chan'[k].drain => Knows(k)'
    BY <1>6, <1>7 DEF C
<1> QED
    BY <1>9, <1>10 DEF Wrote

LEMMA PlaceTypes ==
    ASSUME TypeOK, NEW r \in RemoteIds
    PROVE  Num(toProxy, OpenOf(r)) \in Nat /\ Num(toServer, AnswerTo(r)) \in Nat
    BY Basics, PlacesFinite

LEMMA PlaceTypesNext ==
    ASSUME TypeOK', NEW r \in RemoteIds
    PROVE  Num(toProxy, OpenOf(r))' \in Nat /\ Num(toServer, AnswerTo(r))' \in Nat
<1>1. toProxy' \in Seq(Commands(Nat)) /\ toServer' \in Seq(Commands(Ids))
    BY DEF TypeOK
<1> QED
    BY <1>1, PlacesFinite

LEMMA OnceInit == Init => Once
    BY DEF Init, Idle, Once

(* An id that waits for its stream has a socket, and no other has it.      *)
LEMMA PendingNamed ==
    ASSUME TypeOK, Shape, Wiring, NEW l \in Ids, Pending(l)
    PROVE  /\ chan[l].rid # 0 /\ l < next_local_id
           /\ chan[l].open \in {"none", "connecting"}
           /\ chan[l].open = "connecting" => ~HasOpen(l)
<1>1. HasOpen(l) => chan[l].rid # 0 /\ chan[l].open = "none"
    BY DEF HasOpen, Wiring, NamedTasks, Shape, FreshOpens
<1>2. chan[l].open = "connecting" => chan[l].rid # 0
    BY DEF Wiring, Named, Active
<1> QED
    BY <1>1, <1>2 DEF Pending, Wiring, Named

LEMMA TasksTail ==
    ASSUME TypeOK, Shape, NEW l \in Ids, NEW op, Start(op, l)
    PROVE  \A k \in Ids : HasOpen(k)' <=> HasOpen(k) /\ ~(k = l /\ op = "open")
<1>1. /\ tasks # <<>> /\ tasks' = Tail(tasks)
      /\ tasks[1].op = op /\ tasks[1].id = l /\ 1 \in 1 .. Len(tasks)
      /\ Len(tasks') = Len(tasks) - 1 /\ Len(tasks) \in Nat \ {0}
      /\ \A i \in 1 .. Len(tasks') : i + 1 \in 1 .. Len(tasks) /\ tasks'[i] = tasks[i + 1]
    BY Basics, TailType DEF Start
<1> SUFFICES ASSUME NEW k \in Ids
             PROVE  HasOpen(k)' <=> HasOpen(k) /\ ~(k = l /\ op = "open")
    OBVIOUS
<1>2. ASSUME HasOpen(k)'
      PROVE  HasOpen(k) /\ ~(k = l /\ op = "open")
  <2>1. PICK i \in 1 .. Len(tasks') : tasks'[i].op = "open" /\ tasks'[i].id = k
      BY <1>2 DEF HasOpen
  <2>2. i + 1 \in 1 .. Len(tasks) /\ tasks[i + 1].op = "open" /\ tasks[i + 1].id = k
        /\ i + 1 # 1
      BY <1>1, <2>1
  <2> QED
      BY <1>1, <2>2 DEF HasOpen, Shape, FreshOpens
<1>3. ASSUME HasOpen(k), ~(k = l /\ op = "open")
      PROVE  HasOpen(k)'
  <2>1. PICK i \in 1 .. Len(tasks) : tasks[i].op = "open" /\ tasks[i].id = k
      BY <1>3 DEF HasOpen
  <2>2. i # 1
      BY <1>1, <1>3, <2>1
  <2>3. i - 1 \in 1 .. Len(tasks') /\ (i - 1) + 1 = i
      BY <1>1, <2>2
  <2>4. tasks'[i - 1].op = "open" /\ tasks'[i - 1].id = k
      BY <1>1, <2>1, <2>3
  <2> QED
      BY <2>3, <2>4 DEF HasOpen
<1> QED
    BY <1>2, <1>3

LEMMA TasksSpawn ==
    ASSUME TypeOK, NEW l \in Ids, NEW op \in {"open", "close", "ready", "write"},
           NEW d \in Nat, Spawn(op, l, d)
    PROVE  \A k \in Ids : HasOpen(k)' <=> HasOpen(k) \/ (k = l /\ op = "open")
<1> DEFINE t == [op |-> op, id |-> l, data |-> d]
<1>1. t \in Tasks /\ t.op = op /\ t.id = l /\ tasks' = Append(tasks, t)
    BY DEF Tasks, Spawn
<1> HIDE DEF t
<1>2. /\ Len(tasks') = Len(tasks) + 1
      /\ \A i \in 1 .. Len(tasks) : tasks'[i] = tasks[i]
      /\ tasks'[Len(tasks) + 1] = t
    BY <1>1, Basics, AppendType
<1>3. /\ \A i \in 1 .. Len(tasks') : i \in 1 .. Len(tasks) \/ i = Len(tasks) + 1
      /\ \A i \in 1 .. Len(tasks) : i \in 1 .. Len(tasks')
      /\ Len(tasks) + 1 \in 1 .. Len(tasks')
    BY <1>2, Basics
<1> QED
    BY <1>1, <1>2, <1>3 DEF HasOpen

LEMMA AnswerCounts ==
    ASSUME TypeOK, NEW m \in Commands(Ids), conn = "up", Send(m), NEW r \in RemoteIds
    PROVE  Num(toServer, AnswerTo(r))' = Num(toServer, AnswerTo(r))
               + Bit(m.arg1 = r /\ (m.cmd = "OKAY" \/ (m.cmd = "CLSE" /\ m.arg0 = 0)))
<1>1. m \in AnswerTo(r) <=> m.arg1 = r /\ (m.cmd = "OKAY" \/ (m.cmd = "CLSE" /\ m.arg0 = 0))
    BY DEF AnswerTo
<1> QED
    BY <1>1, Basics, NumAppend DEF Send, Bit

LEMMA AnswerTaken ==
    ASSUME TypeOK, toServer # <<>>, toServer' = Tail(toServer), NEW r \in RemoteIds,
           LET m == Head(toServer) IN
           m.arg1 # r \/ ~(m.cmd = "OKAY" \/ (m.cmd = "CLSE" /\ m.arg0 = 0))
    PROVE  Num(toServer, AnswerTo(r))' = Num(toServer, AnswerTo(r))
<1>1. Head(toServer) \notin AnswerTo(r)
    BY DEF AnswerTo
<1>2. Tail(toServer) \in Seq(Commands(Ids))
    BY Basics, TailType
<1>3. Num(Tail(toServer), AnswerTo(r)) \in Nat
    BY <1>2, PlacesFinite
<1> QED
    BY <1>1, <1>3, Basics, NumTail

LEMMA OpenReplied ==
    ASSUME TypeOK, NEW m \in Commands(Nat), Reply(m), NEW r \in RemoteIds
    PROVE  Num(toProxy, OpenOf(r))' = Num(toProxy, OpenOf(r))
               + Bit(m.cmd = "OPEN" /\ m.arg0 = r)
<1>1. m \in OpenOf(r) <=> m.cmd = "OPEN" /\ m.arg0 = r
    BY DEF OpenOf
<1> QED
    BY <1>1, Basics, NumAppend DEF Reply, Bit

LEMMA OpenTaken ==
    ASSUME TypeOK, toProxy # <<>>, toProxy' = Tail(toProxy), NEW r \in RemoteIds
    PROVE  Num(toProxy, OpenOf(r)) = Num(toProxy, OpenOf(r))'
               + Bit(Head(toProxy).cmd = "OPEN" /\ Head(toProxy).arg0 = r)
<1>1. Head(toProxy) \in Commands(Nat)
    BY Basics, TailType
<1>2. Head(toProxy) \in OpenOf(r) <=> Head(toProxy).cmd = "OPEN" /\ Head(toProxy).arg0 = r
    BY <1>1 DEF OpenOf
<1> QED
    BY <1>2, Basics, NumTail DEF Bit

(* A step of a task for l: only the socket of l can be concerned.          *)
LEMMA OnceQuiet ==
    ASSUME TypeOK, TypeOK', Shape, Wiring, Once, NEW l \in Ids, Quiet(l), UNCHANGED conn,
           \A k \in Ids : k # l => (HasOpen(k)' <=> HasOpen(k)),
           \A r \in RemoteIds : conn = "up" /\ chan[l].rid = r /\ srv[r].st = "opening" =>
               Bit(Pending(l))' + Num(toServer, AnswerTo(r))'
                   = Bit(Pending(l)) + Num(toServer, AnswerTo(r))
    PROVE  Once'
<1> SUFFICES ASSUME conn = "up", NEW r \in RemoteIds, srv[r].st = "opening"
             PROVE  Whereabouts(r)' = 1
    BY DEF Once, Quiet
<1>1. Whereabouts(r) = 1
    BY DEF Once
<1>2. Num(toProxy, OpenOf(r))' = Num(toProxy, OpenOf(r))
    BY DEF Quiet
<1>3. \A k \in Ids : chan'[k].rid = chan[k].rid /\ (k # l => (Pending(k)' <=> Pending(k)))
    BY DEF Quiet, Pending
<1>n. /\ Num(toProxy, OpenOf(r)) \in Nat
      /\ Num(toServer, AnswerTo(r)) \in Nat /\ Num(toServer, AnswerTo(r))' \in Nat
    BY PlaceTypes, PlaceTypesNext
<1>4. CASE chan[l].rid # r
  <2>1. Num(toServer, AnswerTo(r))' = Num(toServer, AnswerTo(r))
    <3>1. CASE toServer' = toServer
        BY <3>1
    <3>2. ASSUME NEW m, Speaks(l, m), toServer' = Append(toServer, m)
          PROVE  Num(toServer, AnswerTo(r))' = Num(toServer, AnswerTo(r))
      <4>1. m \in Commands(Ids) /\ m \notin AnswerTo(r)
          BY <1>4, <3>2 DEF Speaks, AnswerTo
      <4> QED
          BY <3>2, <4>1, <1>n, Basics, NumAppend
    <3> QED
        BY <3>1, <3>2 DEF Quiet
  <2>2. (\E k \in Ids : chan[k].rid = r /\ Pending(k))'
            <=> \E k \in Ids : chan[k].rid = r /\ Pending(k)
      BY <1>3, <1>4
  <2> QED
      BY <1>1, <1>2, <2>1, <2>2 DEF Whereabouts, Bit
<1>5. CASE chan[l].rid = r
  <2>1. \A k \in Ids : chan[k].rid = r => k = l
      BY <1>5, Basics DEF Wiring, Pairs
  <2>2. /\ (\E k \in Ids : chan[k].rid = r /\ Pending(k)) <=> Pending(l)
        /\ (\E k \in Ids : chan[k].rid = r /\ Pending(k))' <=> Pending(l)'
      BY <1>3, <1>5, <2>1
  <2>3. Bit(Pending(l))' + Num(toServer, AnswerTo(r))'
            = Bit(Pending(l)) + Num(toServer, AnswerTo(r))
      BY <1>3, <1>5
  <2> QED
      BY <1>1, <1>2, <1>n, <2>2, <2>3 DEF Whereabouts, Bit
<1> QED
    BY <1>4, <1>5

LEMMA OnceTasks ==
    ASSUME TypeOK, TypeOK', Shape, Wiring, Wrote, Once, NEW l \in Ids, UNCHANGED srv,
           \/ StartSome(l) \/ WriteDrained(l) \/ OpenSome(l)
           \/ SinkSome(l) \/ CloserResumes(l) \/ TeardownClose(l)
    PROVE  Once'
<1> DEFINE Same(r) == Num(toServer, AnswerTo(r))' = Num(toServer, AnswerTo(r))
<1>q. Quiet(l)
    BY TasksQuiet
<1>c. chan \in [Ids -> Channels] /\ chan[l] \in Channels
    BY DEF TypeOK
<1>v. UNCHANGED conn
    BY DEF StartSome, StartOpen, StartReady, StartClose, StartWrite, WriteDrained, OpenSome,
           OpenSucceeds, OpenReady, OpenUnannounced, OpenFails, AnswerBegins, AnswerGoesOn,
           AnswerData, AnswerEnds, AnswerRaises, SinkSome, SinkAcquire, SinkReads,
           SinkEnds, SinkSendRaises, SinkCancelled, CloserResumes, TeardownClose, loop
<1>i. ASSUME \A k \in Ids : HasOpen(k)' <=> HasOpen(k),
             chan'[l].open = "connecting" <=> chan[l].open = "connecting",
             \A r \in RemoteIds : conn = "up" /\ chan[l].rid = r /\ srv[r].st = "opening"
                                      => Same(r)
      PROVE  Once'
  <2>1. Pending(l)' <=> Pending(l)
      BY <1>i DEF Pending
  <2>2. Bit(Pending(l))' = Bit(Pending(l))
      BY <2>1 DEF Bit
  <2> QED
      BY <1>i, <1>q, <1>v, <2>2, OnceQuiet
<1>t. tasks' = tasks => \A k \in Ids : HasOpen(k)' <=> HasOpen(k)
    BY DEF HasOpen
<1>z. toServer' = toServer => \A r : Same(r)
    OBVIOUS
<1>a. ASSUME NEW cmd \in {"WRTE", "CLSE"}, NEW d \in Nat, conn = "up",
             Send(Command(cmd, l, chan[l].rid, d))
      PROVE  \A r \in RemoteIds : Same(r)
  <2>1. Command(cmd, l, chan[l].rid, d) \in Commands(Ids) /\ l # 0
      BY Basics, MakeCommand
  <2> QED
      BY <2>1, <1>a, AnswerCounts, PlaceTypes DEF Command, Bit
(* The answer of open_channel.                                             *)
<1>b. ASSUME chan[l].open = "connecting", chan'[l].open # "connecting", tasks' = tasks,
             NEW cmd \in {"OKAY", "CLSE"}, NEW a \in {0, l}, cmd = "CLSE" => a = 0,
             Send(Command(cmd, a, chan[l].rid, 0))
      PROVE  Once'
  <2>1. Pending(l) /\ ~HasOpen(l)
      BY <1>b, PendingNamed DEF Pending
  <2>2. ~Pending(l)'
      BY <2>1, <1>b, <1>t DEF Pending
  <2>3. Bit(Pending(l)) = 1 /\ Bit(Pending(l))' = 0
      BY <2>1, <2>2 DEF Bit
  <2>4. Command(cmd, a, chan[l].rid, 0) \in Commands(Ids)
      BY Basics, MakeCommand
  <2>5. ASSUME NEW r \in RemoteIds, conn = "up", chan[l].rid = r
        PROVE  Num(toServer, AnswerTo(r))' = Num(toServer, AnswerTo(r)) + 1
      BY <2>4, <2>5, <1>b, AnswerCounts DEF Command, Bit
  <2>6. \A r \in RemoteIds : conn = "up" /\ chan[l].rid = r /\ srv[r].st = "opening" =>
            Bit(Pending(l))' + Num(toServer, AnswerTo(r))'
                = Bit(Pending(l)) + Num(toServer, AnswerTo(r))
      BY <2>3, <2>5, PlaceTypes
  <2> QED
      BY <2>6, <1>b, <1>t, <1>q, <1>v, OnceQuiet
(* What a socket that has written reads is no answer to its OPEN.          *)
<1>k. ASSUME Knows(l), NEW r \in RemoteIds, chan[l].rid = r
      PROVE  srv[r].st # "opening"
    BY <1>k, Basics DEF Knows, Wiring, Ends
<1>e. \A ch \in Channels : \A b, who : EnterClose(ch, b, who).open = ch.open
    BY DEF EnterClose, Channels
<1>1. CASE StartOpen(l)
  <2>1. /\ tasks[1] = Head(tasks) /\ 1 \in 1 .. Len(tasks)
        /\ Head(tasks).op = "open" /\ Head(tasks).id = l
      BY <1>1, Basics, TailType DEF StartOpen, Start
  <2>2. HasOpen(l)
      BY <2>1 DEF HasOpen
  <2>3. chan'[l].open = "connecting" /\ toServer' = toServer
      BY <1>1, <1>c DEF StartOpen
  <2>4. Bit(Pending(l)) = 1 /\ Bit(Pending(l))' = 1
      BY <2>2, <2>3 DEF Pending, Bit
  <2>5. \A k \in Ids : k # l => (HasOpen(k)' <=> HasOpen(k))
      BY <1>1, TasksTail DEF StartOpen
  <2>6. \A r \in RemoteIds : Bit(Pending(l))' + Num(toServer, AnswerTo(r))'
                                 = Bit(Pending(l)) + Num(toServer, AnswerTo(r))
      BY <2>3, <2>4
  <2> QED
      BY <2>5, <2>6, <1>q, <1>v, OnceQuiet
<1>2. CASE StartReady(l)
  <2>1. \A k \in Ids : HasOpen(k)' <=> HasOpen(k)
      BY <1>2, TasksTail DEF StartReady
  <2>2. chan'[l].open = chan[l].open
      BY <1>2, <1>c DEF StartReady, Channels
  <2> QED
      BY <1>2, <2>1, <2>2, <1>i, <1>z DEF StartReady
<1>3. CASE StartClose(l)
  <2>1. \A k \in Ids : HasOpen(k)' <=> HasOpen(k)
      BY <1>3, TasksTail DEF StartClose
  <2>2. chan'[l].open = chan[l].open
      BY <1>3, <1>c, <1>e DEF StartClose
  <2> QED
      BY <1>3, <2>1, <2>2, <1>i, <1>z DEF StartClose
<1>4. CASE StartWrite(l)
  <2>1. \A k \in Ids : HasOpen(k)' <=> HasOpen(k)
      BY <1>4, TasksTail DEF StartWrite
  <2>2. chan'[l].open = chan[l].open
      BY <1>4, <1>c, <1>e DEF StartWrite, WriteRaises, Channels
  <2>3. Knows(l)
    <3>1. tasks[1] = Head(tasks) /\ 1 \in 1 .. Len(tasks)
          /\ Head(tasks).op = "write" /\ Head(tasks).id = l
        BY <1>4, Basics, TailType DEF StartWrite, Start
    <3> QED
        BY <3>1 DEF Wrote
  <2> QED
      BY <2>1, <2>2, <2>3, <1>i, <1>k
<1>5. CASE WriteDrained(l)
  <2>1. tasks' = tasks
      BY <1>5 DEF WriteDrained
  <2>2. chan'[l].open = chan[l].open
    <3>1. [chan[l] EXCEPT !.drain = FALSE] \in Channels
          /\ [chan[l] EXCEPT !.drain = FALSE].open = chan[l].open
        BY <1>c, DrainType DEF Channels
    <3>2. CASE chan' = [chan EXCEPT ![l].drain = FALSE]
        BY <3>1, <3>2, <1>c DEF Channels
    <3>3. CASE WriteRaises(l, [chan[l] EXCEPT !.drain = FALSE])
      <4> DEFINE c == [chan[l] EXCEPT !.drain = FALSE]
      <4>1. chan' = [chan EXCEPT ![l] = EnterClose(c, l \in streams, "write")]
          BY <3>3 DEF WriteRaises
      <4>2. c \in Channels /\ c.open = chan[l].open
          BY <3>1
      <4> HIDE DEF c
      <4> QED
          BY <4>1, <4>2, <1>c, <1>e
    <3> QED
        BY <1>5, <3>2, <3>3 DEF WriteDrained
  <2>3. Knows(l)
      BY <1>5 DEF WriteDrained, Wrote
  <2> QED
      BY <2>1, <2>2, <2>3, <1>i, <1>k, <1>t
<1>6. CASE OpenSucceeds(l)
  <2>1. chan'[l].open = "okSent"
      BY <1>6, <1>c DEF OpenSucceeds, Register, Channels
  <2> QED
      BY <1>6, <2>1, <1>b DEF OpenSucceeds
<1>7. CASE OpenReady(l) \/ OpenUnannounced(l)
  <2>1. chan'[l].open = "ended" /\ chan[l].open = "okSent"
        /\ tasks' = tasks /\ toServer' = toServer
      BY <1>7, <1>c DEF OpenReady, OpenUnannounced, FirstPermit, Channels
  <2> QED
      BY <2>1, <1>i, <1>t, <1>z
<1>8. CASE OpenFails(l)
  <2>1. chan'[l].open = "ended"
      BY <1>8, <1>c DEF OpenFails, Channels
  <2> QED
      BY <1>8, <2>1, <1>b DEF OpenFails, ReportsFailure
<1>9. CASE AnswerBegins(l)
  <2>1. chan'[l].open = "okayAnswer"
      BY <1>9, <1>c DEF AnswerBegins, Channels
  <2> QED
      BY <1>9, <2>1, <1>b DEF AnswerBegins
<1>10. CASE AnswerData(l) \/ AnswerEnds(l)
  <2>1. /\ chan'[l].open # "connecting" /\ chan[l].open # "connecting" /\ tasks' = tasks
        /\ \E cmd \in {"WRTE", "CLSE"}, d \in Nat : Send(Command(cmd, l, chan[l].rid, d))
      BY <1>10, <1>c DEF AnswerData, AnswerEnds, SendClse, Channels
  <2> QED
      BY <2>1, <1>a, <1>i, <1>t
<1>11. CASE AnswerRaises(l)
  <2>1. chan'[l].open = "ended" /\ chan[l].open # "connecting" /\ tasks' = tasks /\ conn # "up"
      BY <1>11, <1>c DEF AnswerRaises, SendRaises, Channels
  <2> QED
      BY <2>1, <1>i, <1>t
<1>12. CASE SinkAcquire(l)
  <2>1. chan'[l].open = chan[l].open /\ tasks' = tasks /\ toServer' = toServer
      BY <1>12, <1>c DEF SinkAcquire, Channels
  <2> QED
      BY <2>1, <1>i, <1>t, <1>z
<1>13. CASE SinkReads(l)
  <2>1. /\ chan'[l].open = chan[l].open /\ tasks' = tasks
        /\ \E d \in Nat : Send(Command("WRTE", l, chan[l].rid, d))
      BY <1>13, <1>c DEF SinkReads, Channels, TypeOK
  <2> QED
      BY <2>1, <1>a, <1>i, <1>t
<1>14. CASE SinkEnds(l) \/ SinkCancelled(l)
  <2>1. /\ chan'[l].open = chan[l].open /\ tasks' = tasks
        /\ toServer' = toServer \/ Send(Command("CLSE", l, chan[l].rid, 0))
      BY <1>14, <1>c DEF SinkEnds, SinkSendRaises, SinkCancelled, SinkCloses, SendClse, Channels
  <2> QED
      BY <2>1, <1>a, <1>i, <1>t, <1>z
<1>15. CASE CloserResumes(l)
  <2>1. /\ chan'[l].open = chan[l].open /\ tasks' = tasks
        /\ toServer' = toServer \/ Send(Command("CLSE", l, chan[l].rid, 0))
      BY <1>15, <1>c DEF CloserResumes, SendClse, Channels
  <2> QED
      BY <2>1, <1>a, <1>i, <1>t, <1>z
<1>16. CASE TeardownClose(l)
  <2> DEFINE c == EnterClose(chan[l], l \in streams, "teardown")
  <2>1. c \in Channels /\ c.open = chan[l].open
      BY <1>c, <1>e, EnterCloseType
  <2>2. /\ chan' = [chan EXCEPT ![l] = [c EXCEPT !.td = TeardownWaits(l)]]
        /\ tasks' = tasks /\ toServer' = toServer
      BY <1>16 DEF TeardownClose
  <2> HIDE DEF c
  <2>3. chan'[l].open = chan[l].open
      BY <2>1, <2>2, <1>c DEF Channels
  <2> QED
      BY <2>2, <2>3, <1>i, <1>t, <1>z
<1> QED
    BY <1>1, <1>2, <1>3, <1>4, <1>5, <1>6, <1>7, <1>8, <1>9, <1>10, <1>11, <1>12, <1>13,
       <1>14, <1>15, <1>16
    DEF StartSome, OpenSome, AnswerGoesOn, SinkSome

(* Where chan and tasks say the same of each OPEN.                         *)
LEMMA PendingSame ==
    ASSUME TypeOK, Shape, Wiring, [Next]_vars,
           \A k \in Ids : Pending(k)' <=> Pending(k), NEW r \in RemoteIds
    PROVE  (\E k \in Ids : chan[k].rid = r /\ Pending(k))'
               <=> \E k \in Ids : chan[k].rid = r /\ Pending(k)
<1>1. \A k \in Ids : Pending(k) => chan'[k].rid = chan[k].rid
    BY PendingNamed, PeersForEver
<1> QED
    BY <1>1

LEMMA OnceRecv ==
    ASSUME TypeOK, TypeOK', Shape, Wiring, Once, [Next]_vars, UNCHANGED srv, RecvSome
    PROVE  Once'
<1>u. UNCHANGED <<conn, toServer>> /\ toProxy # <<>> /\ toProxy' = Tail(toProxy)
    BY DEF RecvSome, RecvHandshake, RecvOpen, RecvClse, RecvOkay, RecvWrte, Recv, untouched
<1> SUFFICES ASSUME conn = "up", NEW r \in RemoteIds, srv[r].st = "opening"
             PROVE  Whereabouts(r)' = 1
    BY <1>u DEF Once
<1>m. PICK m : m = Head(toProxy)
    OBVIOUS
<1>n. /\ m \in Commands(Nat) /\ m.arg0 \in Nat /\ m.data \in Nat /\ Received(m)
      /\ toProxy[1] = m /\ 1 \in 1 .. Len(toProxy)
  <2>1. m \in Commands(Nat) /\ toProxy[1] = m /\ 1 \in 1 .. Len(toProxy)
      BY <1>m, <1>u, Basics, TailType
  <2> QED
      BY <2>1, CommandTyped DEF Wiring, Incoming
<1>1. Whereabouts(r) = 1
    BY DEF Once
<1>2. /\ Num(toProxy, OpenOf(r))
             = Num(toProxy, OpenOf(r))' + Bit(m.cmd = "OPEN" /\ m.arg0 = r)
      /\ Num(toServer, AnswerTo(r))' = Num(toServer, AnswerTo(r))
    BY <1>m, <1>u, OpenTaken
<1>3. /\ Num(toProxy, OpenOf(r)) \in Nat /\ Num(toServer, AnswerTo(r)) \in Nat
      /\ Num(toProxy, OpenOf(r))' \in Nat
    BY PlaceTypes, PlaceTypesNext
<1>i. ASSUME m.cmd # "OPEN", \A k \in Ids : HasOpen(k)' <=> HasOpen(k),
             \A k \in Ids : chan'[k].open = chan[k].open
      PROVE  Whereabouts(r)' = 1
  <2>1. \A k \in Ids : Pending(k)' <=> Pending(k)
      BY <1>i DEF Pending
  <2>2. (\E k \in Ids : chan[k].rid = r /\ Pending(k))'
            <=> \E k \in Ids : chan[k].rid = r /\ Pending(k)
      BY <2>1, PendingSame
  <2> QED
      BY <1>i, <1>1, <1>2, <1>3, <2>2 DEF Whereabouts, Bit
<1>t. tasks' = tasks => \A k \in Ids : HasOpen(k)' <=> HasOpen(k)
    BY DEF HasOpen
<1>s. streams \subseteq Ids /\ chan \in [Ids -> Channels]
    BY DEF TypeOK
<1>4. CASE RecvHandshake
  <2>1. m.cmd = "CNXN" /\ UNCHANGED <<chan, tasks>>
      BY <1>4, <1>m DEF RecvHandshake, Wiring, Shook
  <2> QED
      BY <2>1, <1>i, <1>t
<1>5. CASE RecvClse \/ RecvWrte
  <2>1. m.cmd # "OPEN" /\ UNCHANGED chan
      BY <1>5, <1>m DEF RecvClse, RecvWrte, Recv
  <2>2. CASE tasks' = tasks
      BY <2>1, <2>2, <1>i, <1>t
  <2>3. ASSUME NEW l \in Ids, NEW op \in {"close", "write"}, NEW d \in Nat, Spawn(op, l, d)
        PROVE  Whereabouts(r)' = 1
      BY <2>1, <2>3, <1>i, TasksSpawn
  <2> QED
      BY <1>5, <2>2, <2>3, <1>m, <1>n, <1>s DEF RecvClse, RecvWrte, Target
<1>6. CASE RecvOkay
  <2>1. m.cmd # "OPEN" /\ \A k \in Ids : chan'[k].open = chan[k].open
    <3>1. ASSUME NEW j, NEW v, chan' = [chan EXCEPT ![j].rid = v]
          PROVE  \A k \in Ids : chan'[k].open = chan[k].open
        BY <3>1, <1>s DEF Channels
    <3> QED
        BY <1>6, <1>m, <3>1 DEF RecvOkay, Recv, RidTaken
  <2>2. CASE tasks' = tasks
      BY <2>1, <2>2, <1>i, <1>t
  <2>3. ASSUME NEW l \in Ids, Spawn("ready", l, 0)
        PROVE  Whereabouts(r)' = 1
      BY <2>1, <2>3, <1>i, TasksSpawn
  <2> QED
      BY <1>6, <2>2, <2>3, <1>m, <1>s DEF RecvOkay, Target
<1>7. CASE RecvOpen
  <2>n. PICK n \in Ids : n = next_local_id
      BY <1>7, Basics, ProxyAssumption DEF RecvOpen, Ids
  <2>1. /\ m.cmd = "OPEN" /\ \A k \in Ids : chan[k].rid # m.arg0
        /\ m.arg0 \in RemoteIds
      BY <1>7, <1>m, <1>n DEF RecvOpen, Recv, Received
  <2>2. /\ chan' = [chan EXCEPT ![n].rid = m.arg0]
        /\ Spawn("open", n, 0)
      BY <2>n, <1>7, <1>m DEF RecvOpen
  <2>3. /\ chan'[n].rid = m.arg0
        /\ \A k \in Ids : chan'[k].open = chan[k].open /\ (k # n => chan'[k].rid = chan[k].rid)
      BY <2>2, <1>s DEF Channels
  <2>4. \A k \in Ids : HasOpen(k)' <=> HasOpen(k) \/ k = n
      BY <2>2, TasksSpawn
  <2>5. \A k \in Ids : Pending(k)' <=> Pending(k) \/ k = n
      BY <2>3, <2>4 DEF Pending
  <2>6. chan[n].rid = 0 /\ r # 0
      BY <2>n, Basics DEF Wiring, Named
  <2>7. CASE m.arg0 = r
    <3>1. ~(\E k \in Ids : chan[k].rid = r /\ Pending(k))
        BY <2>1, <2>7
    <3>2. (\E k \in Ids : chan[k].rid = r /\ Pending(k))'
        BY <2>3, <2>5, <2>7
    <3> QED
        BY <3>1, <3>2, <2>1, <2>7, <1>1, <1>2, <1>3 DEF Whereabouts, Bit
  <2>8. CASE m.arg0 # r
    <3>1. (\E k \in Ids : chan[k].rid = r /\ Pending(k))'
              <=> \E k \in Ids : chan[k].rid = r /\ Pending(k)
        BY <2>3, <2>5, <2>6, <2>8
    <3> QED
        BY <3>1, <2>8, <1>1, <1>2, <1>3 DEF Whereabouts, Bit
  <2> QED
      BY <2>7, <2>8
<1> QED
    BY <1>4, <1>5, <1>6, <1>7 DEF RecvSome

LEMMA OnceReverse ==
    ASSUME TypeOK, TypeOK', Shape, Wiring, Once, [Next]_vars, UNCHANGED srv, ReverseAccept
    PROVE  Once'
<1>u. UNCHANGED <<conn, toProxy, tasks>>
    BY DEF ReverseAccept, loop
<1> SUFFICES ASSUME conn = "up", NEW r \in RemoteIds, srv[r].st = "opening"
             PROVE  Whereabouts(r)' = 1
    BY <1>u DEF Once
<1>1. Whereabouts(r) = 1
    BY DEF Once
<1>n. PICK n \in Ids : n = next_local_id
    BY Basics, ProxyAssumption DEF ReverseAccept, Ids
<1>2. /\ chan' = [chan EXCEPT ![n] = [[Unused EXCEPT !.open = "accepted"]
                                          EXCEPT !.sink = "acquire", !.writer = "open"]]
      /\ Send(Command("OPEN", n, 0, 0))
    BY <1>n DEF ReverseAccept, Register
<1>3. chan'[n].open = "accepted" /\ \A k \in Ids : k # n => chan'[k] = chan[k]
    BY <1>2 DEF TypeOK, Unused
<1>4. chan[n].rid = 0
    BY <1>n, Basics DEF Wiring, Named
<1>5. \A k \in Ids : HasOpen(k)' <=> HasOpen(k)
    BY <1>u DEF HasOpen
<1>6. ~Pending(n)
    BY <1>4, PendingNamed
<1>7. ~Pending(n)'
    BY <1>3, <1>5, <1>6 DEF Pending
<1>8. \A k \in Ids : Pending(k)' <=> Pending(k)
    BY <1>3, <1>5, <1>6, <1>7 DEF Pending
<1>9. (\E k \in Ids : chan[k].rid = r /\ Pending(k))'
          <=> \E k \in Ids : chan[k].rid = r /\ Pending(k)
    BY <1>8, PendingSame
<1>10. Num(toServer, AnswerTo(r))' = Num(toServer, AnswerTo(r))
  <2>1. Command("OPEN", n, 0, 0) \in Commands(Ids)
      BY Basics, MakeCommand
  <2> QED
      BY <2>1, <1>2, AnswerCounts, PlaceTypes DEF Command, Bit
<1> QED
    BY <1>u, <1>1, <1>9, <1>10 DEF Whereabouts, Bit

(* Only the state of the sockets and the commands change.                  *)
LEMMA OnceServer ==
    ASSUME TypeOK, TypeOK', Shape, Wiring, Once,
           \/ ServerHandles
           \/ \E r \in RemoteIds : \/ ClientOpens(r) \/ ClientWrites(r)
                                   \/ ClientReads(r) \/ ClientCloses(r)
    PROVE  Once'
<1>u. UNCHANGED <<chan, tasks, conn>> /\ conn = "up"
    BY DEF ServerHandles, ServerCnxn, ServerOkay, ServerWrte, ServerClse, ServerOpen,
           ServerTakes, ClientOpens, ClientWrites, ClientReads, ClientCloses, proxySide,
           Connected
<1> SUFFICES ASSUME NEW r \in RemoteIds, srv'[r].st = "opening"
             PROVE  Whereabouts(r)' = 1
    BY <1>u DEF Once
<1> DEFINE P == Num(toProxy, OpenOf(r))
           S == Num(toServer, AnswerTo(r))
<1>n. P \in Nat /\ P' \in Nat /\ S \in Nat /\ S' \in Nat
    BY PlaceTypes, PlaceTypesNext
<1>e. (\E k \in Ids : chan[k].rid = r /\ Pending(k))'
          <=> \E k \in Ids : chan[k].rid = r /\ Pending(k)
    BY <1>u DEF Pending, HasOpen
<1>s. srv \in [RemoteIds -> Sockets]
    BY DEF TypeOK
<1>i. ASSUME srv[r].st = "opening", P' = P, S' = S
      PROVE  Whereabouts(r)' = 1
  <2>1. Whereabouts(r) = 1
      BY <1>i, <1>u DEF Once
  <2> QED
      BY <2>1, <1>i, <1>e DEF Whereabouts, Bit
<1>z. ASSUME NEW a \in {0} \cup RemoteIds, NEW l \in {0} \cup Ids, NEW d \in Nat,
             NEW cmd \in {"CLSE", "WRTE", "OKAY"}, Reply(Command(cmd, a, l, d))
      PROVE  P' = P
  <2>1. a \in Nat /\ l \in Nat
      BY Basics
  <2>2. Command(cmd, a, l, d) \in Commands(Nat) /\ Command(cmd, a, l, d).cmd # "OPEN"
      BY <2>1, MakeCommand DEF Command
  <2> QED
      BY <2>2, <1>z, <1>n, OpenReplied DEF Bit
<1>m. PICK m : m = Head(toServer)
    OBVIOUS
<1>h. toServer # <<>> =>
          /\ m \in Commands(Ids) /\ Sent(m)
          /\ m.arg0 \in {0} \cup Ids
    BY <1>m, HeadSent, CommandTyped, Basics DEF Wiring
<1>a. ASSUME toServer # <<>>, toServer' = Tail(toServer),
             m.arg1 # r \/ m.cmd \notin {"OKAY", "CLSE"}
      PROVE  S' = S
    BY <1>a, <1>m, AnswerTaken
<1>1. CASE ServerCnxn
  <2>1. Command("CNXN", 0, ServerMax, 0) \in Commands(Nat)
        /\ Command("CNXN", 0, ServerMax, 0).cmd # "OPEN"
      BY SessionAssumption, MakeCommand DEF Command
  <2>2. P' = P
      BY <1>1, <2>1, <1>n, OpenReplied DEF ServerCnxn, Bit
  <2>3. S' = S
      BY <1>1, <1>m, <1>a DEF ServerCnxn, ServerTakes
  <2> QED
      BY <1>1, <1>i, <2>2, <2>3 DEF ServerCnxn
<1>2. CASE ServerOkay
  <2>1. toServer # <<>> /\ toServer' = Tail(toServer) /\ m.cmd = "OKAY"
      BY <1>2, <1>m DEF ServerOkay, ServerTakes
  <2>2. m.arg1 \in RemoteIds
      BY <2>1, <1>h DEF Sent
  <2>3. m.arg1 # r /\ srv[r].st = "opening"
    <3>1. CASE srv[m.arg1].st = "closed" /\ UNCHANGED srv
        BY <3>1
    <3>2. CASE srv' = [srv EXCEPT ![m.arg1].st = "open", ![m.arg1].peer = m.arg0,
                                  ![m.arg1].credit = TRUE]
        BY <3>2, <2>2, <1>s DEF Sockets
    <3> QED
        BY <1>2, <1>m, <3>1, <3>2 DEF ServerOkay
  <2>4. S' = S
      BY <2>1, <2>3, <1>a
  <2>5. P' = P
      BY <1>2, <1>m, <1>h, <2>1, <2>2, <1>z DEF ServerOkay
  <2> QED
      BY <2>3, <2>4, <2>5, <1>i
<1>3. CASE ServerWrte
  <2>1. /\ toServer # <<>> /\ toServer' = Tail(toServer) /\ m.cmd = "WRTE"
        /\ UNCHANGED toProxy
      BY <1>3, <1>m DEF ServerWrte, ServerTakes
  <2>2. srv[r].st = "opening"
    <3>1. CASE srv' = srv
        BY <3>1
    <3>2. CASE srv' = [srv EXCEPT ![m.arg1].owes = TRUE]
        BY <3>2, <1>s DEF Sockets
    <3> QED
        BY <1>3, <1>m, <3>1, <3>2 DEF ServerWrte
  <2>3. S' = S
      BY <2>1, <1>a
  <2> QED
      BY <2>1, <2>2, <2>3, <1>i
<1>4. CASE ServerClse
  <2>1. /\ toServer # <<>> /\ toServer' = Tail(toServer) /\ m.cmd = "CLSE"
        /\ srv' = [srv EXCEPT ![m.arg1].st = "closed"]
      BY <1>4, <1>m DEF ServerClse, ServerTakes
  <2>2. m.arg1 \in RemoteIds
      BY <2>1, <1>h DEF Sent
  <2>3. m.arg1 # r /\ srv[r].st = "opening"
      BY <2>1, <2>2, <1>s DEF Sockets
  <2>4. S' = S
      BY <2>1, <2>3, <1>a
  <2>5. P' = P
      BY <1>4, <1>m, <1>h, <2>1, <2>2, <1>z DEF ServerClse
  <2> QED
      BY <2>3, <2>4, <2>5, <1>i
<1>5. CASE ServerOpen
  <2>1. toServer # <<>> /\ toServer' = Tail(toServer) /\ m.cmd = "OPEN"
      BY <1>5, <1>m DEF ServerOpen, ServerTakes
  <2>2. S' = S
      BY <2>1, <1>a
  <2>3. CASE Reply(Command("CLSE", 0, m.arg0, 0)) /\ UNCHANGED srv
      BY <2>1, <2>2, <2>3, <1>h, <1>z, <1>i
  <2>4. ASSUME NEW s \in RemoteIds, Reply(Command("OKAY", s, m.arg0, 0)),
               srv' = [srv EXCEPT ![s] = [Idle EXCEPT !.st = "open", !.peer = m.arg0,
                                                      !.credit = TRUE]]
        PROVE  Whereabouts(r)' = 1
    <3>1. srv[r].st = "opening"
        BY <2>4, <1>s DEF Idle
    <3>2. P' = P
        BY <2>1, <2>4, <1>h, <1>z
    <3> QED
        BY <3>1, <3>2, <2>2, <1>i
  <2> QED
      BY <1>m, <2>3, <2>4, <1>5 DEF ServerOpen
<1>6. ASSUME NEW s \in RemoteIds, ClientOpens(s)
      PROVE  Whereabouts(r)' = 1
  <2>1. /\ srv[s].st = "idle" /\ srv' = [srv EXCEPT ![s].st = "opening"]
        /\ Reply(Command("OPEN", s, 0, 0)) /\ toServer' = toServer
      BY <1>6 DEF ClientOpens
  <2>2. Command("OPEN", s, 0, 0) \in Commands(Nat)
      BY Basics, MakeCommand
  <2>3. P' = P + Bit(s = r)
      BY <2>1, <2>2, OpenReplied DEF Command, Bit
  <2>4. CASE s # r
      BY <2>1, <2>3, <2>4, <1>n, <1>s, <1>i DEF Bit
  <2>5. CASE s = r
    <3>1. P = 0
      <4>1. \A i \in 1 .. Len(toProxy) : toProxy[i] \notin OpenOf(r)
          BY <2>1, <2>5 DEF OpenOf, Wiring, Incoming, Received
      <4> QED
          BY <4>1, NumNone
    <3>2. S = 0
      <4>1. \A i \in 1 .. Len(toServer) : toServer[i] \notin AnswerTo(r)
          BY <2>1, <2>5 DEF AnswerTo, Wiring, Outgoing, Sent
      <4> QED
          BY <4>1, NumNone
    <3>3. ~(\E k \in Ids : chan[k].rid = r /\ Pending(k))
        BY <2>1, <2>5, Basics DEF Wiring, Pairs
    <3> QED
        BY <3>1, <3>2, <3>3, <2>1, <2>3, <2>5, <1>e DEF Whereabouts, Bit
  <2> QED
      BY <2>4, <2>5
<1>7. ASSUME NEW s \in RemoteIds, ClientWrites(s) \/ ClientReads(s) \/ ClientCloses(s)
      PROVE  Whereabouts(r)' = 1
  <2>1. srv[s].peer \in {0} \cup Ids /\ srv[s].sent + 1 \in Nat
      BY Basics DEF Sockets
  <2>2. P' = P
      BY <1>7, <2>1, <1>z DEF ClientWrites, ClientReads, ClientCloses
  <2>3. S' = S
      BY <1>7 DEF ClientWrites, ClientReads, ClientCloses
  <2>4. srv[r].st = "opening"
    <3>1. CASE ClientWrites(s)
        BY <3>1, <1>s DEF ClientWrites, Sockets
    <3>2. CASE ClientReads(s)
        BY <3>2, <1>s DEF ClientReads, Sockets
    <3>3. CASE ClientCloses(s)
        BY <3>3, <1>s DEF ClientCloses, Sockets
    <3> QED
        BY <1>7, <3>1, <3>2, <3>3
  <2> QED
      BY <2>2, <2>3, <2>4, <1>i
<1> QED
    BY <1>1, <1>2, <1>3, <1>4, <1>5, <1>6, <1>7 DEF ServerHandles

LEMMA OnceStep ==
    ASSUME TypeOK, TypeOK', Shape, Wiring, Wrote, Once, [Next]_vars
    PROVE  Once'
<1>c. chan \in [Ids -> Channels]
    BY DEF TypeOK
<1>i. ASSUME UNCHANGED <<toProxy, tasks, srv>>,
             conn' = "up" => /\ conn = "up" /\ UNCHANGED toServer
                             /\ \A k \in Ids : /\ chan'[k].rid = chan[k].rid
                                               /\ chan'[k].open = chan[k].open
      PROVE  Once'
  <2> SUFFICES ASSUME conn' = "up", NEW r \in RemoteIds, srv[r].st = "opening"
               PROVE  Whereabouts(r)' = 1
      BY <1>i DEF Once
  <2>1. Whereabouts(r) = 1
      BY <1>i DEF Once
  <2>2. (\E k \in Ids : chan[k].rid = r /\ Pending(k))'
            <=> \E k \in Ids : chan[k].rid = r /\ Pending(k)
      BY <1>i DEF Pending, HasOpen
  <2> QED
      BY <2>1, <2>2, <1>i DEF Whereabouts, Bit
<1>1. CASE UNCHANGED srv /\ RecvSome
    BY <1>1, OnceRecv
<1>2. CASE UNCHANGED srv /\ ReverseAccept
    BY <1>2, OnceReverse
<1>3. CASE UNCHANGED srv /\ (GoStops \/ GoEnds \/ GoInterrupted)
  <2>1. \A k \in Ids : chan'[k].rid = chan[k].rid /\ chan'[k].open = chan[k].open
    <3>1. CASE UNCHANGED chan
        BY <3>1
    <3>2. CASE chan' = [l \in Ids |-> IF l \in streams THEN [chan[l] EXCEPT !.td = "queued"]
                                                       ELSE chan[l]]
        BY <3>2, <1>c DEF Channels
    <3> QED
        BY <1>3, <3>1, <3>2 DEF GoStops, GoEnds, GoInterrupted
  <2>2. UNCHANGED <<toProxy, tasks, toServer>> /\ (conn' = "up" => conn = "up")
      BY <1>3 DEF GoStops, GoEnds, GoInterrupted
  <2> QED
      BY <1>3, <2>1, <2>2, <1>i
<1>4. ASSUME NEW l \in Ids, UNCHANGED srv,
             \/ StartSome(l) \/ WriteDrained(l) \/ OpenSome(l)
             \/ SinkSome(l) \/ CloserResumes(l) \/ TeardownClose(l)
      PROVE  Once'
    BY <1>4, OnceTasks
<1>5. CASE ServerHandles \/ \E r \in RemoteIds :
               ClientOpens(r) \/ ClientWrites(r) \/ ClientReads(r) \/ ClientCloses(r)
    BY <1>5, OnceServer
<1>6. CASE \/ ServerLost \/ UNCHANGED vars
           \/ \E l \in Ids : DeviceProduces(l) \/ DeviceEnds(l)
  <2>1. /\ UNCHANGED <<chan, toProxy, srv, tasks>>
        /\ conn' = "up" => conn = "up" /\ UNCHANGED toServer
      BY <1>6 DEF ServerLost, proxySide, vars, proxyVars, loop, DeviceProduces, DeviceEnds,
                  DeviceKeeps
  <2> QED
      BY <2>1, <1>i
<1> QED
    BY <1>1, <1>2, <1>3, <1>4, <1>5, <1>6
    DEF Next, ProxyNext, ServerNext, DeviceNext

(* Each OPEN of the ADB server that is not answered is in one place, while *)
(* go() reads, open_channel waits or an answer is on its way; only streams *)
(* that were answered write (adb_proxy.py:258-300, 326-361).               *)
THEOREM OnceInvariant == Spec => [](Wrote /\ Once)
<1>1. Init => Wrote /\ Once
    BY WroteInit, OnceInit
<1>2. TypeOK /\ TypeOK' /\ Shape /\ Wiring /\ Wrote /\ Once /\ [Next]_vars => (Wrote /\ Once)'
    BY WroteStep, OnceStep
<1> QED
    BY <1>1, <1>2, SafetyInvariant, WiringInvariant, PTL DEF Spec

(* An OPEN is neither lost nor answered twice: the task that go() creates  *)
(* for it, open_channel, sends one OKAY or one CLSE with local id 0, on    *)
(* each of its paths (adb_proxy.py:283-301, 342).                          *)
THEOREM EachOpenAnsweredOnce == Spec => []OpenAnsweredOnce
<1>1. TypeOK /\ Shape /\ Wiring /\ Once => OpenAnsweredOnce
  <2> SUFFICES ASSUME TypeOK, Shape, Wiring, Once, conn = "up", NEW r \in RemoteIds,
                      srv[r].st = "opening"
               PROVE  1 = Count(toProxy, LAMBDA m : m.cmd = "OPEN" /\ m.arg0 = r)
                          + Count(tasks, LAMBDA t : t.op = "open" /\ chan[t.id].rid = r)
                          + Cardinality({l \in Ids : chan[l].open = "connecting"
                                                     /\ chan[l].rid = r})
                          + Count(toServer, LAMBDA m : /\ m.arg1 = r
                                                       /\ \/ m.cmd = "OKAY"
                                                          \/ m.cmd = "CLSE" /\ m.arg0 = 0)
      BY DEF OpenAnsweredOnce
  <2> DEFINE T == {i \in DOMAIN tasks : tasks[i].op = "open" /\ chan[tasks[i].id].rid = r}
             C == {l \in Ids : chan[l].open = "connecting" /\ chan[l].rid = r}
             E == \E l \in Ids : chan[l].rid = r /\ Pending(l)
  <2>1. Whereabouts(r) = 1
      BY DEF Once
  <2>2. Count(toProxy, LAMBDA m : m.cmd = "OPEN" /\ m.arg0 = r) = Num(toProxy, OpenOf(r))
    <3>1. {i \in DOMAIN toProxy : toProxy[i].cmd = "OPEN" /\ toProxy[i].arg0 = r}
              = Places(toProxy, OpenOf(r))
        BY Basics DEF Places, OpenOf
    <3> QED
        BY <3>1 DEF Count, Num
  <2>3. Count(toServer, LAMBDA m : /\ m.arg1 = r
                                   /\ \/ m.cmd = "OKAY"
                                      \/ m.cmd = "CLSE" /\ m.arg0 = 0)
            = Num(toServer, AnswerTo(r))
    <3>1. {i \in DOMAIN toServer : /\ toServer[i].arg1 = r
                                   /\ \/ toServer[i].cmd = "OKAY"
                                      \/ toServer[i].cmd = "CLSE" /\ toServer[i].arg0 = 0}
              = Places(toServer, AnswerTo(r))
        BY Basics DEF Places, AnswerTo
    <3> QED
        BY <3>1 DEF Count, Num
  <2>4. Count(tasks, LAMBDA t : t.op = "open" /\ chan[t.id].rid = r) = Cardinality(T)
      BY DEF Count
  <2>d. DOMAIN tasks = 1 .. Len(tasks) /\ r # 0
      BY Basics
  <2>u. \A l, k \in Ids : chan[l].rid = r /\ chan[k].rid = r => l = k
      BY <2>d DEF Wiring, Pairs
  <2>5. Cardinality(T) + Cardinality(C) = Bit(E)
    <3>1. CASE ~E
      <4>1. C = {}
          BY <3>1 DEF Pending
      <4>2. T = {}
          BY <3>1, <2>d, Basics DEF Pending, HasOpen
      <4> QED
          BY SMTT(20), <3>1, <4>1, <4>2, FS_EmptySet DEF Bit
    <3>2. ASSUME NEW l \in Ids, chan[l].rid = r, Pending(l)
          PROVE  Cardinality(T) + Cardinality(C) = 1
      <4>1. CASE chan[l].open = "connecting"
        <5>1. C = {l}
            BY <4>1, <3>2, <2>u
        <5>2. ~HasOpen(l)
            BY <4>1, <3>2, PendingNamed
        <5>3. T = {}
            BY <5>2, <3>2, <2>u, <2>d, Basics DEF HasOpen
        <5> HIDE DEF T, C
        <5>4. Cardinality(C) = 1 /\ Cardinality(T) = 0
            BY <5>1, <5>3, FS_EmptySet, FS_Singleton
        <5> QED
            BY <5>4
      <4>2. CASE HasOpen(l)
        <5>1. PICK i \in 1 .. Len(tasks) : tasks[i].op = "open" /\ tasks[i].id = l
            BY <4>2 DEF HasOpen
        <5>2. \A j \in T : tasks[j].id = l /\ tasks[j].op = "open"
            BY <3>2, <2>u, <2>d, Basics
        <5>3. T = {i}
            BY <5>1, <5>2, <3>2, <2>d DEF Shape, FreshOpens
        <5>4. chan[l].open # "connecting"
            BY <4>2, <3>2, PendingNamed
        <5>5. C = {}
            BY <5>4, <3>2, <2>u
        <5> HIDE DEF T, C
        <5>6. Cardinality(T) = 1 /\ Cardinality(C) = 0
            BY <5>3, <5>5, FS_EmptySet, FS_Singleton
        <5> QED
            BY <5>6
      <4> QED
          BY <3>2, <4>1, <4>2 DEF Pending
    <3> QED
        BY <3>1, <3>2 DEF Bit
  <2>6. Cardinality(T) \in Nat /\ Cardinality(C) \in Nat
    <3>1. IsFiniteSet(1 .. Len(tasks)) /\ IsFiniteSet(Ids)
        BY Basics, ProxyAssumption, FS_Interval DEF Ids
    <3>2. T \in SUBSET (1 .. Len(tasks)) /\ C \in SUBSET Ids
        BY <2>d
    <3> QED
        BY <3>1, <3>2, FS_Subset, FS_CardinalityType
  <2>7. Num(toProxy, OpenOf(r)) \in Nat /\ Num(toServer, AnswerTo(r)) \in Nat
      BY PlaceTypes
  <2>8. Num(toProxy, OpenOf(r)) + Bit(E) + Num(toServer, AnswerTo(r)) = 1
      BY <2>1 DEF Whereabouts
  <2> HIDE DEF T, E
  <2> QED
      BY <2>2, <2>3, <2>4, <2>5, <2>6, <2>7, <2>8
<1> QED
    BY <1>1, SafetyInvariant, WiringInvariant, OnceInvariant, PTL

-----------------------------------------------------------------------------
(* The refinement of StreamService.  What a step of a task of l does, as   *)
(* far as a client can tell.                                               *)

Fresh(c) == c.open \in {"none", "connecting"}
Opened(c) == c.open \in {"okSent", "accepted", "ended"}

(* The task sends one of these commands, or nothing.                       *)
Says(cmd, l) ==
    \/ toServer' = toServer
    \/ \E m \in Commands(Ids) :
          m.cmd = cmd /\ (cmd # "CLSE" => m.arg0 = l) /\ toServer' = Append(toServer, m)

Same(l) == chan'[l].drain = chan[l].drain /\ dev'[l].got = dev[l].got

(* The stream goes on, or ends.                                            *)
Goes(l) ==
    /\ l \in streams' => l \in streams
    /\ \/ chan'[l].open \in {chan[l].open, "ended"}
       \/ chan[l].open = "none" /\ chan'[l].open = "connecting"

Keeps(l) == Goes(l) /\ Same(l) /\ Says("CLSE", l)

(* drain() has returned, or raised.                                        *)
Resumes(l) ==
    /\ Goes(l) /\ tasks' = tasks
    /\ chan[l].drain /\ ~chan'[l].drain /\ dev'[l].got = dev[l].got
    /\ Says("OKAY", l)

(* The stream, or the answer to a reverse: request, begins.                *)
Begins(l) ==
    /\ chan[l].open = "connecting" /\ l \notin streams
    /\ \/ chan'[l].open = "okSent" /\ l \in streams'
       \/ chan'[l].open = "okayAnswer" /\ l \notin streams'
    /\ Same(l) /\ tasks' = tasks
    /\ Says("OKAY", l)

Produces(l) ==
    /\ \/ chan[l].sink = "read" /\ l \in streams /\ chan'[l].open = chan[l].open
       \/ chan[l].open = "okayAnswer" /\ chan'[l].open = "dataAnswer"
    /\ Same(l) /\ tasks' = tasks
    /\ l \in streams' <=> l \in streams
    /\ Says("WRTE", l)

WriteTask(l) ==
    /\ tasks # <<>> /\ tasks' = Tail(tasks)
    /\ Head(tasks).op = "write" /\ Head(tasks).id = l

(* A write() to a closed connection is acknowledged.                       *)
Skips(l) ==
    /\ WriteTask(l) /\ Goes(l) /\ Same(l)
    /\ l \notin streams
    /\ Says("OKAY", l)

(* A write() hands the data over; then drain() returns, waits or raises.   *)
Hands(l) ==
    /\ WriteTask(l) /\ Goes(l)
    /\ l \in streams
    /\ dev'[l].got = Head(tasks).data
    /\ \/ chan'[l].drain = chan[l].drain /\ Says("OKAY", l)
       \/ Says("CLSE", l)

LEMMA SaysSend ==
    ASSUME TypeOK, NEW l \in Ids, NEW cmd \in {"OKAY", "WRTE", "CLSE"}, NEW a \in {0, l},
           cmd # "CLSE" => a = l, NEW d \in Nat, Send(Command(cmd, a, chan[l].rid, d))
    PROVE  Says(cmd, l)
<1>1. Command(cmd, a, chan[l].rid, d) \in Commands(Ids)
    BY Basics, MakeCommand
<1>2. Command(cmd, a, chan[l].rid, d).cmd = cmd /\ Command(cmd, a, chan[l].rid, d).arg0 = a
    BY DEF Command
<1> QED
    BY <1>1, <1>2 DEF Says, Send

LEMMA TaskKinds ==
    ASSUME TypeOK, Shape, NEW l \in Ids,
           \/ StartSome(l) \/ WriteDrained(l) \/ OpenSome(l)
           \/ SinkSome(l) \/ CloserResumes(l) \/ TeardownClose(l)
    PROVE  /\ \A k \in Ids : k # l => (k \in streams' <=> k \in streams)
                                      /\ dev'[k].got = dev[k].got
           /\ Keeps(l) \/ Resumes(l) \/ Begins(l) \/ Produces(l) \/ Skips(l) \/ Hands(l)
<1> DEFINE R == \A k \in Ids : k # l => (k \in streams' <=> k \in streams)
                                        /\ dev'[k].got = dev[k].got
<1>c. chan \in [Ids -> Channels] /\ chan[l] \in Channels /\ dev \in [Ids -> Devices]
    BY DEF TypeOK
<1>e. \A ch \in Channels : \A b, who : /\ EnterClose(ch, b, who).open = ch.open
                                       /\ EnterClose(ch, b, who).drain = ch.drain
    BY DEF EnterClose, Channels
<1>z. toServer' = toServer => \A cmd : Says(cmd, l)
    BY DEF Says
<1>s. ShapeOf(l)
    BY DEF Shape
<1>k. SendClse(l) => Says("CLSE", l)
    BY SaysSend DEF SendClse
<1> USE DEF Goes, Same
<1>r. ASSUME UNCHANGED dev, streams' \in {streams, streams \ {l}}
      PROVE  R /\ (l \in streams' => l \in streams) /\ dev'[l].got = dev[l].got
    BY <1>r
<1>1. CASE StartOpen(l)
  <2>1. tasks[1] = Head(tasks) /\ 1 \in 1 .. Len(tasks)
      BY <1>1, Basics, TailType DEF StartOpen, Start
  <2>2. chan[l].open = "none"
      BY <1>1, <2>1 DEF StartOpen, Start, Shape, FreshOpens
  <2>3. chan'[l].open = "connecting" /\ chan'[l].drain = chan[l].drain
      BY <1>1, <1>c DEF StartOpen, Channels
  <2> QED
      BY <1>1, <1>r, <1>z, <2>2, <2>3 DEF StartOpen, Keeps
<1>2. CASE StartReady(l)
  <2>1. chan'[l].open = chan[l].open /\ chan'[l].drain = chan[l].drain
      BY <1>2, <1>c DEF StartReady, Channels
  <2> QED
      BY <1>2, <1>r, <1>z, <2>1 DEF StartReady, Keeps
<1>3. CASE StartClose(l)
  <2>1. chan'[l].open = chan[l].open /\ chan'[l].drain = chan[l].drain
      BY <1>3, <1>c, <1>e DEF StartClose
  <2> QED
      BY <1>3, <1>r, <1>z, <2>1 DEF StartClose, Keeps
<1>4. ASSUME NEW c \in Channels, WriteRaises(l, c), c.open = chan[l].open
      PROVE  /\ streams' = streams \ {l} /\ toServer' = toServer
             /\ chan'[l].open = chan[l].open /\ chan'[l].drain = c.drain
    BY <1>4, <1>c, <1>e DEF WriteRaises
<1>5. CASE StartWrite(l)
  <2>1. WriteTask(l)
      BY <1>5 DEF StartWrite, Start, WriteTask
  <2>2. CASE Writable(l)
    <3>1. l \in streams
        BY <2>2, <1>s DEF Writable, ShapeOf
    <3>2. /\ dev'[l].got = Head(tasks).data
          /\ \A k \in Ids : k # l => dev'[k].got = dev[k].got
        BY <1>5, <2>2, <1>c DEF StartWrite, HandOver, Devices
    <3>3. CASE WriteAcks(l) /\ UNCHANGED chan
      <4>1. Says("OKAY", l)
          BY <3>3, SaysSend DEF WriteAcks
      <4> QED
          BY <2>1, <3>1, <3>2, <3>3, <4>1 DEF WriteAcks, Hands
    <3>4. CASE chan' = [chan EXCEPT ![l].drain = TRUE] /\ UNCHANGED <<streams, toServer>>
      <4>1. chan'[l].open = chan[l].open
          BY <3>4, <1>c DEF Channels
      <4> QED
          BY <2>1, <3>1, <3>2, <3>4, <4>1, <1>z DEF Hands
    <3>5. CASE WriteRaises(l, chan[l])
      <4>1. streams' = streams \ {l} /\ toServer' = toServer /\ chan'[l].open = chan[l].open
          BY <3>5, <1>4, <1>c
      <4> QED
          BY <2>1, <3>1, <3>2, <4>1, <1>z DEF Hands
    <3> QED
        BY <1>5, <3>3, <3>4, <3>5 DEF StartWrite
  <2>3. CASE ~Writable(l)
    <3>1. UNCHANGED dev
        BY <1>5, <2>3 DEF StartWrite, HandOver
    <3>2. CASE WriteAcks(l) /\ UNCHANGED chan
      <4>1. Says("OKAY", l) /\ UNCHANGED streams
          BY <3>2, SaysSend DEF WriteAcks
      <4>2. l \notin streams
          BY <2>3, <3>2, <1>s DEF WriteAcks, ShapeOf
      <4> QED
          BY <2>1, <3>1, <3>2, <4>1, <4>2 DEF Skips
    <3>3. CASE WriteRaises(l, chan[l])
      <4>1. /\ streams' = streams \ {l} /\ toServer' = toServer
            /\ chan'[l].open = chan[l].open /\ chan'[l].drain = chan[l].drain
          BY <3>3, <1>4, <1>c
      <4> QED
          BY <2>1, <3>1, <4>1, <1>r, <1>z DEF Keeps
    <3> QED
        BY <1>5, <2>3, <3>2, <3>3 DEF StartWrite
  <2> QED
      BY <2>2, <2>3
<1>6. CASE WriteDrained(l)
  <2> DEFINE c == [chan[l] EXCEPT !.drain = FALSE]
  <2>0. c \in Channels /\ c.open = chan[l].open /\ ~c.drain
      BY <1>c, DrainType DEF Channels
  <2>1. chan[l].drain /\ UNCHANGED <<tasks, dev>>
      BY <1>6 DEF WriteDrained
  <2>2. CASE WriteAcks(l) /\ chan' = [chan EXCEPT ![l].drain = FALSE]
    <3>1. chan'[l] = c
        BY <2>2, <1>c
    <3>2. Says("OKAY", l) /\ UNCHANGED streams
        BY <2>2, SaysSend DEF WriteAcks
    <3> QED
        BY <2>0, <2>1, <3>1, <3>2 DEF Resumes
  <2>3. CASE WriteRaises(l, c)
    <3>1. /\ streams' = streams \ {l} /\ toServer' = toServer
          /\ chan'[l].open = chan[l].open /\ ~chan'[l].drain
        BY <2>0, <2>3, <1>4
    <3> QED
        BY <2>1, <3>1, <1>r, <1>z DEF Resumes
  <2> QED
      BY <1>6, <2>2, <2>3 DEF WriteDrained
<1>7. CASE OpenSucceeds(l)
  <2>1. chan[l].open = "connecting" /\ l \notin streams /\ tasks' = tasks
      BY <1>7, <1>s DEF OpenSucceeds, ShapeOf
  <2>2. chan'[l].open = "okSent" /\ chan'[l].drain = chan[l].drain /\ streams' = streams \cup {l}
      BY <1>7, <1>c DEF OpenSucceeds, Register, Channels
  <2>3. \A k \in Ids : dev'[k].got = dev[k].got
      BY <1>7, <1>c DEF OpenSucceeds, Register, Devices
  <2>4. Says("OKAY", l)
      BY <1>7, SaysSend DEF OpenSucceeds
  <2> QED
      BY <2>1, <2>2, <2>3, <2>4 DEF Begins
<1>8. CASE OpenReady(l) \/ OpenUnannounced(l)
  <2>1. chan'[l].open = "ended" /\ chan'[l].drain = chan[l].drain
      BY <1>8, <1>c DEF OpenReady, OpenUnannounced, FirstPermit, Channels
  <2> QED
      BY <1>8, <2>1, <1>r, <1>z DEF OpenReady, OpenUnannounced, Keeps
<1>9. CASE OpenFails(l) \/ AnswerRaises(l)
  <2>1. chan'[l].open = "ended" /\ chan'[l].drain = chan[l].drain
      BY <1>9, <1>c DEF OpenFails, AnswerRaises, Channels
  <2>2. Says("CLSE", l)
      BY <1>9, SaysSend DEF OpenFails, AnswerRaises, ReportsFailure
  <2> QED
      BY <1>9, <2>1, <2>2, <1>r DEF OpenFails, AnswerRaises, Keeps
<1>10. CASE AnswerBegins(l)
  <2>1. chan[l].open = "connecting" /\ l \notin streams /\ UNCHANGED <<tasks, streams, dev>>
      BY <1>10, <1>s DEF AnswerBegins, ShapeOf
  <2>2. chan'[l].open = "okayAnswer" /\ chan'[l].drain = chan[l].drain
      BY <1>10, <1>c DEF AnswerBegins, Channels
  <2>3. Says("OKAY", l)
      BY <1>10, SaysSend DEF AnswerBegins
  <2> QED
      BY <2>1, <2>2, <2>3 DEF Begins
<1>11. CASE AnswerData(l)
  <2>1. chan[l].open = "okayAnswer" /\ UNCHANGED <<tasks, streams, dev>>
      BY <1>11 DEF AnswerData
  <2>2. chan'[l].open = "dataAnswer" /\ chan'[l].drain = chan[l].drain
      BY <1>11, <1>c DEF AnswerData, Channels
  <2>3. Says("WRTE", l)
      BY <1>11, SaysSend DEF AnswerData
  <2> QED
      BY <2>1, <2>2, <2>3 DEF Produces
<1>12. CASE AnswerEnds(l)
  <2>1. chan'[l].open = "ended" /\ chan'[l].drain = chan[l].drain
      BY <1>12, <1>c DEF AnswerEnds, Channels
  <2> QED
      BY <1>12, <2>1, <1>r, <1>k DEF AnswerEnds, Keeps
<1>13. CASE SinkAcquire(l)
  <2>1. chan'[l].open = chan[l].open /\ chan'[l].drain = chan[l].drain
      BY <1>13, <1>c DEF SinkAcquire, Channels
  <2> QED
      BY <1>13, <2>1, <1>r, <1>z DEF SinkAcquire, Keeps
<1>14. CASE SinkReads(l)
  <2>1. chan[l].sink = "read" /\ l \in streams /\ UNCHANGED <<tasks, streams>>
      BY <1>14, <1>s DEF SinkReads, ShapeOf
  <2>2. chan'[l].open = chan[l].open /\ chan'[l].drain = chan[l].drain
      BY <1>14, <1>c DEF SinkReads, Channels
  <2>3. \A k \in Ids : dev'[k].got = dev[k].got
      BY <1>14, <1>c DEF SinkReads, Devices
  <2>4. PICK d \in Nat : Send(Command("WRTE", l, chan[l].rid, d))
      BY <1>14 DEF SinkReads, TypeOK
  <2>5. Says("WRTE", l)
      BY <2>4, SaysSend
  <2> QED
      BY <2>1, <2>2, <2>3, <2>5 DEF Produces
<1>15. CASE SinkEnds(l) \/ SinkCancelled(l)
  <2>1. SinkCloses(l) /\ UNCHANGED <<tasks, dev>>
      BY <1>15 DEF SinkEnds, SinkSendRaises, SinkCancelled
  <2>2. chan'[l].open = chan[l].open /\ chan'[l].drain = chan[l].drain
      BY <2>1, <1>c DEF SinkCloses, Channels
  <2>3. Says("CLSE", l)
      BY <2>1, <1>k, <1>z DEF SinkCloses
  <2> QED
      BY <2>1, <2>2, <2>3, <1>r DEF SinkCloses, Keeps
<1>16. CASE CloserResumes(l)
  <2>1. chan'[l].open = chan[l].open /\ chan'[l].drain = chan[l].drain
      BY <1>16, <1>c DEF CloserResumes, Channels
  <2>2. Says("CLSE", l)
      BY <1>16, <1>k, <1>z DEF CloserResumes
  <2> QED
      BY <1>16, <2>1, <2>2, <1>r DEF CloserResumes, Keeps
<1>17. CASE TeardownClose(l)
  <2> DEFINE c == EnterClose(chan[l], l \in streams, "teardown")
  <2>1. c \in Channels /\ c.open = chan[l].open /\ c.drain = chan[l].drain
      BY <1>c, <1>e, EnterCloseType
  <2>2. chan' = [chan EXCEPT ![l] = [c EXCEPT !.td = TeardownWaits(l)]]
      BY <1>17 DEF TeardownClose
  <2> HIDE DEF c
  <2>3. chan'[l].open = chan[l].open /\ chan'[l].drain = chan[l].drain
      BY <2>1, <2>2, <1>c DEF Channels
  <2> QED
      BY <1>17, <2>3, <1>r, <1>z DEF TeardownClose, Keeps
<1> QED
    BY <1>1, <1>2, <1>3, <1>5, <1>6, <1>7, <1>8, <1>9, <1>10, <1>11, <1>12, <1>13, <1>14,
       <1>15, <1>16, <1>17
    DEF StartSome, OpenSome, AnswerGoesOn, SinkSome

-----------------------------------------------------------------------------
(* One write of the client at most is between its socket and the device.   *)

Written(l) == SocketOf(l).sent

HasSocket(l) == \E r \in RemoteIds : srv[r].peer = l

(* Nobody will hand a write to the device any more.                        *)
Past(l) == l \notin streams /\ Opened(chan[l])

WritesFor(l) == {t \in Tasks : t.op = "write" /\ t.id = l}
WrteTo(l) == {m \in Commands(Nat) : m.cmd = "WRTE" /\ m.arg1 = l}
OkayBy(l) == {m \in Commands(Ids) : m.cmd \in {"OKAY", "OPEN"} /\ m.arg0 = l}

(* Those that carry another write than n.                                  *)
TasksBut(l, n) == {t \in WritesFor(l) : t.data # n}
WrtesBut(l, n) == {m \in WrteTo(l) : m.data # n}

(* The right to write, a write on its way, or its acknowledgement.         *)
Turns(l) ==
    Bit(SocketOf(l).credit) + Num(toProxy, WrteTo(l)) + Num(tasks, WritesFor(l))
    + Bit(chan[l].drain) + Num(toServer, OkayBy(l))

(* A write on its way is the last that the socket sent, and the next that  *)
(* the device gets.                                                        *)
Comes(l) == Written(l) # 0 /\ (l \in streams => dev[l].got + 1 = Written(l))

Turn(l) ==
    /\ Turns(l) <= 1
    /\ Fresh(chan[l]) => Turns(l) = 0 /\ dev[l].got = 0 /\ ~HasSocket(l)
    /\ Num(toProxy, WrtesBut(l, Written(l))) = 0
    /\ Num(tasks, TasksBut(l, Written(l))) = 0
    /\ Num(toProxy, WrteTo(l)) # 0 => Comes(l)
    /\ Num(tasks, WritesFor(l)) # 0 => Comes(l) /\ Opened(chan[l])
    /\ chan[l].drain => dev[l].got = Written(l)
    /\ Num(toServer, OkayBy(l)) # 0 \/ SocketOf(l).credit =>
           Past(l) \/ dev[l].got = Written(l)

(* A socket without a peer has not written, and may not.                   *)
Blank == \A r \in RemoteIds : srv[r].peer = 0 => srv[r].sent = 0 /\ ~srv[r].credit

Delivery == Blank /\ \A l \in Ids : Turn(l)

LEMMA NumChange ==
    ASSUME NEW T, NEW q \in Seq(T), NEW p, NEW S,
           \/ p = q \/ p = <<>> \/ (q # <<>> /\ p = Tail(q))
           \/ \E e \in T : e \notin S /\ p = Append(q, e)
    PROVE  Num(p, S) <= Num(q, S) /\ Num(p, S) \in Nat /\ Num(q, S) \in Nat
<1>1. Num(q, S) \in Nat
    BY PlacesFinite
<1>2. CASE p = q
    BY <1>1, <1>2
<1>3. CASE p = <<>>
  <2>1. Num(p, S) = 0
      BY <1>3, NumNone
  <2> QED
      BY <1>1, <2>1
<1>4. CASE q # <<>> /\ p = Tail(q)
  <2>1. Num(q, S) = Num(p, S) + (IF Head(q) \in S THEN 1 ELSE 0)
      BY <1>4, NumTail
  <2>2. Num(p, S) \in Nat
      BY <1>4, TailType, PlacesFinite
  <2> QED
      BY <1>1, <2>1, <2>2
<1>5. ASSUME NEW e \in T, e \notin S, p = Append(q, e)
      PROVE  Num(p, S) <= Num(q, S) /\ Num(p, S) \in Nat
    BY <1>1, <1>5, NumAppend
<1> QED
    BY <1>1, <1>2, <1>3, <1>4, <1>5

LEMMA NumZero ==
    ASSUME NEW T, NEW q \in Seq(T), NEW S, NEW i \in 1 .. Len(q), q[i] \in S
    PROVE  Num(q, S) # 0
<1>1. i \in Places(q, S) /\ IsFiniteSet(Places(q, S))
    BY PlacesFinite DEF Places
<1> QED
    BY <1>1, FS_EmptySet DEF Num

LEMMA NumSome ==
    ASSUME NEW q, NEW S, Num(q, S) # 0
    PROVE  \E i \in 1 .. Len(q) : q[i] \in S
    BY NumNone


LEMMA NumHead ==
    ASSUME NEW T, NEW q \in Seq(T), q # <<>>, NEW S, Num(q, S) = 0
    PROVE  Head(q) \notin S
<1>1. Head(q) = q[1] /\ 1 \in 1 .. Len(q)
    BY TailType
<1> QED
    BY <1>1, NumZero

LEMMA TurnTypes ==
    ASSUME TypeOK, NEW l \in Ids, NEW n
    PROVE  /\ Num(toProxy, WrteTo(l)) \in Nat /\ Num(toProxy, WrtesBut(l, n)) \in Nat
           /\ Num(tasks, WritesFor(l)) \in Nat /\ Num(tasks, TasksBut(l, n)) \in Nat
           /\ Num(toServer, OkayBy(l)) \in Nat
           /\ Bit(SocketOf(l).credit) \in Nat /\ Bit(chan[l].drain) \in Nat
           /\ Turns(l) \in Nat
<1>1. /\ Num(toProxy, WrteTo(l)) \in Nat /\ Num(toProxy, WrtesBut(l, n)) \in Nat
      /\ Num(tasks, WritesFor(l)) \in Nat /\ Num(tasks, TasksBut(l, n)) \in Nat
      /\ Num(toServer, OkayBy(l)) \in Nat
    BY Basics, PlacesFinite
<1>2. Bit(SocketOf(l).credit) \in Nat /\ Bit(chan[l].drain) \in Nat
    BY DEF Bit
<1> QED
    BY <1>1, <1>2 DEF Turns

LEMMA TurnTypesNext ==
    ASSUME TypeOK', NEW l \in Ids, NEW n
    PROVE  /\ Num(toProxy', WrteTo(l)) \in Nat /\ Num(toProxy', WrtesBut(l, n)) \in Nat
           /\ Num(tasks', WritesFor(l)) \in Nat /\ Num(tasks', TasksBut(l, n)) \in Nat
           /\ Num(toServer', OkayBy(l)) \in Nat
           /\ Bit(SocketOf(l)'.credit) \in Nat /\ Bit(chan'[l].drain) \in Nat
           /\ Turns(l)' \in Nat
<1>1. /\ Num(toProxy', WrteTo(l)) \in Nat /\ Num(toProxy', WrtesBut(l, n)) \in Nat
      /\ Num(tasks', WritesFor(l)) \in Nat /\ Num(tasks', TasksBut(l, n)) \in Nat
      /\ Num(toServer', OkayBy(l)) \in Nat
  <2>1. /\ tasks' \in Seq(Tasks) /\ toProxy' \in Seq(Commands(Nat))
        /\ toServer' \in Seq(Commands(Ids))
      BY DEF TypeOK
  <2> QED
      BY <2>1, PlacesFinite
<1>2. Bit(SocketOf(l)'.credit) \in Nat /\ Bit(chan'[l].drain) \in Nat
    BY DEF Bit
<1> QED
    BY <1>1, <1>2 DEF Turns

-----------------------------------------------------------------------------
(* The socket of a stream, before and after a step.                        *)
LEMMA SocketIs ==
    ASSUME TypeOK, Wiring, NEW l \in Ids
    PROVE  /\ \A r \in RemoteIds : srv[r].peer = l => SocketOf(l) = srv[r]
           /\ (\A r \in RemoteIds : srv[r].peer # l) => SocketOf(l) = Idle
<1>1. ASSUME NEW r \in RemoteIds, srv[r].peer = l
      PROVE  SocketOf(l) = srv[r]
  <2>1. \A s \in RemoteIds : srv[s].peer = l => s = r
      BY <1>1, Basics DEF Wiring, Pairs
  <2>2. (CHOOSE s \in RemoteIds : srv[s].peer = l) = r
      BY <1>1, <2>1
  <2> QED
      BY <1>1, <2>2 DEF SocketOf
<1> QED
    BY <1>1 DEF SocketOf

LEMMA SocketIsNext ==
    ASSUME TypeOK', Wiring', NEW l \in Ids
    PROVE  /\ \A r \in RemoteIds : srv'[r].peer = l => SocketOf(l)' = srv'[r]
           /\ (\A r \in RemoteIds : srv'[r].peer # l) => SocketOf(l)' = Idle
<1>0. l # 0
    BY ProxyAssumption DEF Ids
<1>1. ASSUME NEW r \in RemoteIds, srv'[r].peer = l
      PROVE  SocketOf(l)' = srv'[r]
  <2>1. \A s \in RemoteIds : srv'[s].peer = l => s = r
      BY <1>0, <1>1 DEF Wiring, Pairs
  <2>2. (CHOOSE s \in RemoteIds : srv'[s].peer = l) = r
      BY <1>1, <2>1
  <2> QED
      BY <1>1, <2>2 DEF SocketOf
<1> QED
    BY <1>1 DEF SocketOf

(* A socket stays, is made, or there is none.                              *)
LEMMA SocketCases ==
    ASSUME TypeOK, TypeOK', Shape, Wiring, Wiring', [Next]_vars, NEW l \in Ids
    PROVE  \/ \E r \in RemoteIds : /\ srv[r].peer = l /\ srv'[r].peer = l
                                   /\ SocketOf(l) = srv[r] /\ SocketOf(l)' = srv'[r]
           \/ /\ ~HasSocket(l) /\ ~HasSocket(l)'
              /\ SocketOf(l) = Idle /\ SocketOf(l)' = Idle
           \/ /\ ~HasSocket(l)
              /\ SocketOf(l) = Idle
              /\ \E r \in RemoteIds : /\ srv[r].peer = 0 /\ srv'[r].peer = l
                                      /\ SocketOf(l)' = srv'[r]
<1>0. l # 0
    BY Basics
<1>1. ASSUME NEW r \in RemoteIds, srv[r].peer = l
      PROVE  \E s \in RemoteIds : /\ srv[s].peer = l /\ srv'[s].peer = l
                                  /\ SocketOf(l) = srv[s] /\ SocketOf(l)' = srv'[s]
  <2>1. srv'[r].peer = l
      BY <1>0, <1>1, PeersForEver
  <2> QED
      BY <1>1, <2>1, SocketIs, SocketIsNext
<1>2. ASSUME \A r \in RemoteIds : srv[r].peer # l,
             NEW r \in RemoteIds, srv'[r].peer = l
      PROVE  srv[r].peer = 0 /\ SocketOf(l)' = srv'[r]
    BY <1>2, PeersForEver, SocketIsNext
<1>3. (\A r \in RemoteIds : srv[r].peer # l) => SocketOf(l) = Idle /\ ~HasSocket(l)
    BY SocketIs DEF HasSocket
<1>4. (\A r \in RemoteIds : srv'[r].peer # l) => SocketOf(l)' = Idle /\ ~HasSocket(l)'
    BY SocketIsNext DEF HasSocket
<1> QED
    BY <1>1, <1>2, <1>3, <1>4

(* Steps that make no peer and leave what was written.                     *)
SocketsKept ==
    \A r \in RemoteIds : /\ srv'[r].peer = srv[r].peer /\ srv'[r].sent = srv[r].sent
                         /\ srv'[r].credit = srv[r].credit

LEMMA SocketStays ==
    ASSUME TypeOK, TypeOK', Shape, Wiring, Wiring', [Next]_vars, SocketsKept, NEW l \in Ids
    PROVE  /\ SocketOf(l)'.sent = SocketOf(l).sent
           /\ SocketOf(l)'.credit = SocketOf(l).credit
           /\ HasSocket(l)' <=> HasSocket(l)
<1>1. HasSocket(l)' <=> HasSocket(l)
    BY DEF HasSocket, SocketsKept
<1>2. ~(\E r \in RemoteIds : srv[r].peer = 0 /\ srv'[r].peer = l)
    BY Basics DEF SocketsKept
<1> QED
    BY <1>1, <1>2, SocketCases DEF SocketsKept

-----------------------------------------------------------------------------
(* Steps that give l no turn.                                              *)
TasksKeep(l) ==
    \/ tasks' = tasks \/ (tasks # <<>> /\ tasks' = Tail(tasks))
    \/ \E t \in Tasks : (t.op # "write" \/ t.id # l) /\ tasks' = Append(tasks, t)

ToProxyKeeps(l) ==
    \/ toProxy' = toProxy \/ (toProxy # <<>> /\ toProxy' = Tail(toProxy))
    \/ \E m \in Commands(Nat) : (m.cmd # "WRTE" \/ m.arg1 # l) /\ toProxy' = Append(toProxy, m)

ToServerKeeps(l) ==
    \/ toServer' = toServer \/ toServer' = <<>>
    \/ toServer # <<>> /\ toServer' = Tail(toServer)
    \/ \E m \in Commands(Ids) :
          (m.cmd \notin {"OKAY", "OPEN"} \/ m.arg0 # l) /\ toServer' = Append(toServer, m)

LEMMA TasksKept ==
    ASSUME TypeOK, NEW l \in Ids, TasksKeep(l), NEW n
    PROVE  /\ Num(tasks', WritesFor(l)) <= Num(tasks, WritesFor(l))
           /\ Num(tasks', TasksBut(l, n)) <= Num(tasks, TasksBut(l, n))
           /\ Num(tasks', WritesFor(l)) \in Nat /\ Num(tasks', TasksBut(l, n)) \in Nat
<1>0. tasks \in Seq(Tasks)
    BY Basics
<1>1. \A S : S \in {WritesFor(l), TasksBut(l, n)} =>
          \/ tasks' = tasks \/ tasks' = <<>> \/ (tasks # <<>> /\ tasks' = Tail(tasks))
          \/ \E t \in Tasks : t \notin S /\ tasks' = Append(tasks, t)
    BY DEF TasksKeep, TasksBut, WritesFor
<1> QED
    BY <1>0, <1>1, NumChange

LEMMA ToProxyKept ==
    ASSUME TypeOK, NEW l \in Ids, ToProxyKeeps(l), NEW n
    PROVE  /\ Num(toProxy', WrteTo(l)) <= Num(toProxy, WrteTo(l))
           /\ Num(toProxy', WrtesBut(l, n)) <= Num(toProxy, WrtesBut(l, n))
           /\ Num(toProxy', WrteTo(l)) \in Nat /\ Num(toProxy', WrtesBut(l, n)) \in Nat
<1>0. toProxy \in Seq(Commands(Nat))
    BY Basics
<1>1. \A S : S \in {WrteTo(l), WrtesBut(l, n)} =>
          \/ toProxy' = toProxy \/ toProxy' = <<>>
          \/ toProxy # <<>> /\ toProxy' = Tail(toProxy)
          \/ \E m \in Commands(Nat) : m \notin S /\ toProxy' = Append(toProxy, m)
    BY DEF ToProxyKeeps, WrtesBut, WrteTo
<1> QED
    BY <1>0, <1>1, NumChange

LEMMA ToServerKept ==
    ASSUME TypeOK, NEW l \in Ids, ToServerKeeps(l)
    PROVE  /\ Num(toServer', OkayBy(l)) <= Num(toServer, OkayBy(l))
           /\ Num(toServer', OkayBy(l)) \in Nat
<1>0. toServer \in Seq(Commands(Ids))
    BY Basics
<1>1. \/ toServer' = toServer \/ toServer' = <<>>
      \/ toServer # <<>> /\ toServer' = Tail(toServer)
      \/ \E m \in Commands(Ids) : m \notin OkayBy(l) /\ toServer' = Append(toServer, m)
    BY DEF ToServerKeeps, OkayBy
<1> QED
    BY <1>0, <1>1, NumChange

LEMMA TurnKept ==
    ASSUME TypeOK, TypeOK', NEW l \in Ids, Turn(l),
           TasksKeep(l), ToProxyKeeps(l), ToServerKeeps(l),
           Written(l)' = Written(l), SocketOf(l)'.credit => SocketOf(l).credit,
           HasSocket(l)' => HasSocket(l),
           dev'[l].got = dev[l].got, chan'[l].drain => chan[l].drain,
           l \in streams' => l \in streams,
           Fresh(chan'[l]) => Fresh(chan[l]), Opened(chan[l]) => Opened(chan'[l])
    PROVE  Turn(l)'
<1> DEFINE w == Written(l)
<1> DEFINE P == Num(toProxy, WrteTo(l))
<1> DEFINE T == Num(tasks, WritesFor(l))
<1> DEFINE S == Num(toServer, OkayBy(l))
<1>1. /\ P' <= P /\ Num(toProxy', WrtesBut(l, w)) <= Num(toProxy, WrtesBut(l, w))
      /\ P' \in Nat /\ P \in Nat
      /\ Num(toProxy', WrtesBut(l, w)) \in Nat /\ Num(toProxy, WrtesBut(l, w)) \in Nat
    BY ToProxyKept, TurnTypes
<1>2. /\ T' <= T /\ Num(tasks', TasksBut(l, w)) <= Num(tasks, TasksBut(l, w))
      /\ T' \in Nat /\ T \in Nat
      /\ Num(tasks', TasksBut(l, w)) \in Nat /\ Num(tasks, TasksBut(l, w)) \in Nat
    BY TasksKept, TurnTypes
<1>3. S' <= S /\ S' \in Nat /\ S \in Nat
    BY ToServerKept, TurnTypes
<1>4. Num(toProxy', WrtesBut(l, w)) = 0 /\ Num(tasks', TasksBut(l, w)) = 0
    BY <1>1, <1>2 DEF Turn
<1>5. Turns(l)' <= Turns(l) /\ Turns(l) \in Nat /\ Turns(l)' \in Nat
  <2>1. Bit(SocketOf(l)'.credit) <= Bit(SocketOf(l).credit)
        /\ Bit(chan'[l].drain) <= Bit(chan[l].drain)
      BY DEF Bit
  <2>2. /\ Bit(SocketOf(l).credit) \in Nat /\ Bit(chan[l].drain) \in Nat
        /\ Bit(SocketOf(l)'.credit) \in Nat /\ Bit(chan'[l].drain) \in Nat
      BY DEF Bit
  <2> HIDE DEF P, T, S
  <2>3. /\ Turns(l) = Bit(SocketOf(l).credit) + P + T + Bit(chan[l].drain) + S
        /\ Turns(l)' = Bit(SocketOf(l)'.credit) + P' + T' + Bit(chan'[l].drain) + S'
      BY DEF Turns, P, T, S
  <2> QED
      BY <1>1, <1>2, <1>3, <2>1, <2>2, <2>3
<1>6. Turns(l)' <= 1 /\ (Fresh(chan'[l]) => Turns(l)' = 0 /\ dev'[l].got = 0 /\ ~HasSocket(l)')
    BY <1>5 DEF Turn
<1>7. P' # 0 => P # 0
    BY <1>1
<1>8. T' # 0 => T # 0
    BY <1>2
<1>9. S' # 0 => S # 0
    BY <1>3
<1>10. Comes(l) => Comes(l)'
    BY DEF Comes
<1>11. Past(l) => Past(l)'
    BY DEF Past
<1> HIDE DEF P, T, S
<1>12. /\ P' # 0 => Comes(l)'
       /\ T' # 0 => Comes(l)' /\ Opened(chan'[l])
       /\ S' # 0 \/ SocketOf(l)'.credit => Past(l)' \/ dev'[l].got = w
       /\ chan'[l].drain => dev'[l].got = w
    BY <1>7, <1>8, <1>9, <1>10, <1>11 DEF Turn, P, T, S
<1> QED
    BY <1>4, <1>6, <1>12 DEF Turn, P, T, S
(* A turn that has left the queues towards the device.                     *)
LEMMA TurnPassed ==
    ASSUME TypeOK', NEW l \in Ids, Turns(l)' <= 1, ~Fresh(chan'[l]),
           Num(toProxy', WrteTo(l)) = 0, Num(tasks', WritesFor(l)) = 0,
           chan'[l].drain => dev'[l].got = Written(l)',
           Num(toServer', OkayBy(l)) # 0 \/ SocketOf(l)'.credit =>
               Past(l)' \/ dev'[l].got = Written(l)'
    PROVE  Turn(l)'
<1>0. /\ tasks' \in Seq(Tasks) /\ toProxy' \in Seq(Commands(Nat))
    BY DEF TypeOK
<1>1. \A n : Num(toProxy', WrtesBut(l, n)) = 0
  <2> TAKE n
  <2>1. WrtesBut(l, n) \in SUBSET WrteTo(l)
      BY DEF WrtesBut
  <2>2. Num(toProxy', WrtesBut(l, n)) <= Num(toProxy', WrteTo(l))
      BY <1>0, <2>1, NumIncluded
  <2> QED
      BY <2>2, TurnTypesNext
<1>2. \A n : Num(tasks', TasksBut(l, n)) = 0
  <2> TAKE n
  <2>1. TasksBut(l, n) \in SUBSET WritesFor(l)
      BY DEF TasksBut
  <2>2. Num(tasks', TasksBut(l, n)) <= Num(tasks', WritesFor(l))
      BY <1>0, <2>1, NumIncluded
  <2> QED
      BY <2>2, TurnTypesNext
<1> QED
    BY <1>1, <1>2 DEF Turn

LEMMA SaysCounts ==
    ASSUME TypeOK, NEW l \in Ids, NEW cmd, Says(cmd, l)
    PROVE  /\ Num(toServer', OkayBy(l)) <= Num(toServer, OkayBy(l)) + 1
           /\ cmd # "OKAY" /\ cmd # "OPEN" =>
                  Num(toServer', OkayBy(l)) <= Num(toServer, OkayBy(l))
           /\ \A k \in Ids : cmd \in {"OKAY", "WRTE", "CLSE"} /\ k # l => ToServerKeeps(k)
           /\ cmd \in {"WRTE", "CLSE"} => ToServerKeeps(l)
<1> DEFINE S == Num(toServer, OkayBy(l))
<1>0. toServer \in Seq(Commands(Ids)) /\ S \in Nat
    BY Basics, TurnTypes
<1>1. CASE toServer' = toServer
    BY <1>0, <1>1 DEF ToServerKeeps
<1>2. ASSUME NEW m \in Commands(Ids), m.cmd = cmd, cmd # "CLSE" => m.arg0 = l,
             toServer' = Append(toServer, m)
      PROVE  /\ S' <= S + 1
             /\ cmd # "OKAY" /\ cmd # "OPEN" => S' <= S
             /\ \A k \in Ids : cmd \in {"OKAY", "WRTE", "CLSE"} /\ k # l => ToServerKeeps(k)
             /\ cmd \in {"WRTE", "CLSE"} => ToServerKeeps(l)
  <2>1. S' = S + (IF m \in OkayBy(l) THEN 1 ELSE 0)
      BY <1>0, <1>2, NumAppend
  <2>2. m \in OkayBy(l) => cmd \in {"OKAY", "OPEN"}
      BY <1>2 DEF OkayBy
  <2>3. \A k \in Ids : cmd \in {"OKAY", "WRTE", "CLSE"} /\ k # l => ToServerKeeps(k)
      BY <1>2 DEF ToServerKeeps
  <2>4. cmd \in {"WRTE", "CLSE"} => ToServerKeeps(l)
      BY <1>2 DEF ToServerKeeps
  <2> QED
      BY <1>0, <2>1, <2>2, <2>3, <2>4
<1> QED
    BY <1>1, <1>2 DEF Says

(* Of five numbers with the sum one at most, one is not zero at most.      *)
LEMMA OneOfFive ==
    ASSUME NEW c \in Nat, NEW p \in Nat, NEW t \in Nat, NEW d \in Nat, NEW s \in Nat,
           c + p + t + d + s <= 1
    PROVE  /\ c # 0 => p = 0 /\ t = 0 /\ d = 0 /\ s = 0
           /\ p # 0 => c = 0 /\ t = 0 /\ d = 0 /\ s = 0
           /\ t # 0 => c = 0 /\ p = 0 /\ d = 0 /\ s = 0 /\ t = 1
           /\ d # 0 => c = 0 /\ p = 0 /\ t = 0 /\ s = 0
           /\ s # 0 => c = 0 /\ p = 0 /\ t = 0 /\ d = 0
    OBVIOUS

(* The turn of l when one of its tasks goes on.                            *)
LEMMA TurnTask ==
    ASSUME TypeOK, TypeOK', Shape, Wiring, NEW l \in Ids, Turn(l), UNCHANGED srv,
           \/ StartSome(l) \/ WriteDrained(l) \/ OpenSome(l)
           \/ SinkSome(l) \/ CloserResumes(l) \/ TeardownClose(l)
    PROVE  Turn(l)'
<1> DEFINE C == Bit(SocketOf(l).credit)
<1> DEFINE P == Num(toProxy, WrteTo(l))
<1> DEFINE T == Num(tasks, WritesFor(l))
<1> DEFINE D == Bit(chan[l].drain)
<1> DEFINE S == Num(toServer, OkayBy(l))
<1>q. /\ UNCHANGED <<toProxy, srv>>
      /\ tasks' = tasks \/ (tasks # <<>> /\ tasks' = Tail(tasks))
    BY TasksQuiet DEF Quiet
<1>k. Keeps(l) \/ Resumes(l) \/ Begins(l) \/ Produces(l) \/ Skips(l) \/ Hands(l)
    BY TaskKinds
<1>u. /\ SocketOf(l)' = SocketOf(l) /\ Written(l)' = Written(l)
      /\ (HasSocket(l)' <=> HasSocket(l)) /\ P' = P
    BY <1>q DEF SocketOf, Written, HasSocket
<1>w. WriteTask(l) => /\ tasks' = Tail(tasks) /\ T = T' + 1
                      /\ Num(tasks, TasksBut(l, Written(l))) = 0 => Head(tasks).data = Written(l)
  <2> SUFFICES ASSUME WriteTask(l)
               PROVE  /\ tasks' = Tail(tasks) /\ T = T' + 1
                      /\ Num(tasks, TasksBut(l, Written(l))) = 0
                           => Head(tasks).data = Written(l)
      OBVIOUS
  <2>1. tasks # <<>> /\ tasks' = Tail(tasks) /\ tasks \in Seq(Tasks)
      BY Basics DEF WriteTask
  <2>2. Head(tasks) \in WritesFor(l)
      BY <2>1, TailType DEF WriteTask, WritesFor
  <2>3. T = T' + 1
      BY <2>1, <2>2, NumTail, TurnTypesNext
  <2>4. Num(tasks, TasksBut(l, Written(l))) = 0 => Head(tasks) \notin TasksBut(l, Written(l))
      BY <2>1, NumHead
  <2> QED
      BY <2>1, <2>2, <2>3, <2>4 DEF TasksBut
<1>a. PICK c, p, t, d, s, t1, d1, s1 :
          /\ c = C /\ p = P /\ t = T /\ d = D /\ s = S
          /\ t1 = T' /\ d1 = D' /\ s1 = S'
    OBVIOUS
<1>n. /\ c \in Nat /\ p \in Nat /\ t \in Nat /\ d \in Nat /\ s \in Nat
      /\ t1 \in Nat /\ d1 \in Nat /\ s1 \in Nat
    BY <1>a, TurnTypes, TurnTypesNext
<1>t. Turns(l) = c + p + t + d + s /\ Turns(l)' = c + p + t1 + d1 + s1
    BY <1>a, <1>u DEF Turns
<1>f. /\ Turns(l) <= 1
      /\ Fresh(chan[l]) => Turns(l) = 0 /\ dev[l].got = 0 /\ ~HasSocket(l)
      /\ t # 0 => Comes(l) /\ Opened(chan[l])
      /\ chan[l].drain => dev[l].got = Written(l)
      /\ s # 0 \/ SocketOf(l).credit => Past(l) \/ dev[l].got = Written(l)
    BY <1>a DEF Turn
<1>h. c + p + t + d + s <= 1
    BY <1>f, <1>t
<1>i. /\ t # 0 => c = 0 /\ p = 0 /\ d = 0 /\ s = 0 /\ t = 1
      /\ d # 0 => c = 0 /\ p = 0 /\ t = 0 /\ s = 0
    BY <1>h, <1>n, OneOfFive
<1>e. Fresh(chan[l]) => c = 0 /\ p = 0 /\ t = 0 /\ d = 0 /\ s = 0
  <2>1. Fresh(chan[l]) => c + p + t + d + s = 0
      BY <1>f, <1>t
  <2> QED
      BY <2>1, <1>n
<1>d. /\ chan[l].drain => d = 1
      /\ ~chan'[l].drain => d1 = 0
      /\ d1 \in {0, 1}
      /\ chan'[l].drain = chan[l].drain => d1 = d
    BY <1>a DEF Bit
<1>g. Goes(l) => /\ Fresh(chan'[l]) => Fresh(chan[l])
                 /\ Opened(chan[l]) => Opened(chan'[l])
                 /\ l \in streams' => l \in streams
    BY DEF Goes, Fresh, Opened
<1>p. ToProxyKeeps(l) /\ TasksKeep(l)
    BY <1>q DEF ToProxyKeeps, TasksKeep
<1>x. WriteTask(l) => t = t1 + 1
    BY <1>w, <1>a
<1>y. tasks' = tasks => t1 = t
    BY <1>a
<1>s. \A cmd : Says(cmd, l) => s1 <= s + 1 /\ (cmd # "OKAY" /\ cmd # "OPEN" => s1 <= s)
    BY <1>a, SaysCounts
<1>v. ASSUME p = 0, t1 = 0, Turns(l)' <= 1, ~Fresh(chan'[l]),
             chan'[l].drain => dev'[l].got = Written(l)',
             s1 # 0 \/ SocketOf(l)'.credit => Past(l)' \/ dev'[l].got = Written(l)'
      PROVE  Turn(l)'
    BY <1>v, <1>a, <1>u, TurnPassed
<1> HIDE DEF C, P, T, D, S
<1>1. CASE Keeps(l)
  <2>1. ToServerKeeps(l) /\ Goes(l) /\ Same(l)
      BY <1>1, SaysCounts DEF Keeps
  <2> QED
      BY <2>1, <1>g, <1>p, <1>u, TurnKept DEF Same
<1>2. CASE Produces(l)
  <2>1. ToServerKeeps(l) /\ Same(l) /\ (l \in streams' => l \in streams)
      BY <1>2, SaysCounts DEF Produces
  <2>2. (Fresh(chan'[l]) => Fresh(chan[l])) /\ (Opened(chan[l]) => Opened(chan'[l]))
      BY <1>2 DEF Produces, Fresh, Opened
  <2> QED
      BY <2>1, <2>2, <1>p, <1>u, TurnKept DEF Same
<1>3. CASE Resumes(l)
  <2>1. s1 <= s + 1 /\ d = 1 /\ d1 = 0 /\ t1 = t
      BY <1>3, <1>s, <1>d, <1>y DEF Resumes
  <2>2. c = 0 /\ p = 0 /\ t = 0 /\ s = 0
      BY <2>1, <1>i
  <2>3. ~Fresh(chan'[l])
      BY <1>3, <2>1, <1>e, <1>g DEF Resumes
  <2>4. Turns(l)' <= 1
      BY <2>1, <2>2, <1>n, <1>t
  <2>5. dev'[l].got = Written(l)'
      BY <1>3, <1>f, <1>u DEF Resumes
  <2> QED
      BY <2>1, <2>2, <2>3, <2>4, <2>5, <1>v
<1>4. CASE Begins(l)
  <2>1. /\ Fresh(chan[l]) /\ ~Fresh(chan'[l])
        /\ chan'[l].drain = chan[l].drain /\ t1 = t /\ dev'[l].got = dev[l].got
      BY <1>4, <1>y DEF Begins, Same, Fresh
  <2>2. c = 0 /\ p = 0 /\ t = 0 /\ s = 0 /\ d = 0 /\ d1 = 0
      BY <2>1, <1>e, <1>d
  <2>3. s1 <= s + 1
      BY <1>4, <1>s DEF Begins
  <2>4. Turns(l)' <= 1
      BY <2>1, <2>2, <2>3, <1>n, <1>t
  <2>5. Written(l) = 0
      BY <2>1, <1>f, SocketIs DEF Written, HasSocket, Idle
  <2>6. dev'[l].got = Written(l)'
      BY <2>1, <2>5, <1>f, <1>u
  <2> QED
      BY <2>1, <2>2, <2>4, <2>6, <1>v
<1>5. CASE Skips(l)
  <2>1. s1 <= s + 1 /\ t = t1 + 1 /\ chan'[l].drain = chan[l].drain
      BY <1>5, <1>s, <1>x DEF Skips, Same
  <2>2. t # 0
      BY <2>1, <1>n
  <2>3. c = 0 /\ p = 0 /\ t = 1 /\ s = 0 /\ d = 0 /\ d1 = 0
      BY <2>1, <2>2, <1>i, <1>d
  <2>4. t1 = 0 /\ Turns(l)' <= 1
      BY <2>1, <2>3, <1>n, <1>t
  <2>5. Past(l)' /\ ~Fresh(chan'[l])
      BY <1>5, <2>2, <1>f, <1>g DEF Skips, Past, Fresh, Opened, Goes
  <2>6. ~chan'[l].drain
      BY <2>1, <2>3, <1>d
  <2> QED
      BY <2>3, <2>4, <2>5, <2>6, <1>v
<1>6. CASE Hands(l)
  <2>1. t = t1 + 1
      BY <1>6, <1>x DEF Hands
  <2>2. t # 0
      BY <2>1, <1>n
  <2>3. c = 0 /\ p = 0 /\ t = 1 /\ s = 0 /\ d = 0
      BY <2>2, <1>i
  <2>4. t1 = 0
      BY <2>1, <2>3, <1>n
  <2>5. d1 + s1 <= 1
    <3>1. CASE chan'[l].drain = chan[l].drain /\ Says("OKAY", l)
      <4>1. d1 = 0 /\ s1 <= s + 1
          BY <3>1, <2>3, <1>s, <1>d
      <4> QED
          BY <4>1, <2>3, <1>n
    <3>2. CASE Says("CLSE", l)
      <4>1. s1 <= s
          BY <3>2, <1>s
      <4> QED
          BY <4>1, <2>3, <1>n, <1>d
    <3> QED
        BY <1>6, <3>1, <3>2 DEF Hands
  <2>6. Turns(l)' <= 1
      BY <2>3, <2>4, <2>5, <1>n, <1>t
  <2>7. ~Fresh(chan'[l])
      BY <1>6, <2>2, <1>f DEF Hands, Goes, Fresh, Opened
  <2>8. Num(tasks, TasksBut(l, Written(l))) = 0
      BY DEF Turn
  <2>9. dev'[l].got = Written(l)'
      BY <1>6, <2>8, <1>w, <1>u DEF Hands
  <2> QED
      BY <2>3, <2>4, <2>6, <2>7, <2>9, <1>v
<1> QED
    BY <1>k, <1>1, <1>2, <1>3, <1>4, <1>5, <1>6

LEMMA TurnTasks ==
    ASSUME TypeOK, TypeOK', Shape, Wiring, NEW l \in Ids, \A k \in Ids : Turn(k),
           UNCHANGED srv,
           \/ StartSome(l) \/ WriteDrained(l) \/ OpenSome(l)
           \/ SinkSome(l) \/ CloserResumes(l) \/ TeardownClose(l)
    PROVE  \A k \in Ids : Turn(k)'
<1> TAKE k \in Ids
<1>1. CASE k = l
    BY <1>1, TurnTask
<1>2. CASE k # l
  <2>1. /\ UNCHANGED <<toProxy, srv>> /\ chan'[k] = chan[k]
        /\ tasks' = tasks \/ (tasks # <<>> /\ tasks' = Tail(tasks))
      BY <1>2, TasksQuiet DEF Quiet
  <2>2. (k \in streams' <=> k \in streams) /\ dev'[k].got = dev[k].got
      BY <1>2, TaskKinds
  <2>3. \E cmd \in {"OKAY", "WRTE", "CLSE"} : Says(cmd, l)
    <3>1. Keeps(l) \/ Resumes(l) \/ Begins(l) \/ Produces(l) \/ Skips(l) \/ Hands(l)
        BY TaskKinds
    <3> QED
        BY <3>1 DEF Keeps, Resumes, Begins, Produces, Skips, Hands
  <2>4. ToServerKeeps(k)
      BY <1>2, <2>3, SaysCounts
  <2>5. ToProxyKeeps(k) /\ TasksKeep(k)
      BY <2>1 DEF ToProxyKeeps, TasksKeep
  <2>6. SocketOf(k)' = SocketOf(k) /\ Written(k)' = Written(k) /\ (HasSocket(k)' <=> HasSocket(k))
      BY <2>1 DEF SocketOf, Written, HasSocket
  <2> QED
      BY <2>1, <2>2, <2>4, <2>5, <2>6, TurnKept
<1> QED
    BY <1>1, <1>2

-----------------------------------------------------------------------------
(* Steps that change nothing of k that its turn depends on.                *)
Aside(k) ==
    /\ TasksKeep(k) /\ ToProxyKeeps(k) /\ ToServerKeeps(k)
    /\ k \in streams' <=> k \in streams
    /\ dev'[k].got = dev[k].got
    /\ chan'[k].drain = chan[k].drain /\ chan'[k].open = chan[k].open

LEMMA TurnAside ==
    ASSUME TypeOK, TypeOK', NEW k \in Ids, Turn(k), Aside(k),
           SocketOf(k)'.sent = SocketOf(k).sent,
           SocketOf(k)'.credit = SocketOf(k).credit,
           HasSocket(k)' => HasSocket(k)
    PROVE  Turn(k)'
<1>1. Written(k)' = Written(k)
    BY DEF Written
<1>2. (Fresh(chan'[k]) => Fresh(chan[k])) /\ (Opened(chan[k]) => Opened(chan'[k]))
    BY DEF Aside, Fresh, Opened
<1> QED
    BY <1>1, <1>2, TurnKept DEF Aside

(* Nothing of any stream.                                                  *)
LEMMA AllAside ==
    ASSUME TypeOK, TypeOK', Shape, Wiring, Wiring', [Next]_vars, Delivery,
           SocketsKept, \A k \in Ids : Aside(k)
    PROVE  Delivery'
<1>1. Blank'
    BY DEF Delivery, Blank, SocketsKept
<1>2. \A k \in Ids : Turn(k)'
    BY SocketStays, TurnAside DEF Delivery
<1> QED
    BY <1>1, <1>2 DEF Delivery

(* A WRTE becomes a task.                                                  *)
LEMMA TurnRecvWrte ==
    ASSUME TypeOK, TypeOK', Shape, Wiring, Wiring', [Next]_vars, Delivery, UNCHANGED srv,
           RecvWrte, Head(toProxy).arg1 \in streams
    PROVE  Delivery'
<1>0. PICK l, n : l = Head(toProxy).arg1 /\ n = Head(toProxy).data
    OBVIOUS
<1> DEFINE e == [op |-> "write", id |-> l, data |-> n]
<1>1. /\ toProxy # <<>> /\ toProxy' = Tail(toProxy)
      /\ Head(toProxy).cmd = "WRTE" /\ tasks' = Append(tasks, e)
      /\ UNCHANGED <<streams, chan, dev, toServer>>
    BY <1>0 DEF RecvWrte, Recv, Target, Spawn, untouched
<1>2. /\ l \in Ids /\ n \in Nat /\ e \in Tasks /\ Head(toProxy) \in Commands(Nat)
  <2>1. streams \subseteq Ids
      BY DEF TypeOK
  <2>2. Head(toProxy) \in Commands(Nat) /\ n \in Nat
      BY <1>0, <1>1, Basics, HeadTyped, CommandTyped, TailType
  <2> QED
      BY <1>0, <2>1, <2>2 DEF Tasks
<1>3. \A k \in Ids : k # l => Turn(k)'
  <2> SUFFICES ASSUME NEW k \in Ids, k # l PROVE Turn(k)'
      OBVIOUS
  <2>1. Aside(k)
      BY <1>1, <1>2 DEF Aside, TasksKeep, ToProxyKeeps, ToServerKeeps
  <2>2. SocketsKept
      BY DEF SocketsKept
  <2> QED
      BY <2>1, <2>2, SocketStays, TurnAside DEF Delivery
<1>4. Turn(l)'
  <2>0. /\ Turn(l) /\ toProxy \in Seq(Commands(Nat)) /\ tasks \in Seq(Tasks)
      BY <1>2, Basics DEF Delivery
  <2>1. /\ SocketOf(l)' = SocketOf(l) /\ Written(l)' = Written(l)
        /\ HasSocket(l)' <=> HasSocket(l)
      BY DEF SocketOf, Written, HasSocket
  <2>a. PICK w, c, p, t, d, s, p1, t1 :
            /\ w = Written(l)
            /\ c = Bit(SocketOf(l).credit) /\ p = Num(toProxy, WrteTo(l))
            /\ t = Num(tasks, WritesFor(l)) /\ d = Bit(chan[l].drain)
            /\ s = Num(toServer, OkayBy(l))
            /\ p1 = Num(toProxy', WrteTo(l)) /\ t1 = Num(tasks', WritesFor(l))
      OBVIOUS
  <2>n. /\ c \in Nat /\ p \in Nat /\ t \in Nat /\ d \in Nat /\ s \in Nat
        /\ p1 \in Nat /\ t1 \in Nat
      BY <2>a, <1>2, TurnTypes, TurnTypesNext
  <2>2. Turns(l) = c + p + t + d + s /\ Turns(l)' = c + p1 + t1 + d + s
      BY <2>a, <2>1, <1>1 DEF Turns
  <2>3. p = p1 + 1
    <3>1. Head(toProxy) \in WrteTo(l)
        BY <1>0, <1>1, <1>2 DEF WrteTo
    <3> QED
        BY <2>a, <2>n, <2>0, <3>1, <1>1, NumTail
  <2>4. t1 = t + 1
    <3>1. e \in WritesFor(l)
        BY <1>2 DEF WritesFor
    <3> QED
        BY <2>a, <2>n, <2>0, <3>1, <1>1, <1>2, NumAppend
  <2>5. Turns(l) <= 1 /\ Turns(l)' = Turns(l)
      BY <2>0, <2>2, <2>3, <2>4, <2>n DEF Turn
  <2>6. p # 0 /\ c = 0 /\ t = 0 /\ d = 0 /\ s = 0 /\ p1 = 0
    <3>1. p # 0 /\ c + p + t + d + s <= 1
        BY <2>2, <2>3, <2>5, <2>n
    <3>2. c = 0 /\ t = 0 /\ d = 0 /\ s = 0
        BY <3>1, <2>n, OneOfFive
    <3> QED
        BY <3>1, <3>2, <2>3, <2>n
  <2>7. Comes(l) /\ ~Fresh(chan[l])
    <3>1. Comes(l)
        BY <2>0, <2>6, <2>a DEF Turn
    <3>2. Fresh(chan[l]) => c + p + t + d + s = 0
        BY <2>0, <2>2 DEF Turn
    <3> QED
        BY <3>1, <3>2, <2>6, <2>n
  <2>8. Opened(chan[l])
    <3>1. ShapeOf(l) /\ l \in streams /\ chan[l] \in Channels
        BY <1>0, <1>2, Basics DEF Shape
    <3> QED
        BY <3>1 DEF ShapeOf, Opened, Channels
  <2>9. Num(toProxy', WrtesBut(l, w)) = 0
    <3>1. WrtesBut(l, w) \in SUBSET WrteTo(l)
        BY DEF WrtesBut
    <3>2. toProxy' \in Seq(Commands(Nat))
        BY DEF TypeOK
    <3>3. Num(toProxy', WrtesBut(l, w)) <= p1
        BY <2>a, <3>1, <3>2, NumIncluded
    <3> QED
        BY <3>3, <2>6, <1>2, TurnTypesNext
  <2>10. n = w
    <3>1. Head(toProxy) \notin WrtesBut(l, w)
        BY <2>0, <2>a, <1>1, NumHead DEF Turn
    <3> QED
        BY <3>1, <1>0, <1>1, <1>2 DEF WrtesBut, WrteTo
  <2>11. Num(tasks', TasksBut(l, w)) = 0
    <3>1. e \notin TasksBut(l, w)
        BY <2>10 DEF TasksBut
    <3>2. Num(tasks, TasksBut(l, w)) = 0
        BY <2>0, <2>a DEF Turn
    <3> QED
        BY <2>0, <3>1, <3>2, <1>1, <1>2, NumAppend
  <2>12. ~chan[l].drain /\ ~SocketOf(l).credit
      BY <2>a, <2>6 DEF Bit
  <2>13. /\ Turns(l)' <= 1 /\ ~Fresh(chan'[l])
         /\ Num(toProxy', WrtesBut(l, Written(l)')) = 0
         /\ Num(tasks', TasksBut(l, Written(l)')) = 0
         /\ Num(toProxy', WrteTo(l)) = 0 /\ Num(toServer', OkayBy(l)) = 0
         /\ ~chan'[l].drain /\ ~SocketOf(l)'.credit
      BY <2>1, <2>5, <2>6, <2>7, <2>9, <2>11, <2>12, <2>a, <1>1
  <2>14. Comes(l)' /\ Opened(chan'[l])
      BY <2>1, <2>7, <2>8, <1>1 DEF Comes
  <2> QED
      BY <2>13, <2>14 DEF Turn
<1>5. Blank'
    BY DEF Delivery, Blank
<1> QED
    BY <1>3, <1>4, <1>5 DEF Delivery

(* A stream of the device sends its OPEN.                                  *)
LEMMA TurnReverse ==
    ASSUME TypeOK, TypeOK', Shape, Wiring, Wiring', [Next]_vars, Delivery, UNCHANGED srv,
           ReverseAccept
    PROVE  Delivery'
<1>0. PICK l : l = next_local_id
    OBVIOUS
<1>c. chan \in [Ids -> Channels] /\ dev \in [Ids -> Devices]
    BY DEF TypeOK
<1>1. /\ l \in Ids /\ Command("OPEN", l, 0, 0) \in Commands(Ids)
      /\ Command("OPEN", l, 0, 0).cmd = "OPEN" /\ Command("OPEN", l, 0, 0).arg0 = l
  <2>1. l \in Ids
      BY <1>0, Basics, ProxyAssumption DEF ReverseAccept, Ids
  <2> QED
      BY <2>1, MakeCommand DEF Command
<1>2. /\ UNCHANGED <<tasks, toProxy>> /\ streams' = streams \cup {l}
      /\ \A k \in Ids : dev'[k].got = dev[k].got /\ (k # l => chan'[k] = chan[k])
      /\ chan'[l].open = "accepted" /\ ~chan'[l].drain
      /\ Send(Command("OPEN", l, 0, 0))
    BY <1>0, <1>1, <1>c DEF ReverseAccept, Register, Unused, loop, Devices
<1>3. \A k \in Ids : k # l => Turn(k)'
  <2> SUFFICES ASSUME NEW k \in Ids, k # l PROVE Turn(k)'
      OBVIOUS
  <2>1. ToServerKeeps(k)
      BY <1>1, <1>2 DEF ToServerKeeps, Send
  <2>2. Aside(k)
      BY <1>2, <2>1 DEF Aside, TasksKeep, ToProxyKeeps
  <2>3. SocketsKept
      BY DEF SocketsKept
  <2> QED
      BY <2>2, <2>3, SocketStays, TurnAside DEF Delivery
<1>4. Turn(l)'
  <2>0. Turn(l) /\ toServer \in Seq(Commands(Ids))
      BY <1>1, Basics DEF Delivery
  <2>1. /\ SocketOf(l)' = SocketOf(l) /\ Written(l)' = Written(l)
      BY DEF SocketOf, Written
  <2>a. PICK c, p, t, d, s, s1 :
            /\ c = Bit(SocketOf(l).credit) /\ p = Num(toProxy, WrteTo(l))
            /\ t = Num(tasks, WritesFor(l)) /\ d = Bit(chan[l].drain)
            /\ s = Num(toServer, OkayBy(l)) /\ s1 = Num(toServer', OkayBy(l))
      OBVIOUS
  <2>n. /\ c \in Nat /\ p \in Nat /\ t \in Nat /\ d \in Nat /\ s \in Nat
        /\ s1 \in Nat
      BY <2>a, <1>1, TurnTypes, TurnTypesNext
  <2>2. Turns(l) = c + p + t + d + s /\ Turns(l)' = c + p + t + 0 + s1
      BY <2>a, <2>1, <1>2 DEF Turns, Bit
  <2>3. Fresh(chan[l])
    <3>1. ShapeOf(l)
        BY <1>1 DEF Shape
    <3> QED
        BY <1>0, <1>1, <3>1, Basics DEF ShapeOf, Fresh
  <2>4. Turns(l) = 0 /\ dev[l].got = 0 /\ ~HasSocket(l)
      BY <2>0, <2>3 DEF Turn
  <2>5. c = 0 /\ p = 0 /\ t = 0 /\ s = 0
    <3>1. c + p + t + d + s = 0
        BY <2>2, <2>4
    <3> QED
        BY <3>1, <2>n
  <2>6. s1 <= 1
    <3>1. CASE toServer' = toServer
        BY <3>1, <2>a, <2>5
    <3>2. CASE toServer' = Append(toServer, Command("OPEN", l, 0, 0))
      <4>1. s1 = s + (IF Command("OPEN", l, 0, 0) \in OkayBy(l) THEN 1 ELSE 0)
          BY <3>2, <2>a, <2>0, <1>1, NumAppend
      <4> QED
          BY <4>1, <2>5, <2>n
    <3> QED
        BY <3>1, <3>2, <1>2 DEF Send
  <2>7. Turns(l)' <= 1 /\ ~Fresh(chan'[l])
      BY <2>2, <2>5, <2>6, <2>n, <1>2 DEF Fresh
  <2>8. dev'[l].got = Written(l)'
      BY <2>1, <2>4, <1>1, <1>2, SocketIs DEF Written, HasSocket, Idle
  <2> QED
      BY <2>5, <2>7, <2>8, <2>a, <1>1, <1>2, TurnPassed
<1>5. Blank'
    BY DEF Delivery, Blank
<1> QED
    BY <1>3, <1>4, <1>5 DEF Delivery

(* The ADB server takes an OKAY or an OPEN: its socket may write.          *)
LEMMA TurnGranted ==
    ASSUME TypeOK, TypeOK', NEW l \in Ids, Turn(l),
           toServer # <<>>, toServer' = Tail(toServer), Head(toServer) \in OkayBy(l),
           UNCHANGED <<tasks, dev, chan, streams>>,
           ToProxyKeeps(l), Written(l)' = Written(l)
    PROVE  Turn(l)'
<1>0. toServer \in Seq(Commands(Ids))
    BY Basics
<1>a. PICK c, p, t, d, s, c1, p1, s1 :
          /\ c = Bit(SocketOf(l).credit) /\ p = Num(toProxy, WrteTo(l))
          /\ t = Num(tasks, WritesFor(l)) /\ d = Bit(chan[l].drain)
          /\ s = Num(toServer, OkayBy(l))
          /\ c1 = Bit(SocketOf(l)'.credit) /\ p1 = Num(toProxy', WrteTo(l))
          /\ s1 = Num(toServer', OkayBy(l))
    OBVIOUS
<1>n. /\ c \in Nat /\ p \in Nat /\ t \in Nat /\ d \in Nat /\ s \in Nat
      /\ p1 \in Nat /\ s1 \in Nat /\ c1 \in {0, 1}
    BY <1>a, TurnTypes, TurnTypesNext DEF Bit
<1>1. Turns(l) = c + p + t + d + s /\ Turns(l)' = c1 + p1 + t + d + s1
    BY <1>a DEF Turns
<1>2. s = s1 + 1
    BY <1>a, <1>n, <1>0, NumTail
<1>3. p1 <= p
    BY <1>a, ToProxyKept
<1>4. c + p + t + d + s <= 1 /\ s # 0
    BY <1>1, <1>2, <1>n DEF Turn
<1>5. c = 0 /\ p = 0 /\ t = 0 /\ d = 0 /\ s1 = 0 /\ p1 = 0
  <2>1. c = 0 /\ p = 0 /\ t = 0 /\ d = 0
      BY <1>4, <1>n, OneOfFive
  <2> QED
      BY <2>1, <1>2, <1>3, <1>4, <1>n
<1>6. Turns(l)' <= 1
    BY <1>1, <1>5, <1>n
<1>7. ~Fresh(chan[l])
  <2>1. Fresh(chan[l]) => c + p + t + d + s = 0
      BY <1>1 DEF Turn
  <2> QED
      BY <2>1, <1>4, <1>n
<1>8. Past(l)' \/ dev'[l].got = Written(l)'
  <2>1. Past(l) \/ dev[l].got = Written(l)
      BY <1>4, <1>a DEF Turn
  <2> QED
      BY <2>1 DEF Past
<1>9. ~chan'[l].drain
    BY <1>5, <1>a DEF Bit
<1> QED
    BY <1>5, <1>6, <1>7, <1>8, <1>9, <1>a, TurnPassed

(* The ADB server takes an OKAY that opens or acknowledges, or an OPEN that *)
(* it accepts.                                                             *)
LEMMA TurnServerGrants ==
    ASSUME TypeOK, TypeOK', Shape, Wiring, Wiring', [Next]_vars, Delivery,
           NEW l \in Ids, NEW r \in RemoteIds, srv[r].peer \in {0, l},
           toServer # <<>>, toServer' = Tail(toServer), Head(toServer) \in OkayBy(l),
           UNCHANGED <<tasks, dev, chan, streams>>, \A k \in Ids : ToProxyKeeps(k),
           \A s \in RemoteIds : s # r => srv'[s] = srv[s],
           srv'[r].peer = l, srv'[r].sent = srv[r].sent,
           \A s \in RemoteIds : srv[s].peer = l => s = r
    PROVE  Delivery'
<1>0. l # 0
    BY Basics
<1>1. \A k \in Ids : k # l => Turn(k)'
  <2> SUFFICES ASSUME NEW k \in Ids, k # l PROVE Turn(k)'
      OBVIOUS
  <2>1. Aside(k)
      BY DEF Aside, TasksKeep, ToServerKeeps
  <2>2. \A s \in RemoteIds : srv'[s].peer = k => s # r
      OBVIOUS
  <2>3. HasSocket(k)' => HasSocket(k)
      BY <2>2 DEF HasSocket
  <2>4. SocketOf(k)'.sent = SocketOf(k).sent /\ SocketOf(k)'.credit = SocketOf(k).credit
    <3>1. ~(\E s \in RemoteIds : srv[s].peer = 0 /\ srv'[s].peer = k)
        BY <2>2, Basics
    <3>2. \A s \in RemoteIds : srv'[s].peer = k => srv'[s] = srv[s]
        BY <2>2
    <3> QED
        BY <3>1, <3>2, SocketCases
  <2> QED
      BY <2>1, <2>3, <2>4, TurnAside DEF Delivery
<1>2. Written(l)' = Written(l)
  <2>1. Written(l)' = srv[r].sent
      BY SocketIsNext DEF Written
  <2>2. CASE srv[r].peer = l
      BY <2>1, <2>2, SocketIs DEF Written
  <2>3. CASE srv[r].peer = 0
    <3>1. srv[r].sent = 0
        BY <2>3 DEF Delivery, Blank
    <3>2. SocketOf(l) = Idle
        BY <2>3, <1>0, SocketIs
    <3> QED
        BY <2>1, <3>1, <3>2 DEF Written, Idle
  <2> QED
      BY <2>2, <2>3
<1>3. Turn(l)'
    BY <1>2, TurnGranted DEF Delivery
<1>4. Blank'
    BY <1>0 DEF Delivery, Blank
<1> QED
    BY <1>1, <1>3, <1>4 DEF Delivery

(* A client writes.                                                        *)
LEMMA TurnWrites ==
    ASSUME TypeOK, TypeOK', Shape, Wiring, Wiring', [Next]_vars, Delivery,
           NEW r \in RemoteIds, ClientWrites(r)
    PROVE  Delivery'
<1>0. PICK l, n : l = srv[r].peer /\ n = srv[r].sent + 1
    OBVIOUS
<1> DEFINE m == Command("WRTE", r, l, n)
<1>1. /\ srv[r].st = "open" /\ srv[r].credit /\ Reply(m)
      /\ srv' = [srv EXCEPT ![r].sent = @ + 1, ![r].credit = FALSE]
      /\ UNCHANGED <<tasks, dev, chan, streams, toServer>>
    BY <1>0 DEF ClientWrites, proxySide
<1>2. srv \in [RemoteIds -> Sockets] /\ srv[r] \in Sockets
    BY DEF TypeOK
<1>3. l \in Ids /\ l # 0 /\ n \in Nat /\ n # 0
    BY <1>0, <1>1, <1>2, Basics DEF Wiring, Ends, Sockets
<1>4. m \in Commands(Nat) /\ m.cmd = "WRTE" /\ m.arg1 = l /\ m.data = n
    BY <1>3, Basics, MakeCommand DEF Command
<1>5. /\ \A s \in RemoteIds : s # r => srv'[s] = srv[s]
      /\ \A s \in RemoteIds : srv'[s].peer = srv[s].peer
      /\ srv'[r].sent = n /\ ~srv'[r].credit
    BY <1>0, <1>1, <1>2 DEF Sockets
<1> HIDE DEF m
<1>6. \A k \in Ids : k # l => Turn(k)'
  <2> SUFFICES ASSUME NEW k \in Ids, k # l PROVE Turn(k)'
      OBVIOUS
  <2>1. Aside(k)
      BY <1>1, <1>4 DEF Aside, TasksKeep, ToProxyKeeps, ToServerKeeps, Reply
  <2>2. HasSocket(k)' => HasSocket(k)
      BY <1>5 DEF HasSocket
  <2>3. SocketOf(k)'.sent = SocketOf(k).sent /\ SocketOf(k)'.credit = SocketOf(k).credit
    <3>1. ~(\E s \in RemoteIds : srv[s].peer = 0 /\ srv'[s].peer = k)
        BY <1>5, Basics
    <3>2. \A s \in RemoteIds : srv'[s].peer = k => srv'[s] = srv[s]
        BY <1>0, <1>5
    <3> QED
        BY <3>1, <3>2, SocketCases
  <2> QED
      BY <2>1, <2>2, <2>3, TurnAside DEF Delivery
<1>7. Turn(l)'
  <2>0. Turn(l) /\ toProxy \in Seq(Commands(Nat))
      BY <1>3, Basics DEF Delivery
  <2>1. /\ SocketOf(l) = srv[r] /\ SocketOf(l)' = srv'[r]
        /\ n = Written(l) + 1 /\ Written(l)' = n
    <3>1. SocketOf(l) = srv[r] /\ SocketOf(l)' = srv'[r]
        BY <1>0, <1>3, <1>5, SocketIs, SocketIsNext
    <3> QED
        BY <3>1, <1>0, <1>5 DEF Written
  <2>a. PICK c, p, t, d, s, p1 :
            /\ c = Bit(SocketOf(l).credit) /\ p = Num(toProxy, WrteTo(l))
            /\ t = Num(tasks, WritesFor(l)) /\ d = Bit(chan[l].drain)
            /\ s = Num(toServer, OkayBy(l)) /\ p1 = Num(toProxy', WrteTo(l))
      OBVIOUS
  <2>n. /\ c \in Nat /\ p \in Nat /\ t \in Nat /\ d \in Nat /\ s \in Nat
        /\ p1 \in Nat
      BY <2>a, <1>3, TurnTypes, TurnTypesNext
  <2>2. Turns(l) = c + p + t + d + s /\ Turns(l)' = 0 + p1 + t + d + s
      BY <2>a, <2>1, <1>1, <1>5 DEF Turns, Bit
  <2>3. c = 1
      BY <2>a, <2>1, <1>1 DEF Bit
  <2>4. c + p + t + d + s <= 1
      BY <2>0, <2>2 DEF Turn
  <2>5. p = 0 /\ t = 0 /\ d = 0 /\ s = 0
      BY <2>3, <2>4, <2>n, OneOfFive
  <2>6. p1 = 1
    <3>1. m \in WrteTo(l)
        BY <1>4 DEF WrteTo
    <3>2. p1 = p + (IF m \in WrteTo(l) THEN 1 ELSE 0)
        BY <2>a, <2>0, <1>1, <1>4, NumAppend DEF Reply
    <3> QED
        BY <2>5, <3>1, <3>2
  <2>7. Turns(l)' <= 1
      BY <2>2, <2>5, <2>6
  <2>8. ~Fresh(chan[l])
    <3>1. Fresh(chan[l]) => c + p + t + d + s = 0
        BY <2>0, <2>2 DEF Turn
    <3> QED
        BY <3>1, <2>3, <2>5
  <2>9. Num(toProxy', WrtesBut(l, n)) = 0
    <3>1. m \notin WrtesBut(l, n) /\ WrtesBut(l, n) \in SUBSET WrteTo(l)
        BY <1>4 DEF WrtesBut
    <3>2. Num(toProxy', WrtesBut(l, n)) = Num(toProxy, WrtesBut(l, n))
        BY <2>0, <3>1, <1>1, <1>3, <1>4, NumAppend, TurnTypes DEF Reply
    <3>3. Num(toProxy, WrtesBut(l, n)) <= p
        BY <2>0, <2>a, <3>1, NumIncluded
    <3> QED
        BY <2>5, <3>2, <3>3, <1>3, TurnTypes
  <2>10. Num(tasks', TasksBut(l, n)) = 0
    <3>1. TasksBut(l, n) \in SUBSET WritesFor(l) /\ tasks \in Seq(Tasks)
        BY Basics DEF TasksBut
    <3>2. Num(tasks, TasksBut(l, n)) <= t
        BY <2>a, <3>1, NumIncluded
    <3> QED
        BY <2>5, <3>2, <1>1, <1>3, TurnTypes
  <2>11. Comes(l)'
    <3>1. Past(l) \/ dev[l].got = Written(l)
        BY <2>0, <2>1, <1>1 DEF Turn
    <3> QED
        BY <2>1, <3>1, <1>1, <1>3 DEF Comes, Past
  <2>12. /\ ~Fresh(chan'[l]) /\ ~chan'[l].drain /\ ~SocketOf(l)'.credit
         /\ Num(tasks', WritesFor(l)) = 0 /\ Num(toServer', OkayBy(l)) = 0
    <3>1. ~Fresh(chan'[l]) /\ ~SocketOf(l)'.credit
        BY <2>1, <2>8, <1>1, <1>5
    <3>2. ~chan'[l].drain
        BY <2>a, <2>5, <1>1 DEF Bit
    <3>3. Num(tasks', WritesFor(l)) = 0 /\ Num(toServer', OkayBy(l)) = 0
        BY <2>a, <2>5, <1>1
    <3> QED
        BY <3>1, <3>2, <3>3
  <2>13. /\ Num(toProxy', WrtesBut(l, Written(l)')) = 0
         /\ Num(tasks', TasksBut(l, Written(l)')) = 0
      BY <2>1, <2>9, <2>10
  <2> QED
      BY <2>7, <2>11, <2>12, <2>13 DEF Turn
<1>8. Blank'
  <2>1. \A s \in RemoteIds : srv'[s].peer = 0 => s # r
      BY <1>0, <1>3, <1>5
  <2> QED
      BY <2>1, <1>5 DEF Delivery, Blank
<1> QED
    BY <1>6, <1>7, <1>8 DEF Delivery

(* The other steps of the ADB server and its clients.                      *)
LEMMA TurnServer ==
    ASSUME TypeOK, TypeOK', Shape, Wiring, Wiring', [Next]_vars, Delivery,
           \/ ServerHandles
           \/ \E r \in RemoteIds :
                 ClientOpens(r) \/ ClientWrites(r) \/ ClientReads(r) \/ ClientCloses(r)
    PROVE  Delivery'
<1>t. srv \in [RemoteIds -> Sockets]
    BY DEF TypeOK
<1>u. UNCHANGED <<tasks, dev, chan, streams>>
    BY DEF ServerHandles, ServerCnxn, ServerOkay, ServerWrte, ServerClse, ServerOpen,
           ServerTakes, ClientOpens, ClientWrites, ClientReads, ClientCloses, proxySide
<1>a. ASSUME SocketsKept,
             toServer' = toServer \/ (toServer # <<>> /\ toServer' = Tail(toServer)),
             toProxy' = toProxy \/ \E m \in Commands(Nat) : m.cmd # "WRTE" /\ Reply(m)
      PROVE  Delivery'
  <2>1. \A k \in Ids : Aside(k)
      BY <1>u, <1>a DEF Aside, TasksKeep, ToProxyKeeps, ToServerKeeps, Reply
  <2> QED
      BY <1>a, <2>1, AllAside
<1>z. ASSUME NEW r \in {0} \cup RemoteIds, NEW l \in {0} \cup Ids,
             NEW cmd \in {"CLSE", "OKAY", "OPEN"}, Reply(Command(cmd, r, l, 0))
      PROVE  \E m \in Commands(Nat) : m.cmd # "WRTE" /\ Reply(m)
  <2>1. r \in Nat /\ l \in Nat
      BY Basics
  <2>2. /\ Command(cmd, r, l, 0) \in Commands(Nat)
        /\ Command(cmd, r, l, 0).cmd # "WRTE"
      BY <2>1, MakeCommand DEF Command
  <2> QED
      BY <2>2, <1>z
<1>h. toServer # <<>> =>
          /\ Head(toServer) \in Commands(Ids) /\ Sent(Head(toServer))
          /\ Head(toServer).arg0 \in {0} \cup Ids
    BY HeadSent, CommandTyped, Basics DEF Wiring
<1>g. ASSUME NEW l \in Ids, NEW cmd \in {"OKAY", "OPEN"}, toServer # <<>>,
             Head(toServer).cmd = cmd, Head(toServer).arg0 = l
      PROVE  Head(toServer) \in OkayBy(l)
    BY <1>g, <1>h DEF OkayBy
<1>1. CASE ServerCnxn
  <2>1. Command("CNXN", 0, ServerMax, 0) \in Commands(Nat)
        /\ Command("CNXN", 0, ServerMax, 0).cmd = "CNXN"
      BY SessionAssumption, MakeCommand DEF Command
  <2>2. SocketsKept
      BY <1>1 DEF ServerCnxn, SocketsKept
  <2> QED
      BY <1>1, <1>a, <2>1, <2>2 DEF ServerCnxn, ServerTakes
<1>2. CASE ServerOkay
  <2>m. PICK m : m = Head(toServer)
      OBVIOUS
  <2>1. /\ toServer # <<>> /\ toServer' = Tail(toServer)
        /\ Sent(m) /\ m.cmd = "OKAY" /\ m.arg0 \in Ids
      BY <2>m, <1>2, <1>h DEF ServerOkay, ServerTakes, Sent
  <2>2. m.arg1 \in RemoteIds /\ m.arg1 = chan[m.arg0].rid /\ m.arg1 # 0
      BY <2>1, Basics DEF Sent
  <2>3. CASE Reply(Command("CLSE", m.arg1, m.arg0, 0)) /\ UNCHANGED srv
    <3>1. SocketsKept
        BY <2>3 DEF SocketsKept
    <3> QED
        BY <2>1, <2>2, <2>3, <3>1, <1>a, <1>z
  <2>4. CASE /\ srv' = [srv EXCEPT ![m.arg1].st = "open", ![m.arg1].peer = m.arg0,
                                    ![m.arg1].credit = TRUE]
             /\ UNCHANGED toProxy
    <3>1. PICK r \in RemoteIds, l \in Ids : r = m.arg1 /\ l = m.arg0
        BY <2>1, <2>2
    <3>2. /\ \A s \in RemoteIds : s # r => srv'[s] = srv[s]
          /\ srv'[r].peer = l /\ srv'[r].sent = srv[r].sent
        BY <2>4, <3>1, <1>t DEF Sockets
    <3>3. srv[r].peer \in {0, l} /\ \A s \in RemoteIds : srv[s].peer = l => s = r
        BY <2>2, <3>1, Basics DEF Wiring, Pairs
    <3>4. Head(toServer) \in OkayBy(l)
        BY <2>m, <2>1, <3>1, <1>g
    <3>5. \A k \in Ids : ToProxyKeeps(k)
        BY <2>4 DEF ToProxyKeeps
    <3> QED
        BY <2>1, <3>2, <3>3, <3>4, <3>5, <1>u, TurnServerGrants
  <2> QED
      BY <2>m, <2>3, <2>4, <1>2 DEF ServerOkay
<1>3. CASE ServerWrte
  <2>m. PICK m : m = Head(toServer)
      OBVIOUS
  <2>1. /\ toServer # <<>> /\ toServer' = Tail(toServer) /\ UNCHANGED toProxy
        /\ srv' = IF srv[m.arg1].st = "open" THEN [srv EXCEPT ![m.arg1].owes = TRUE] ELSE srv
      BY <2>m, <1>3 DEF ServerWrte, ServerTakes
  <2>2. ASSUME NEW j, srv' = [srv EXCEPT ![j].owes = TRUE]
        PROVE  SocketsKept
      BY SMTT(20), <2>2, <1>t DEF SocketsKept, Sockets
  <2>3. SocketsKept
    <3>1. CASE srv' = srv
        BY <3>1 DEF SocketsKept
    <3> QED
        BY <2>1, <2>2, <3>1
  <2> QED
      BY <2>1, <2>3, <1>a
<1>4. CASE ServerClse
  <2>m. PICK m : m = Head(toServer)
      OBVIOUS
  <2>1. /\ toServer # <<>> /\ toServer' = Tail(toServer)
        /\ Sent(m) /\ m.cmd = "CLSE" /\ m.arg0 \in {0} \cup Ids
      BY <2>m, <1>4, <1>h DEF ServerClse, ServerTakes
  <2>2. m.arg1 \in RemoteIds
      BY <2>1 DEF Sent
  <2>3. toProxy' = toProxy \/ \E e \in Commands(Nat) : e.cmd # "WRTE" /\ Reply(e)
      BY <2>m, <2>1, <2>2, <1>4, <1>z DEF ServerClse
  <2>4. SocketsKept
      BY <2>m, <1>4, <1>t DEF ServerClse, SocketsKept, Sockets
  <2> QED
      BY <2>1, <2>3, <2>4, <1>a
<1>5. CASE ServerOpen
  <2>m. PICK m : m = Head(toServer)
      OBVIOUS
  <2>1. /\ toServer # <<>> /\ toServer' = Tail(toServer)
        /\ Sent(m) /\ m.cmd = "OPEN" /\ m.arg0 \in Ids
      BY <2>m, <1>5, <1>h DEF ServerOpen, ServerTakes, Sent
  <2>2. PICK l \in Ids : l = m.arg0
      BY <2>1
  <2>3. CASE Reply(Command("CLSE", 0, l, 0)) /\ UNCHANGED srv
    <3>1. SocketsKept
        BY <2>3 DEF SocketsKept
    <3> QED
        BY <2>1, <2>3, <3>1, <1>a, <1>z
  <2>4. ASSUME NEW r \in RemoteIds, srv[r].st = "idle",
               Reply(Command("OKAY", r, l, 0)),
               srv' = [srv EXCEPT ![r] = [Idle EXCEPT !.st = "open", !.peer = l,
                                                      !.credit = TRUE]]
        PROVE  Delivery'
    <3>1. /\ \A s \in RemoteIds : s # r => srv'[s] = srv[s]
          /\ srv'[r].peer = l /\ srv'[r].sent = 0
        BY <2>4, <1>t DEF Idle
    <3>2. srv[r].peer = 0 /\ srv[r].sent = 0
        BY <2>4 DEF Wiring, Ends, Delivery, Blank
    <3>3. \A s \in RemoteIds : srv[s].peer # l
        BY <2>1, <2>2 DEF Sent
    <3>4. Head(toServer) \in OkayBy(l)
        BY <2>m, <2>1, <2>2, <1>g
    <3>5. \A k \in Ids : ToProxyKeeps(k)
        BY <2>4, <1>z DEF ToProxyKeeps, Reply
    <3> QED
        BY <2>1, <3>1, <3>2, <3>3, <3>4, <3>5, <1>u, TurnServerGrants
  <2> QED
      BY <2>m, <2>2, <2>3, <2>4, <1>5 DEF ServerOpen
<1>6. ASSUME NEW r \in RemoteIds, ClientOpens(r) \/ ClientReads(r) \/ ClientCloses(r)
      PROVE  Delivery'
  <2>1. srv[r].peer \in {0} \cup Ids
      BY Basics
  <2>2. toProxy' = toProxy \/ \E e \in Commands(Nat) : e.cmd # "WRTE" /\ Reply(e)
      BY <2>1, <1>6, <1>z DEF ClientOpens, ClientReads, ClientCloses
  <2>3. toServer' = toServer
      BY <1>6 DEF ClientOpens, ClientReads, ClientCloses
  <2>4. SocketsKept
    <3>1. CASE ClientOpens(r)
        BY <3>1, <1>t DEF ClientOpens, SocketsKept, Sockets
    <3>2. CASE ClientReads(r)
      <4>1. srv' = [srv EXCEPT ![r].owes = FALSE]
          BY <3>2 DEF ClientReads
      <4> QED
          BY SMTT(20), <4>1, <1>t DEF SocketsKept, Sockets
    <3>3. CASE ClientCloses(r)
        BY <3>3, <1>t DEF ClientCloses, SocketsKept, Sockets
    <3> QED
        BY <1>6, <3>1, <3>2, <3>3
  <2> QED
      BY <2>2, <2>3, <2>4, <1>a
<1>7. ASSUME NEW r \in RemoteIds, ClientWrites(r)
      PROVE  Delivery'
    BY <1>7, TurnWrites
<1> QED
    BY <1>1, <1>2, <1>3, <1>4, <1>5, <1>6, <1>7 DEF ServerHandles

(* The loop of go() takes a command.                                       *)
LEMMA TurnRecv ==
    ASSUME TypeOK, TypeOK', Shape, Wiring, Wiring', [Next]_vars, Delivery, UNCHANGED srv,
           RecvSome
    PROVE  Delivery'
<1>c. chan \in [Ids -> Channels] /\ streams \subseteq Ids
    BY DEF TypeOK
<1>s. SocketsKept
    BY DEF SocketsKept
<1>u. /\ UNCHANGED <<streams, toServer, dev>>
      /\ toProxy # <<>> /\ toProxy' = Tail(toProxy)
    BY DEF RecvSome, RecvHandshake, RecvOpen, RecvClse, RecvOkay, RecvWrte, Recv, untouched
<1>1. ASSUME NEW k \in Ids, TasksKeep(k),
             chan' = chan \/ \E j, r : chan' = [chan EXCEPT ![j].rid = r]
      PROVE  Aside(k)
  <2>1. CASE chan' = chan
      BY <1>u, <1>1, <2>1 DEF Aside, ToProxyKeeps, ToServerKeeps
  <2>2. ASSUME NEW j, NEW r, chan' = [chan EXCEPT ![j].rid = r]
        PROVE  chan'[k].drain = chan[k].drain /\ chan'[k].open = chan[k].open
      BY <2>2, <1>c DEF Channels
  <2> QED
      BY <1>u, <1>1, <2>1, <2>2 DEF Aside, ToProxyKeeps, ToServerKeeps
<1>2. ASSUME NEW op \in {"open", "close", "ready"}, NEW l \in Ids, Spawn(op, l, 0)
      PROVE  \A k \in Ids : TasksKeep(k)
  <2>1. [op |-> op, id |-> l, data |-> 0] \in Tasks
      BY DEF Tasks
  <2> QED
      BY <1>2, <2>1 DEF TasksKeep, Spawn
<1>3. tasks' = tasks => \A k \in Ids : TasksKeep(k)
    BY DEF TasksKeep
<1>4. CASE RecvHandshake
    BY <1>4, <1>1, <1>3, <1>s, AllAside DEF RecvHandshake
<1>5. CASE RecvOpen
  <2>1. next_local_id \in Ids
      BY <1>5, Basics, ProxyAssumption DEF RecvOpen, Ids
  <2>2. \A k \in Ids : TasksKeep(k)
      BY <1>5, <2>1, <1>2 DEF RecvOpen
  <2>3. \E j, r : chan' = [chan EXCEPT ![j].rid = r]
      BY <1>5 DEF RecvOpen
  <2> QED
      BY <2>2, <2>3, <1>1, <1>s, AllAside
<1>6. CASE RecvClse
  <2>1. \A k \in Ids : TasksKeep(k)
      BY <1>6, <1>2, <1>3, <1>c DEF RecvClse
  <2> QED
      BY <1>6, <2>1, <1>1, <1>s, AllAside DEF RecvClse
<1>7. CASE RecvOkay
  <2>1. \A k \in Ids : TasksKeep(k)
      BY <1>7, <1>2, <1>3, <1>c DEF RecvOkay
  <2>2. chan' = chan \/ \E j, r : chan' = [chan EXCEPT ![j].rid = r]
      BY <1>7 DEF RecvOkay
  <2> QED
      BY <2>1, <2>2, <1>1, <1>s, AllAside
<1>8. CASE RecvWrte
  <2>1. CASE Head(toProxy).arg1 \in streams
      BY <1>8, <2>1, TurnRecvWrte
  <2>2. CASE Head(toProxy).arg1 \notin streams
    <3>1. tasks' = tasks /\ chan' = chan
        BY <1>8, <2>2 DEF RecvWrte, Target
    <3> QED
        BY <3>1, <1>1, <1>3, <1>s, AllAside
  <2> QED
      BY <2>1, <2>2
<1> QED
    BY <1>4, <1>5, <1>6, <1>7, <1>8 DEF RecvSome

LEMMA DeliveryStep ==
    ASSUME TypeOK, TypeOK', Shape, Wiring, Delivery, [Next]_vars
    PROVE  Delivery'
<1>c. chan \in [Ids -> Channels]
    BY DEF TypeOK
<1>w. Wiring'
    BY WiringStep
<1>a. ASSUME UNCHANGED <<tasks, toProxy, srv, streams>>,
             toServer' = toServer \/ toServer' = <<>>,
             \A k \in Ids : /\ chan'[k].drain = chan[k].drain /\ chan'[k].open = chan[k].open
                            /\ dev'[k].got = dev[k].got
      PROVE  Delivery'
  <2>1. \A k \in Ids : Aside(k)
      BY <1>a DEF Aside, TasksKeep, ToProxyKeeps, ToServerKeeps
  <2>2. SocketsKept
      BY <1>a DEF SocketsKept
  <2> QED
      BY <2>1, <2>2, <1>w, AllAside
<1>1. CASE UNCHANGED srv /\ RecvSome
    BY <1>1, <1>w, TurnRecv
<1>2. CASE UNCHANGED srv /\ ReverseAccept
    BY <1>2, <1>w, TurnReverse
<1>3. CASE UNCHANGED srv /\ (GoStops \/ GoEnds \/ GoInterrupted)
  <2>1. \A k \in Ids : chan'[k].drain = chan[k].drain /\ chan'[k].open = chan[k].open
    <3>1. CASE UNCHANGED chan
        BY <3>1
    <3>2. CASE chan' = [l \in Ids |-> IF l \in streams THEN [chan[l] EXCEPT !.td = "queued"]
                                                       ELSE chan[l]]
        BY <3>2, <1>c DEF Channels
    <3> QED
        BY <1>3, <3>1, <3>2 DEF GoStops, GoEnds, GoInterrupted
  <2> QED
      BY <1>3, <2>1, <1>a DEF GoStops, GoEnds, GoInterrupted
<1>4. ASSUME NEW l \in Ids, UNCHANGED srv,
             \/ StartSome(l) \/ WriteDrained(l) \/ OpenSome(l)
             \/ SinkSome(l) \/ CloserResumes(l) \/ TeardownClose(l)
      PROVE  Delivery'
  <2>1. Blank'
      BY <1>4 DEF Delivery, Blank
  <2>2. \A k \in Ids : Turn(k)'
      BY <1>4, TurnTasks DEF Delivery
  <2> QED
      BY <2>1, <2>2 DEF Delivery
<1>5. CASE ServerHandles \/ \E r \in RemoteIds :
               ClientOpens(r) \/ ClientWrites(r) \/ ClientReads(r) \/ ClientCloses(r)
    BY <1>5, <1>w, TurnServer
<1>6. CASE ServerLost \/ UNCHANGED vars
    BY <1>6, <1>a DEF ServerLost, proxySide, vars, proxyVars, loop
<1>7. ASSUME NEW l \in Ids, DeviceProduces(l) \/ DeviceEnds(l)
      PROVE  Delivery'
  <2>1. UNCHANGED <<chan, toProxy, srv, tasks, toServer, streams>>
      BY <1>7 DEF DeviceProduces, DeviceEnds, DeviceKeeps, loop
  <2>2. \A k \in Ids : dev'[k].got = dev[k].got
    <3>0. dev \in [Ids -> Devices]
        BY DEF TypeOK
    <3>1. CASE dev' = [dev EXCEPT ![l].made = @ + 1]
        BY <3>0, <3>1 DEF Devices
    <3>2. ASSUME NEW st, dev' = [dev EXCEPT ![l].st = st]
          PROVE  \A k \in Ids : dev'[k].got = dev[k].got
        BY <3>0, <3>2 DEF Devices
    <3> QED
        BY <1>7, <3>1, <3>2 DEF DeviceProduces, DeviceEnds
  <2> QED
      BY <2>1, <2>2, <1>a
<1> QED
    BY <1>1, <1>2, <1>3, <1>4, <1>5, <1>6, <1>7
    DEF Next, ProxyNext, ServerNext, DeviceNext

LEMMA DeliveryInit == Init => Delivery
<1> SUFFICES ASSUME Init PROVE Delivery
    OBVIOUS
<1>1. /\ \A l \in Ids : chan[l] = Unused /\ dev[l] = NoDevice
      /\ \A r \in RemoteIds : srv[r] = Idle
      /\ Len(tasks) = 0 /\ Len(toProxy) = 0
      /\ Len(toServer) = 1 /\ toServer[1].cmd = "CNXN"
    BY DEF Init, ProxyInit, Command
<1>2. Blank
    BY <1>1 DEF Blank, Idle
<1>3. ASSUME NEW l \in Ids PROVE Turn(l)
  <2>0. l # 0
      BY ProxyAssumption DEF Ids
  <2>1. ~HasSocket(l)
      BY <1>1, <2>0 DEF HasSocket, Idle
  <2>2. SocketOf(l) = Idle
      BY <2>1 DEF SocketOf, HasSocket
  <2>3. /\ \A S : Num(tasks, S) = 0 /\ Num(toProxy, S) = 0
        /\ Num(toServer, OkayBy(l)) = 0
      BY <1>1, NumNone DEF OkayBy
  <2>4. ~chan[l].drain /\ dev[l].got = 0 /\ ~SocketOf(l).credit
      BY <1>1, <2>2 DEF Unused, NoDevice, Idle
  <2>5. Turns(l) = 0
      BY <2>3, <2>4 DEF Turns, Bit
  <2> QED
      BY <2>1, <2>3, <2>4, <2>5 DEF Turn
<1> QED
    BY <1>2, <1>3 DEF Delivery

(* Whose turn it is: of the right of a client to write, its write on its   *)
(* way, the task that hands it over, the drain() of that and the OKAY for  *)
(* it there is one at most, and it is about the last write of the client   *)
(* (adb_proxy.py:77-89, 258-361).                                          *)
THEOREM DeliveryInvariant == Spec => []Delivery
<1>1. Init => Delivery
    BY DeliveryInit
<1>2. TypeOK /\ TypeOK' /\ Shape /\ Wiring /\ Delivery /\ [Next]_vars => Delivery'
    BY DeliveryStep
<1> QED
    BY <1>1, <1>2, SafetyInvariant, WiringInvariant, PTL DEF Spec

-----------------------------------------------------------------------------
(* The mapping: what a step does to the view of one stream.                *)
SameStream(l) == StreamState(l)' = StreamState(l) /\ dev'[l].got = dev[l].got

SameSocket(l) ==
    /\ SocketOf(l)'.sent = SocketOf(l).sent
    /\ Acked(SocketOf(l))' = Acked(SocketOf(l))

SameUnread(l) == Unread(l)' = Unread(l)

SameView(l) == SameStream(l) /\ SameSocket(l) /\ SameUnread(l)

(* A step of the service for l alone.                                      *)
ViewOpens(l) ==
    /\ StreamState(l) = "new" /\ StreamState(l)' = "open"
    /\ dev'[l].got = dev[l].got /\ SameSocket(l) /\ SameUnread(l)

ViewCloses(l) ==
    /\ StreamState(l) # "over" /\ StreamState(l)' = "over"
    /\ dev'[l].got = dev[l].got /\ SameSocket(l) /\ SameUnread(l)

ViewWrites(l) ==
    /\ StreamState(l) # "new"
    /\ SocketOf(l).sent = Acked(SocketOf(l))
    /\ SocketOf(l)'.sent = SocketOf(l).sent + 1
    /\ Acked(SocketOf(l))' = Acked(SocketOf(l))
    /\ SameStream(l) /\ SameUnread(l)

ViewDelivers(l) ==
    /\ StreamState(l) = "open" /\ dev[l].got < SocketOf(l).sent
    /\ dev'[l].got = dev[l].got + 1
    /\ StreamState(l)' \in {"open", "over"}
    /\ SameSocket(l) /\ SameUnread(l)

ViewAcknowledges(l) ==
    /\ Acked(SocketOf(l)) < SocketOf(l).sent
    /\ dev[l].got = SocketOf(l).sent \/ StreamState(l) = "over"
    /\ Acked(SocketOf(l))' = SocketOf(l).sent
    /\ SocketOf(l)'.sent = SocketOf(l).sent
    /\ SameStream(l) /\ SameUnread(l)

ViewSends(l) ==
    /\ StreamState(l) = "open" /\ Unread(l) = 0 /\ Unread(l)' = 1
    /\ SameStream(l) /\ SameSocket(l)

LEMMA ChangedAt ==
    ASSUME NEW S, NEW f, NEW g, NEW l \in S, NEW v,
           f = [k \in S |-> f[k]], g = [k \in S |-> g[k]],
           g[l] = v, \A k \in S : k # l => g[k] = f[k]
    PROVE  g = [f EXCEPT ![l] = v]
    OBVIOUS

LEMMA SameMap ==
    ASSUME NEW S, NEW f, NEW g,
           f = [k \in S |-> f[k]], g = [k \in S |-> g[k]],
           \A k \in S : g[k] = f[k]
    PROVE  g = f
    OBVIOUS

LEMMA ViewMaps ==
    ASSUME NEW l \in Ids, \A k \in Ids : k # l => SameView(k),
           \/ SameView(l) \/ ViewOpens(l) \/ ViewCloses(l) \/ ViewWrites(l)
           \/ ViewDelivers(l) \/ ViewAcknowledges(l) \/ ViewSends(l)
    PROVE  [Service!Next]_(Service!vars)
<1>1. PICK st, se, go1, ac, un, st1, se1, go2, ac1, un1 :
          /\ st = [k \in Ids |-> StreamState(k)] /\ st1 = [k \in Ids |-> StreamState(k)']
          /\ se = [k \in Ids |-> SocketOf(k).sent] /\ se1 = [k \in Ids |-> SocketOf(k)'.sent]
          /\ go1 = [k \in Ids |-> dev[k].got] /\ go2 = [k \in Ids |-> dev'[k].got]
          /\ ac = [k \in Ids |-> Acked(SocketOf(k))]
          /\ ac1 = [k \in Ids |-> Acked(SocketOf(k))']
          /\ un = [k \in Ids |-> Unread(k)] /\ un1 = [k \in Ids |-> Unread(k)']
    OBVIOUS
<1>a. /\ \A k \in Ids : /\ st[k] = StreamState(k) /\ st1[k] = StreamState(k)'
                        /\ se[k] = SocketOf(k).sent /\ se1[k] = SocketOf(k)'.sent
                        /\ go1[k] = dev[k].got /\ go2[k] = dev'[k].got
                        /\ ac[k] = Acked(SocketOf(k)) /\ ac1[k] = Acked(SocketOf(k))'
                        /\ un[k] = Unread(k) /\ un1[k] = Unread(k)'
    BY <1>1
<1>2. /\ st = [k \in Ids |-> st[k]] /\ st1 = [k \in Ids |-> st1[k]]
      /\ se = [k \in Ids |-> se[k]] /\ se1 = [k \in Ids |-> se1[k]]
      /\ go1 = [k \in Ids |-> go1[k]] /\ go2 = [k \in Ids |-> go2[k]]
      /\ ac = [k \in Ids |-> ac[k]] /\ ac1 = [k \in Ids |-> ac1[k]]
      /\ un = [k \in Ids |-> un[k]] /\ un1 = [k \in Ids |-> un1[k]]
    BY <1>1
<1>3. \A k \in Ids : k # l => /\ st1[k] = st[k] /\ se1[k] = se[k] /\ go2[k] = go1[k]
                              /\ ac1[k] = ac[k] /\ un1[k] = un[k]
    BY <1>a DEF SameView, SameStream, SameSocket, SameUnread
<1>4. /\ st1 = [st EXCEPT ![l] = st1[l]] /\ se1 = [se EXCEPT ![l] = se1[l]]
      /\ go2 = [go1 EXCEPT ![l] = go2[l]] /\ ac1 = [ac EXCEPT ![l] = ac1[l]]
      /\ un1 = [un EXCEPT ![l] = un1[l]]
  <2>1. st1 = [st EXCEPT ![l] = st1[l]]
      BY <1>2, <1>3, ChangedAt
  <2>2. se1 = [se EXCEPT ![l] = se1[l]]
      BY <1>2, <1>3, ChangedAt
  <2>3. go2 = [go1 EXCEPT ![l] = go2[l]]
      BY <1>2, <1>3, ChangedAt
  <2>4. ac1 = [ac EXCEPT ![l] = ac1[l]]
      BY <1>2, <1>3, ChangedAt
  <2>5. un1 = [un EXCEPT ![l] = un1[l]]
      BY <1>2, <1>3, ChangedAt
  <2> QED
      BY <2>1, <2>2, <2>3, <2>4, <2>5
<1>5. /\ st1[l] = st[l] => st1 = st
      /\ se1[l] = se[l] => se1 = se
      /\ go2[l] = go1[l] => go2 = go1
      /\ ac1[l] = ac[l] => ac1 = ac
      /\ un1[l] = un[l] => un1 = un
  <2>1. \A k \in Ids : st1[l] = st[l] => st1[k] = st[k]
      BY <1>3
  <2>2. \A k \in Ids : se1[l] = se[l] => se1[k] = se[k]
      BY <1>3
  <2>3. \A k \in Ids : go2[l] = go1[l] => go2[k] = go1[k]
      BY <1>3
  <2>4. \A k \in Ids : ac1[l] = ac[l] => ac1[k] = ac[k]
      BY <1>3
  <2>5. \A k \in Ids : un1[l] = un[l] => un1[k] = un[k]
      BY <1>3
  <2> QED
      BY <2>1, <2>2, <2>3, <2>4, <2>5, <1>2, SameMap
<1>6. CASE SameView(l)
  <2>1. st1 = st /\ se1 = se /\ go2 = go1 /\ ac1 = ac /\ un1 = un
      BY <1>a, <1>5, <1>6 DEF SameView, SameStream, SameSocket, SameUnread
  <2> QED
      BY <1>1, <2>1 DEF Service!vars
<1>7. CASE ViewOpens(l)
  <2>1. /\ st[l] = "new" /\ st1[l] = "open"
        /\ se1[l] = se[l] /\ go2[l] = go1[l] /\ ac1[l] = ac[l] /\ un1[l] = un[l]
      BY <1>a, <1>7 DEF ViewOpens, SameSocket, SameUnread
  <2>2. /\ st1 = [st EXCEPT ![l] = "open"]
        /\ se1 = se /\ go2 = go1 /\ ac1 = ac /\ un1 = un
      BY <2>1, <1>4, <1>5
  <2>3. Service!Opens(l)
      BY SMTT(20), <1>1, <2>1, <2>2 DEF Service!Opens
  <2> QED
      BY <2>3 DEF Service!Next
<1>8. CASE ViewCloses(l)
  <2>1. /\ st[l] # "over" /\ st1[l] = "over"
        /\ se1[l] = se[l] /\ go2[l] = go1[l] /\ ac1[l] = ac[l] /\ un1[l] = un[l]
      BY <1>a, <1>8 DEF ViewCloses, SameSocket, SameUnread
  <2>2. /\ st1 = [st EXCEPT ![l] = "over"]
        /\ se1 = se /\ go2 = go1 /\ ac1 = ac /\ un1 = un
      BY <2>1, <1>4, <1>5
  <2>3. Service!Closes(l)
      BY SMTT(20), <1>1, <2>1, <2>2 DEF Service!Closes
  <2> QED
      BY <2>3 DEF Service!Next
<1>9. CASE ViewWrites(l)
  <2>1. /\ st[l] # "new" /\ se[l] = ac[l] /\ se1[l] = se[l] + 1
        /\ st1[l] = st[l] /\ go2[l] = go1[l] /\ ac1[l] = ac[l] /\ un1[l] = un[l]
      BY <1>a, <1>9 DEF ViewWrites, SameStream, SameUnread
  <2>2. /\ se1 = [se EXCEPT ![l] = se[l] + 1]
        /\ st1 = st /\ go2 = go1 /\ ac1 = ac /\ un1 = un
      BY <2>1, <1>4, <1>5
  <2>3. Service!ClientWrites(l)
      BY SMTT(20), <1>1, <2>1, <2>2 DEF Service!ClientWrites
  <2> QED
      BY <2>3 DEF Service!Next
<1>10. CASE ViewDelivers(l)
  <2>1. /\ st[l] = "open" /\ go1[l] < se[l] /\ go2[l] = go1[l] + 1
        /\ st1[l] \in {st[l], "over"}
        /\ se1[l] = se[l] /\ ac1[l] = ac[l] /\ un1[l] = un[l]
      BY <1>a, <1>10 DEF ViewDelivers, SameSocket, SameUnread
  <2>2. /\ go2 = [go1 EXCEPT ![l] = go1[l] + 1]
        /\ st1 = st \/ st1 = [st EXCEPT ![l] = "over"]
        /\ se1 = se /\ ac1 = ac /\ un1 = un
      BY <2>1, <1>4, <1>5
  <2>3. Service!Delivers(l)
      BY SMTT(20), <1>1, <2>1, <2>2 DEF Service!Delivers
  <2> QED
      BY <2>3 DEF Service!Next
<1>11. CASE ViewAcknowledges(l)
  <2>1. /\ ac[l] < se[l] /\ (go1[l] = se[l] \/ st[l] = "over") /\ ac1[l] = se[l]
        /\ st1[l] = st[l] /\ se1[l] = se[l] /\ go2[l] = go1[l] /\ un1[l] = un[l]
      BY <1>a, <1>11 DEF ViewAcknowledges, SameStream, SameUnread
  <2>2. /\ ac1 = [ac EXCEPT ![l] = se[l]]
        /\ st1 = st /\ se1 = se /\ go2 = go1 /\ un1 = un
      BY <2>1, <1>4, <1>5
  <2>3. Service!Acknowledges(l)
      BY SMTT(20), <1>1, <2>1, <2>2 DEF Service!Acknowledges
  <2> QED
      BY <2>3 DEF Service!Next
<1>12. CASE ViewSends(l)
  <2>1. /\ st[l] = "open" /\ un[l] = 0 /\ un1[l] = 1
        /\ st1[l] = st[l] /\ se1[l] = se[l] /\ go2[l] = go1[l] /\ ac1[l] = ac[l]
      BY <1>a, <1>12 DEF ViewSends, SameStream, SameSocket
  <2>2. /\ un1 = [un EXCEPT ![l] = 1]
        /\ st1 = st /\ se1 = se /\ go2 = go1 /\ ac1 = ac
      BY <2>1, <1>4, <1>5
  <2>3. Service!DeviceSends(l)
      BY SMTT(20), <1>1, <2>1, <2>2 DEF Service!DeviceSends
  <2> QED
      BY <2>3 DEF Service!Next
<1> QED
    BY <1>6, <1>7, <1>8, <1>9, <1>10, <1>11, <1>12

LEMMA ViewVanishes ==
    ASSUME \A k \in Ids : SameStream(k) /\ SameSocket(k) /\ Unread(k)' \in {0, Unread(k)}
    PROVE  [Service!Next]_(Service!vars)
<1>1. PICK st, se, go1, ac, un, st1, se1, go2, ac1, un1 :
          /\ st = [k \in Ids |-> StreamState(k)] /\ st1 = [k \in Ids |-> StreamState(k)']
          /\ se = [k \in Ids |-> SocketOf(k).sent] /\ se1 = [k \in Ids |-> SocketOf(k)'.sent]
          /\ go1 = [k \in Ids |-> dev[k].got] /\ go2 = [k \in Ids |-> dev'[k].got]
          /\ ac = [k \in Ids |-> Acked(SocketOf(k))]
          /\ ac1 = [k \in Ids |-> Acked(SocketOf(k))']
          /\ un = [k \in Ids |-> Unread(k)] /\ un1 = [k \in Ids |-> Unread(k)']
    OBVIOUS
<1>2. st1 = st /\ se1 = se /\ go2 = go1 /\ ac1 = ac
    BY <1>1 DEF SameStream, SameSocket
<1>3. PICK S \in SUBSET Ids : un1 = [k \in Ids |-> IF k \in S THEN 0 ELSE un[k]]
  <2>1. PICK S : S = {k \in Ids : un1[k] = 0}
      OBVIOUS
  <2>2. un1 = [k \in Ids |-> IF k \in S THEN 0 ELSE un[k]]
      BY <1>1, <2>1
  <2>3. S \in SUBSET Ids
      BY <2>1
  <2> QED
      BY <2>2, <2>3
<1>4. Service!Vanish
  <2>1. /\ [k \in Ids |-> Unread(k)]' = [k \in Ids |-> IF k \in S THEN 0
                                                       ELSE [j \in Ids |-> Unread(j)][k]]
        /\ UNCHANGED <<[k \in Ids |-> StreamState(k)], [k \in Ids |-> SocketOf(k).sent],
                       [k \in Ids |-> dev[k].got], [k \in Ids |-> Acked(SocketOf(k))]>>
      BY <1>1, <1>2, <1>3
  <2> QED
      BY <2>1, <1>3 DEF Service!Vanish
<1> QED
    BY <1>4 DEF Service!Next

-----------------------------------------------------------------------------
(* The view of one stream, before and after a step.                        *)
WrtesBy(l) == {m \in Commands(Ids) : m.cmd = "WRTE" /\ m.arg0 = l}

LEMMA StateIs ==
    ASSUME NEW l \in Ids, ShapeOf(l)
    PROVE  /\ l \in streams \/ Answering(l) => StreamState(l) = "open"
           /\ Fresh(chan[l]) => StreamState(l) = "new" /\ l \notin streams
           /\ ~(l \in streams \/ Answering(l) \/ Fresh(chan[l])) => StreamState(l) = "over"
<1>1. Fresh(chan[l]) => l \notin streams /\ ~Answering(l)
    BY DEF ShapeOf, Fresh, Answering
<1> QED
    BY <1>1 DEF StreamState, Fresh

LEMMA StateIsNext ==
    ASSUME NEW l \in Ids, ShapeOf(l)'
    PROVE  /\ l \in streams' \/ Answering(l)' => StreamState(l)' = "open"
           /\ Fresh(chan'[l]) => StreamState(l)' = "new" /\ l \notin streams'
           /\ ~(l \in streams' \/ Answering(l)' \/ Fresh(chan'[l])) => StreamState(l)' = "over"
<1>1. Fresh(chan'[l]) => l \notin streams' /\ ~Answering(l)'
    BY DEF ShapeOf, Fresh, Answering
<1> QED
    BY <1>1 DEF StreamState, Fresh

LEMMA SameState ==
    ASSUME NEW l \in Ids, l \in streams' <=> l \in streams, chan'[l].open = chan[l].open
    PROVE  StreamState(l)' = StreamState(l)
    BY DEF StreamState, Answering

(* A stream that goes on is in the same state, or over.                    *)
LEMMA GoesState ==
    ASSUME NEW l \in Ids, ShapeOf(l), ShapeOf(l)', Goes(l)
    PROVE  StreamState(l)' \in {StreamState(l), "over"}
<1>1. CASE l \in streams'
    BY <1>1, StateIs, StateIsNext DEF Goes
<1>2. CASE l \notin streams' /\ chan'[l].open = "ended"
    BY <1>2, StateIsNext DEF Answering, Fresh
<1>3. CASE l \notin streams' /\ chan'[l].open = chan[l].open
  <2>1. CASE l \in streams
    <3>1. ~Answering(l)' /\ ~Fresh(chan'[l])
        BY <2>1, <1>3 DEF ShapeOf, Answering, Fresh
    <3> QED
        BY <3>1, <1>3, StateIsNext
  <2>2. CASE l \notin streams
      BY <2>2, <1>3, SameState
  <2> QED
      BY <2>1, <2>2
<1>4. CASE l \notin streams' /\ chan[l].open = "none" /\ chan'[l].open = "connecting"
    BY <1>4, StateIs, StateIsNext DEF Fresh
<1> QED
    BY <1>1, <1>2, <1>3, <1>4 DEF Goes

LEMMA CountWrtes ==
    ASSUME NEW q \in Seq(Commands(Ids)), NEW l
    PROVE  Count(q, LAMBDA m : m.cmd = "WRTE" /\ m.arg0 = l) = Num(q, WrtesBy(l))
<1>1. {i \in DOMAIN q : q[i].cmd = "WRTE" /\ q[i].arg0 = l} = Places(q, WrtesBy(l))
    BY DEF Places, WrtesBy
<1> QED
    BY <1>1 DEF Count, Num

LEMMA UnreadIs ==
    ASSUME TypeOK, NEW l \in Ids
    PROVE  /\ Unread(l) = Num(toServer, WrtesBy(l)) + Bit(SocketOf(l).owes)
           /\ Num(toServer, WrtesBy(l)) \in Nat /\ Bit(SocketOf(l).owes) \in {0, 1}
<1>1. toServer \in Seq(Commands(Ids))
    BY DEF TypeOK
<1>2. Count(toServer, LAMBDA m : m.cmd = "WRTE" /\ m.arg0 = l) = Num(toServer, WrtesBy(l))
    BY <1>1, CountWrtes
<1>3. Num(toServer, WrtesBy(l)) \in Nat
    BY <1>1, PlacesFinite
<1> QED
    BY <1>2, <1>3 DEF Unread, Bit

LEMMA UnreadIsNext ==
    ASSUME TypeOK', NEW l \in Ids
    PROVE  /\ Unread(l)' = Num(toServer', WrtesBy(l)) + Bit(SocketOf(l)'.owes)
           /\ Num(toServer', WrtesBy(l)) \in Nat /\ Bit(SocketOf(l)'.owes) \in {0, 1}
<1>1. toServer' \in Seq(Commands(Ids))
    BY DEF TypeOK
<1>2. Num(toServer', WrtesBy(l)) \in Nat
    BY <1>1, PlacesFinite
<1>3. Unread(l)' = Num(toServer', WrtesBy(l)) + (IF SocketOf(l)'.owes THEN 1 ELSE 0)
  <2>1. {i \in DOMAIN toServer' : toServer'[i].cmd = "WRTE" /\ toServer'[i].arg0 = l}
            = Places(toServer', WrtesBy(l))
      BY <1>1 DEF Places, WrtesBy
  <2> QED
      BY <2>1 DEF Unread, Count, Num
<1> QED
    BY <1>2, <1>3 DEF Bit

(* A payload that is not read takes the token of its stream.               *)
LEMMA UnreadSmall ==
    ASSUME TypeOK, Wiring, Flow, NEW l \in Ids
    PROVE  /\ Unread(l) \in {0, 1}
           /\ Early(chan[l]) \/ chan[l].sink = "read" => Unread(l) = 0
<1>1. WrtesBy(l) \in SUBSET SentBy(l)
    BY DEF WrtesBy, SentBy
<1>2. Num(toServer, WrtesBy(l)) <= Num(toServer, SentBy(l))
    BY <1>1, Basics, NumIncluded
<1>3. Bit(SocketOf(l).owes) <= Owing(l)
  <2>1. SocketOf(l).owes => \E r \in RemoteIds : srv[r].peer = l /\ srv[r].owes
      BY SocketIs DEF Idle
  <2> QED
      BY <2>1 DEF Owing, Bit
<1>4. Tokens(l) <= 1 /\ (Early(chan[l]) => Tokens(l) = 0)
    BY DEF Flow
<1>5. Held(l) + Unread(l) <= Tokens(l) /\ Unread(l) \in Nat
    BY <1>2, <1>3, UnreadIs, TokenTypes DEF Tokens
<1>6. chan[l].sink = "read" => Held(l) # 0
    BY Basics DEF Held, HeldBy, Bit, Channels
<1>7. Held(l) \in Nat /\ Tokens(l) \in Nat
    BY TokenTypes
<1>8. Early(chan[l]) => Unread(l) = 0
    BY <1>4, <1>5, <1>7
<1>9. chan[l].sink = "read" => Unread(l) = 0
    BY <1>4, <1>5, <1>6, <1>7
<1>10. Unread(l) \in {0, 1}
    BY <1>4, <1>5, <1>7
<1> QED
    BY <1>8, <1>9, <1>10

LEMMA UnreadSmallNext ==
    ASSUME TypeOK', Wiring', Flow', NEW l \in Ids
    PROVE  Unread(l)' \in {0, 1}
<1>1. WrtesBy(l) \in SUBSET SentBy(l) /\ toServer' \in Seq(Commands(Ids))
    BY DEF WrtesBy, SentBy, TypeOK
<1>2. Num(toServer', WrtesBy(l)) <= Num(toServer', SentBy(l))
    BY <1>1, NumIncluded
<1>3. Bit(SocketOf(l)'.owes) <= Owing(l)'
  <2>1. SocketOf(l)'.owes => \E r \in RemoteIds : srv'[r].peer = l /\ srv'[r].owes
      BY SocketIsNext DEF Idle
  <2> QED
      BY <2>1 DEF Owing, Bit
<1>4. Tokens(l)' <= 1
    BY DEF Flow
<1>5. Num(toServer, SentBy(l))' + Owing(l)' <= Tokens(l)'
    BY TokenTypesNext DEF Tokens
<1>6. Num(toServer, SentBy(l))' \in Nat /\ Owing(l)' \in Nat /\ Tokens(l)' \in Nat
    BY TokenTypesNext
<1> QED
    BY <1>2, <1>3, <1>4, <1>5, <1>6, UnreadIsNext

(* What sending does to it.                                                *)
LEMMA SaysUnread ==
    ASSUME TypeOK, TypeOK', NEW l \in Ids, NEW cmd, Says(cmd, l), UNCHANGED srv
    PROVE  /\ \A k \in Ids : k # l \/ cmd # "WRTE" => SameUnread(k)
           /\ Unread(l)' \in {Unread(l), Unread(l) + 1}
<1>1. \A k \in Ids : SocketOf(k)' = SocketOf(k)
    BY DEF SocketOf
<1>2. ASSUME NEW k \in Ids
      PROVE  /\ k # l \/ cmd # "WRTE" =>
                 Num(toServer', WrtesBy(k)) = Num(toServer, WrtesBy(k))
             /\ Num(toServer', WrtesBy(k)) \in
                 {Num(toServer, WrtesBy(k)), Num(toServer, WrtesBy(k)) + 1}
  <2>0. toServer \in Seq(Commands(Ids)) /\ Num(toServer, WrtesBy(k)) \in Nat
      BY Basics, UnreadIs
  <2>1. CASE toServer' = toServer
      BY <2>1
  <2>2. ASSUME NEW m \in Commands(Ids), m.cmd = cmd, cmd # "CLSE" => m.arg0 = l,
               toServer' = Append(toServer, m)
        PROVE  /\ k # l \/ cmd # "WRTE" =>
                   Num(toServer', WrtesBy(k)) = Num(toServer, WrtesBy(k))
               /\ Num(toServer', WrtesBy(k)) \in
                   {Num(toServer, WrtesBy(k)), Num(toServer, WrtesBy(k)) + 1}
    <3>1. Num(toServer', WrtesBy(k)) =
              Num(toServer, WrtesBy(k)) + (IF m \in WrtesBy(k) THEN 1 ELSE 0)
        BY <2>0, <2>2, NumAppend
    <3>2. m \in WrtesBy(k) => cmd = "WRTE" /\ k = l
        BY <2>2 DEF WrtesBy
    <3> QED
        BY <2>0, <3>1, <3>2
  <2> QED
      BY <2>1, <2>2 DEF Says
<1> QED
    BY <1>1, <1>2, UnreadIs, UnreadIsNext DEF SameUnread

-----------------------------------------------------------------------------
(* Every step is a step of the service, or none.                           *)
LEMMA SameSockets ==
    ASSUME UNCHANGED srv
    PROVE  \A k \in Ids : SameSocket(k) /\ SocketOf(k)' = SocketOf(k)
    BY DEF SameSocket, SocketOf, Acked

LEMMA ViewTasks ==
    ASSUME TypeOK, TypeOK', Shape, Shape', Wiring, Flow, Delivery, NEW l \in Ids,
           UNCHANGED srv,
           \/ StartSome(l) \/ WriteDrained(l) \/ OpenSome(l)
           \/ SinkSome(l) \/ CloserResumes(l) \/ TeardownClose(l)
    PROVE  [Service!Next]_(Service!vars)
<1>k. Keeps(l) \/ Resumes(l) \/ Begins(l) \/ Produces(l) \/ Skips(l) \/ Hands(l)
    BY TaskKinds
<1>s. ShapeOf(l) /\ ShapeOf(l)'
    BY DEF Shape
<1>w. SameSocket(l)
    BY SameSockets
<1>o. \A k \in Ids : k # l => SameView(k)
  <2> SUFFICES ASSUME NEW k \in Ids, k # l PROVE SameView(k)
      OBVIOUS
  <2>1. chan'[k] = chan[k]
      BY TasksQuiet DEF Quiet
  <2>2. (k \in streams' <=> k \in streams) /\ dev'[k].got = dev[k].got
      BY TaskKinds
  <2>3. SameStream(k)
      BY <2>1, <2>2, SameState DEF SameStream
  <2>4. \E cmd \in {"OKAY", "WRTE", "CLSE"} : Says(cmd, l)
      BY <1>k DEF Keeps, Resumes, Begins, Produces, Skips, Hands
  <2>5. SameUnread(k)
      BY <2>4, SaysUnread
  <2> QED
      BY <2>3, <2>5, SameSockets DEF SameView
<1>g. Goes(l) => StreamState(l)' \in {StreamState(l), "over"}
    BY <1>s, GoesState
<1>u. Says("OKAY", l) \/ Says("CLSE", l) => SameUnread(l)
    BY SaysUnread
<1>1. ASSUME Goes(l), dev'[l].got = dev[l].got, Says("OKAY", l) \/ Says("CLSE", l)
      PROVE  SameView(l) \/ ViewCloses(l)
    BY <1>1, <1>g, <1>u, <1>w DEF SameView, SameStream, ViewCloses
<1>2. CASE Keeps(l) \/ Resumes(l) \/ Skips(l)
  <2>1. SameView(l) \/ ViewCloses(l)
      BY <1>1, <1>2 DEF Keeps, Resumes, Skips, Same
  <2> QED
      BY <2>1, <1>o, ViewMaps
<1>3. CASE Begins(l)
  <2>1. StreamState(l) = "new"
      BY <1>3, <1>s, StateIs DEF Begins, Fresh
  <2>2. StreamState(l)' = "open"
      BY <1>3, <1>s, StateIsNext DEF Begins, Answering
  <2>3. ViewOpens(l)
      BY <1>3, <2>1, <2>2, <1>u, <1>w DEF Begins, Same, ViewOpens
  <2> QED
      BY <2>3, <1>o, ViewMaps
<1>4. CASE Produces(l)
  <2>1. StreamState(l) = "open"
      BY <1>4, <1>s, StateIs DEF Produces, Answering
  <2>2. StreamState(l)' = "open"
      BY <1>4, <1>s, StateIsNext DEF Produces, Answering
  <2>3. Unread(l) = 0
      BY <1>4, UnreadSmall DEF Produces, Early
  <2>4. Unread(l)' \in {0, 1}
      BY <1>4, <2>3, SaysUnread DEF Produces
  <2>5. SameView(l) \/ ViewSends(l)
      BY <1>4, <2>1, <2>2, <2>3, <2>4, <1>w
      DEF Produces, Same, SameView, SameStream, SameUnread, ViewSends
  <2> QED
      BY <2>5, <1>o, ViewMaps
<1>5. CASE Hands(l)
  <2>0. Turn(l) /\ tasks \in Seq(Tasks) /\ tasks # <<>>
      BY <1>5, Basics DEF Delivery, Hands, WriteTask
  <2>1. Head(tasks) \in WritesFor(l)
      BY <1>5, <2>0, TailType DEF Hands, WriteTask, WritesFor
  <2>2. Head(tasks).data = Written(l)
    <3>1. Head(tasks) \notin TasksBut(l, Written(l))
        BY <2>0, NumHead DEF Turn
    <3> QED
        BY <2>1, <3>1 DEF TasksBut
  <2>3. dev[l].got + 1 = Written(l)
    <3>1. Num(tasks, WritesFor(l)) # 0
        BY <2>0, <2>1, NumHead
    <3> QED
        BY <1>5, <2>0, <3>1 DEF Turn, Comes, Hands
  <2>4. dev[l].got \in Nat
      BY DEF TypeOK, Devices
  <2>5. dev'[l].got = dev[l].got + 1 /\ dev[l].got < SocketOf(l).sent
      BY <1>5, <2>2, <2>3, <2>4 DEF Hands, Written
  <2>6. StreamState(l) = "open"
      BY <1>5, <1>s, StateIs DEF Hands
  <2>7. StreamState(l)' \in {"open", "over"} /\ SameUnread(l)
      BY <1>5, <2>6, <1>g, <1>u DEF Hands
  <2>8. ViewDelivers(l)
      BY <2>5, <2>6, <2>7, <1>w DEF ViewDelivers
  <2> QED
      BY <2>8, <1>o, ViewMaps
<1> QED
    BY <1>k, <1>2, <1>3, <1>4, <1>5

(* Steps that no client notices.                                           *)
LEMMA ViewStill ==
    ASSUME TypeOK, TypeOK', UNCHANGED streams,
           \A k \in Ids : /\ chan'[k].open = chan[k].open /\ dev'[k].got = dev[k].got
                          /\ SameSocket(k)
                          /\ SocketOf(k)'.owes = SocketOf(k).owes,
           toServer' = toServer
               \/ (toServer # <<>> /\ toServer' = Tail(toServer) /\ Head(toServer).cmd # "WRTE")
    PROVE  [Service!Next]_(Service!vars)
<1>1. ASSUME NEW k \in Ids
      PROVE  SameStream(k) /\ SameSocket(k) /\ SameUnread(k)
  <2>1. SameStream(k)
      BY SameState DEF SameStream
  <2>2. Num(toServer', WrtesBy(k)) = Num(toServer, WrtesBy(k))
    <3>1. CASE toServer' = toServer
        BY <3>1
    <3>2. CASE toServer # <<>> /\ toServer' = Tail(toServer) /\ Head(toServer).cmd # "WRTE"
      <4>1. Head(toServer) \notin WrtesBy(k)
          BY <3>2 DEF WrtesBy
      <4> QED
          BY <3>2, <4>1, Basics, NumTail, UnreadIsNext
    <3> QED
        BY <3>1, <3>2
  <2>3. SameUnread(k)
      BY <2>2, UnreadIs, UnreadIsNext DEF SameUnread, Bit
  <2> QED
      BY <2>1, <2>3
<1>2. \A k \in Ids : SameStream(k) /\ SameSocket(k) /\ Unread(k)' \in {0, Unread(k)}
    BY <1>1 DEF SameUnread
<1> QED
    BY <1>2, ViewVanishes

LEMMA SocketViews ==
    ASSUME TypeOK, TypeOK', Shape, Wiring, Wiring', [Next]_vars, SocketsKept, NEW k \in Ids
    PROVE  /\ SameSocket(k)
           /\ (\A r \in RemoteIds : srv'[r].owes = srv[r].owes) =>
                  SocketOf(k)'.owes = SocketOf(k).owes
<1>1. SameSocket(k)
    BY SocketStays DEF SameSocket, Acked
<1>2. ~(\E r \in RemoteIds : srv[r].peer = 0 /\ srv'[r].peer = k)
    BY Basics DEF SocketsKept
<1>3. (\A r \in RemoteIds : srv'[r].owes = srv[r].owes) =>
          SocketOf(k)'.owes = SocketOf(k).owes
    BY <1>2, SocketCases
<1> QED
    BY <1>1, <1>3

(* Payloads are read, or lost.                                             *)
LEMMA ViewFewer ==
    ASSUME TypeOK, TypeOK', Shape, Wiring, Wiring', Flow, Flow', [Next]_vars, SocketsKept,
           UNCHANGED <<streams, chan, dev>>,
           \A k \in Ids : Unread(k) = 0 =>
               Num(toServer', WrtesBy(k)) = 0 /\ ~SocketOf(k)'.owes
    PROVE  [Service!Next]_(Service!vars)
<1>1. ASSUME NEW k \in Ids
      PROVE  SameStream(k) /\ SameSocket(k) /\ Unread(k)' \in {0, Unread(k)}
  <2>1. SameStream(k)
      BY SameState DEF SameStream
  <2>2. SameSocket(k)
      BY SocketViews
  <2>3. Unread(k) \in {0, 1} /\ Unread(k)' \in {0, 1}
      BY UnreadSmall, UnreadSmallNext
  <2>4. Unread(k) = 0 => Unread(k)' = 0
    <3>1. Unread(k)' = Num(toServer', WrtesBy(k)) + Bit(SocketOf(k)'.owes)
        BY UnreadIsNext
    <3> QED
        BY <3>1 DEF Bit
  <2> QED
      BY <2>1, <2>2, <2>3, <2>4
<1> QED
    BY <1>1, ViewVanishes

LEMMA ViewReverse ==
    ASSUME TypeOK, TypeOK', Shape, Shape', Wiring, UNCHANGED srv, ReverseAccept
    PROVE  [Service!Next]_(Service!vars)
<1>0. PICK l : l = next_local_id
    OBVIOUS
<1>c. chan \in [Ids -> Channels] /\ dev \in [Ids -> Devices]
    BY DEF TypeOK
<1>1. /\ l \in Ids /\ Command("OPEN", l, 0, 0) \in Commands(Ids)
      /\ Command("OPEN", l, 0, 0).cmd = "OPEN" /\ Command("OPEN", l, 0, 0).arg0 = l
  <2>1. l \in Ids
      BY <1>0, Basics, ProxyAssumption DEF ReverseAccept, Ids
  <2> QED
      BY <2>1, MakeCommand DEF Command
<1>2. /\ streams' = streams \cup {l}
      /\ \A k \in Ids : dev'[k].got = dev[k].got /\ (k # l => chan'[k] = chan[k])
      /\ Send(Command("OPEN", l, 0, 0))
    BY <1>0, <1>1, <1>c DEF ReverseAccept, Register, Devices
<1>3. Says("OPEN", l)
    BY <1>1, <1>2 DEF Says, Send
<1>4. \A k \in Ids : SameSocket(k) /\ SameUnread(k)
    BY <1>1, <1>3, SaysUnread, SameSockets
<1>5. \A k \in Ids : k # l => SameView(k)
    BY <1>2, <1>4, SameState DEF SameView, SameStream
<1>6. StreamState(l) = "new"
  <2>1. ShapeOf(l)
      BY <1>1 DEF Shape
  <2>2. Fresh(chan[l])
      BY <1>0, <1>1, <2>1, Basics DEF ShapeOf, Fresh
  <2> QED
      BY <1>1, <2>1, <2>2, StateIs
<1>7. StreamState(l)' = "open"
  <2>1. ShapeOf(l)'
      BY <1>1 DEF Shape
  <2> QED
      BY <1>1, <1>2, <2>1, StateIsNext
<1>8. ViewOpens(l)
    BY <1>1, <1>2, <1>4, <1>6, <1>7 DEF ViewOpens
<1> QED
    BY <1>1, <1>5, <1>8, ViewMaps

(* The ADB server takes an OKAY or an OPEN: what was written is acked.     *)
LEMMA ViewGrants ==
    ASSUME TypeOK, TypeOK', Shape, Wiring, Wiring', [Next]_vars, Delivery,
           NEW l \in Ids, NEW r \in RemoteIds, srv[r].peer \in {0, l},
           toServer # <<>>, toServer' = Tail(toServer), Head(toServer) \in OkayBy(l),
           UNCHANGED <<dev, chan, streams>>,
           \A s \in RemoteIds : s # r => srv'[s] = srv[s],
           srv'[r].peer = l, srv'[r].sent = srv[r].sent, srv'[r].credit,
           srv'[r].owes = srv[r].owes,
           \A s \in RemoteIds : srv[s].peer = l => s = r
    PROVE  [Service!Next]_(Service!vars)
<1>0. l # 0 /\ toServer \in Seq(Commands(Ids)) /\ Turn(l)
    BY Basics DEF Delivery
<1>s. \A k \in Ids : SameStream(k)
    BY SameState DEF SameStream
<1>n. \A k \in Ids : Num(toServer', WrtesBy(k)) = Num(toServer, WrtesBy(k))
  <2> TAKE k \in Ids
  <2>1. Head(toServer) \notin WrtesBy(k)
      BY DEF WrtesBy, OkayBy
  <2> QED
      BY <2>1, <1>0, NumTail, UnreadIsNext
<1>1. \A k \in Ids : k # l => SameView(k)
  <2> SUFFICES ASSUME NEW k \in Ids, k # l PROVE SameView(k)
      OBVIOUS
  <2>1. \A s \in RemoteIds : srv'[s].peer = k => s # r
      OBVIOUS
  <2>2. ~(\E s \in RemoteIds : srv[s].peer = 0 /\ srv'[s].peer = k)
      BY <2>1, Basics
  <2>3. SocketOf(k)' = SocketOf(k)
    <3>1. \A s \in RemoteIds : srv'[s].peer = k => srv'[s] = srv[s]
        BY <2>1
    <3> QED
        BY <2>2, <3>1, SocketCases
  <2>4. SameSocket(k)
      BY <2>3 DEF SameSocket, Acked
  <2>5. SameUnread(k)
      BY <2>3, <1>n, UnreadIs, UnreadIsNext DEF SameUnread
  <2> QED
      BY <2>4, <2>5, <1>s DEF SameView
<1>2. SocketOf(l)' = srv'[r]
    BY SocketIsNext
<1>3. /\ SocketOf(l).sent = srv[r].sent
      /\ SocketOf(l).owes = srv[r].owes
  <2>1. CASE srv[r].peer = l
      BY <2>1, SocketIs
  <2>2. CASE srv[r].peer = 0
    <3>1. SocketOf(l) = Idle
        BY <2>2, <1>0, SocketIs
    <3>2. srv[r].sent = 0
        BY <2>2 DEF Delivery, Blank
    <3>3. srv[r].owes = FALSE
      <4>1. ~srv[r].owes
          BY <2>2 DEF Wiring, Ends
      <4>2. srv[r].owes \in BOOLEAN
          BY DEF TypeOK, Sockets
      <4> QED
          BY <4>1, <4>2
    <3>4. Idle.sent = 0 /\ Idle.owes = FALSE
        BY DEF Idle
    <3> QED
        BY ZenonT(20), <3>1, <3>2, <3>3, <3>4
  <2> QED
      BY <2>1, <2>2
<1>4. SameUnread(l)
  <2>1. SocketOf(l)'.owes = SocketOf(l).owes
      BY <1>2, <1>3
  <2> QED
      BY <2>1, <1>n, UnreadIs, UnreadIsNext DEF SameUnread
<1>5. /\ SocketOf(l)'.sent = SocketOf(l).sent
      /\ Acked(SocketOf(l))' = SocketOf(l).sent
    BY <1>2, <1>3 DEF Acked
<1>6. Past(l) \/ dev[l].got = SocketOf(l).sent
  <2>1. Num(toServer, OkayBy(l)) # 0
      BY <1>0, NumHead
  <2> QED
      BY <1>0, <2>1 DEF Turn, Written
<1>7. Past(l) => StreamState(l) = "over"
  <2>1. ShapeOf(l)
      BY DEF Shape
  <2>2. Past(l) => ~(l \in streams \/ Answering(l) \/ Fresh(chan[l]))
      BY DEF Past, Opened, Answering, Fresh
  <2> QED
      BY <2>1, <2>2, StateIs
<1>8. SocketOf(l).sent \in Nat
    BY <1>3 DEF TypeOK, Sockets
<1>9. Acked(SocketOf(l)) = SocketOf(l).sent \/ Acked(SocketOf(l)) < SocketOf(l).sent
    BY <1>8 DEF Acked
<1>10. SameView(l) \/ ViewAcknowledges(l)
    BY <1>s, <1>4, <1>5, <1>6, <1>7, <1>9
    DEF SameView, SameStream, SameSocket, ViewAcknowledges
<1> QED
    BY <1>1, <1>10, ViewMaps

(* A client writes.                                                        *)
LEMMA ViewClientWrites ==
    ASSUME TypeOK, TypeOK', Shape, Wiring, Wiring', [Next]_vars, Delivery,
           NEW r \in RemoteIds, ClientWrites(r)
    PROVE  [Service!Next]_(Service!vars)
<1>0. PICK l : l = srv[r].peer
    OBVIOUS
<1>1. /\ srv[r].st = "open" /\ srv[r].credit
      /\ srv' = [srv EXCEPT ![r].sent = @ + 1, ![r].credit = FALSE]
      /\ UNCHANGED <<dev, chan, streams, toServer>>
    BY DEF ClientWrites, proxySide
<1>2. srv \in [RemoteIds -> Sockets] /\ srv[r] \in Sockets
    BY DEF TypeOK
<1>3. l \in Ids /\ l # 0 /\ srv[r].sent \in Nat
    BY <1>0, <1>1, <1>2, Basics DEF Wiring, Ends, Sockets
<1>5. /\ \A s \in RemoteIds : s # r => srv'[s] = srv[s]
      /\ \A s \in RemoteIds : srv'[s].peer = srv[s].peer
      /\ srv'[r].sent = srv[r].sent + 1 /\ ~srv'[r].credit
    BY <1>1, <1>2 DEF Sockets
<1>b. srv'[r].owes = srv[r].owes
    BY ZenonT(20), <1>1, <1>2 DEF Sockets
<1>6. \A k \in Ids : SameStream(k)
    BY <1>1, SameState DEF SameStream
<1>7. \A k \in Ids : k # l => SameView(k)
  <2> SUFFICES ASSUME NEW k \in Ids, k # l PROVE SameView(k)
      OBVIOUS
  <2>1. SocketOf(k)' = SocketOf(k)
    <3>1. ~(\E s \in RemoteIds : srv[s].peer = 0 /\ srv'[s].peer = k)
        BY <1>5, Basics
    <3>2. \A s \in RemoteIds : srv'[s].peer = k => srv'[s] = srv[s]
        BY <1>0, <1>5
    <3> QED
        BY <3>1, <3>2, SocketCases
  <2>2. SameSocket(k)
      BY <2>1 DEF SameSocket, Acked
  <2>3. SameUnread(k)
      BY <2>1, <1>1, UnreadIs, UnreadIsNext DEF SameUnread
  <2> QED
      BY <2>2, <2>3, <1>6 DEF SameView
<1>8. SocketOf(l) = srv[r] /\ SocketOf(l)' = srv'[r]
    BY <1>0, <1>3, <1>5, SocketIs, SocketIsNext
<1>9. SameUnread(l)
  <2>1. SocketOf(l)'.owes = SocketOf(l).owes
      BY <1>8, <1>b
  <2> QED
      BY <2>1, <1>1, <1>3, UnreadIs, UnreadIsNext DEF SameUnread
<1>10. /\ Acked(SocketOf(l)) = srv[r].sent /\ SocketOf(l).sent = srv[r].sent
       /\ SocketOf(l)'.sent = srv[r].sent + 1 /\ Acked(SocketOf(l))' = srv[r].sent
  <2>1. srv'[r].sent # 0 /\ srv'[r].sent - 1 = srv[r].sent
      BY <1>3, <1>5
  <2> QED
      BY <2>1, <1>1, <1>5, <1>8 DEF Acked
<1>11. StreamState(l) # "new"
  <2>1. ~Fresh(chan[l])
      BY <1>0, <1>3 DEF Delivery, Turn, HasSocket
  <2>2. ShapeOf(l)
      BY <1>3 DEF Shape
  <2> QED
      BY <1>3, <2>1, <2>2, StateIs
<1>12. ViewWrites(l)
    BY <1>3, <1>6, <1>9, <1>10, <1>11 DEF ViewWrites
<1> QED
    BY <1>3, <1>7, <1>12, ViewMaps

(* The ADB server, or a client of it, reads a payload.                     *)
LEMMA ViewServerWrte ==
    ASSUME TypeOK, TypeOK', Shape, Wiring, Wiring', Flow, Flow', [Next]_vars, ServerWrte
    PROVE  [Service!Next]_(Service!vars)
<1>m. PICK m : m = Head(toServer)
    OBVIOUS
<1>t. srv \in [RemoteIds -> Sockets] /\ toServer \in Seq(Commands(Ids))
    BY DEF TypeOK
<1>1. /\ toServer # <<>> /\ toServer' = Tail(toServer)
      /\ UNCHANGED <<streams, chan, dev>>
      /\ srv' = IF srv[m.arg1].st = "open" THEN [srv EXCEPT ![m.arg1].owes = TRUE] ELSE srv
      /\ m.cmd = "WRTE"
    BY <1>m DEF ServerWrte, ServerTakes, proxySide
<1>2. m \in Commands(Ids) /\ Sent(m)
    BY <1>m, <1>1, HeadSent DEF Wiring
<1>3. /\ m.arg0 \in Ids /\ m.arg1 \in RemoteIds /\ m.arg1 = chan[m.arg0].rid
      /\ srv[m.arg1].peer \in {0, m.arg0}
  <2>1. m.arg0 \in Ids /\ m.arg1 \in RemoteIds /\ m.arg1 = chan[m.arg0].rid
      BY <1>1, <1>2, CommandTyped, Basics DEF Sent
  <2> QED
      BY <2>1, Basics DEF Wiring, Pairs
<1>4. SocketsKept /\ \A s \in RemoteIds : s # m.arg1 => srv'[s] = srv[s]
  <2>1. CASE srv' = srv
      BY <2>1 DEF SocketsKept
  <2>2. CASE srv' = [srv EXCEPT ![m.arg1].owes = TRUE]
    <3>1. SocketsKept
        BY SMTT(20), <2>2, <1>t DEF SocketsKept, Sockets
    <3> QED
        BY <3>1, <2>2, <1>3, <1>t, SetsOwes
  <2> QED
      BY <2>1, <2>2, <1>1
<1>5. ASSUME NEW k \in Ids, Unread(k) = 0
      PROVE  Num(toServer', WrtesBy(k)) = 0 /\ ~SocketOf(k)'.owes
  <2>1. Num(toServer, WrtesBy(k)) = 0 /\ ~SocketOf(k).owes
    <3>1. Num(toServer, WrtesBy(k)) = 0 /\ Bit(SocketOf(k).owes) = 0
        BY <1>5, UnreadIs
    <3> QED
        BY <3>1 DEF Bit
  <2>2. m \notin WrtesBy(k)
      BY <2>1, <1>m, <1>t, <1>1, NumHead
  <2>3. m.arg0 # k
      BY <2>2, <1>1, <1>2 DEF WrtesBy
  <2>4. Num(toServer', WrtesBy(k)) = 0
      BY <2>1, <2>2, <1>m, <1>t, <1>1, NumTail, UnreadIsNext
  <2>5. \A s \in RemoteIds : srv'[s].peer = k => srv'[s] = srv[s]
      BY <2>3, <1>3, <1>4, Basics DEF SocketsKept
  <2>6. SocketOf(k)' = SocketOf(k)
    <3>1. ~(\E s \in RemoteIds : srv[s].peer = 0 /\ srv'[s].peer = k)
        BY <1>4, Basics DEF SocketsKept
    <3> QED
        BY <2>5, <3>1, SocketCases
  <2> QED
      BY <2>1, <2>4, <2>6
<1> QED
    BY <1>1, <1>4, <1>5, ViewFewer

LEMMA ViewClientReads ==
    ASSUME TypeOK, TypeOK', Shape, Wiring, Wiring', Flow, Flow', [Next]_vars,
           NEW r \in RemoteIds, ClientReads(r)
    PROVE  [Service!Next]_(Service!vars)
<1>t. srv \in [RemoteIds -> Sockets]
    BY DEF TypeOK
<1>1. UNCHANGED <<streams, chan, dev, toServer>> /\ srv' = [srv EXCEPT ![r].owes = FALSE]
    BY DEF ClientReads, proxySide
<1>2. SocketsKept
    BY SMTT(20), <1>1, <1>t DEF SocketsKept, Sockets
<1>3. \A s \in RemoteIds : srv'[s].owes => srv[s].owes
    BY ZenonT(20), <1>1, <1>t DEF Sockets
<1>4. ASSUME NEW k \in Ids, Unread(k) = 0
      PROVE  Num(toServer', WrtesBy(k)) = 0 /\ ~SocketOf(k)'.owes
  <2>1. Num(toServer, WrtesBy(k)) = 0 /\ ~SocketOf(k).owes
    <3>1. Num(toServer, WrtesBy(k)) = 0 /\ Bit(SocketOf(k).owes) = 0
        BY <1>4, UnreadIs
    <3> QED
        BY <3>1 DEF Bit
  <2>2. ~(\E s \in RemoteIds : srv[s].peer = 0 /\ srv'[s].peer = k)
      BY <1>2, Basics DEF SocketsKept
  <2>3. SocketOf(k)'.owes => SocketOf(k).owes
      BY <2>2, <1>3, SocketCases
  <2> QED
      BY <2>1, <2>3, <1>1
<1> QED
    BY <1>1, <1>2, <1>4, ViewFewer

(* The other steps of the ADB server and its clients.                      *)
LEMMA ViewServer ==
    ASSUME TypeOK, TypeOK', Shape, Wiring, Wiring', Flow, Flow', [Next]_vars, Delivery,
           \/ ServerHandles
           \/ \E r \in RemoteIds :
                 ClientOpens(r) \/ ClientWrites(r) \/ ClientReads(r) \/ ClientCloses(r)
    PROVE  [Service!Next]_(Service!vars)
<1>t. srv \in [RemoteIds -> Sockets]
    BY DEF TypeOK
<1>u. UNCHANGED <<dev, chan, streams>>
    BY DEF ServerHandles, ServerCnxn, ServerOkay, ServerWrte, ServerClse, ServerOpen,
           ServerTakes, ClientOpens, ClientWrites, ClientReads, ClientCloses, proxySide
<1>a. ASSUME SocketsKept, \A r \in RemoteIds : srv'[r].owes = srv[r].owes,
             toServer' = toServer
               \/ (toServer # <<>> /\ toServer' = Tail(toServer) /\ Head(toServer).cmd # "WRTE")
      PROVE  [Service!Next]_(Service!vars)
  <2>1. \A k \in Ids : SameSocket(k) /\ SocketOf(k)'.owes = SocketOf(k).owes
      BY <1>a, SocketViews
  <2> QED
      BY <2>1, <1>a, <1>u, ViewStill
<1>b. ASSUME UNCHANGED srv,
             toServer # <<>> /\ toServer' = Tail(toServer) /\ Head(toServer).cmd # "WRTE"
      PROVE  [Service!Next]_(Service!vars)
  <2>1. SocketsKept
      BY <1>b DEF SocketsKept
  <2> QED
      BY <2>1, <1>a, <1>b
<1>c. ASSUME NEW r, NEW st, srv' = [srv EXCEPT ![r].st = st]
      PROVE  SocketsKept /\ \A s \in RemoteIds : srv'[s].owes = srv[s].owes
  <2>1. \A s \in RemoteIds : \/ srv'[s] = srv[s]
                             \/ srv'[s] = [srv[s] EXCEPT !.st = st]
      BY <1>c, <1>t
  <2>2. \A s \in RemoteIds : srv[s] \in Sockets
      BY <1>t
  <2>3. SocketsKept
      BY <2>1, <2>2 DEF SocketsKept, Sockets
  <2>4. \A s \in RemoteIds : srv'[s].owes = srv[s].owes
      BY ZenonT(20), <2>1, <2>2 DEF Sockets
  <2> QED
      BY <2>3, <2>4
<1>h. toServer # <<>> =>
          /\ Head(toServer) \in Commands(Ids) /\ Sent(Head(toServer))
          /\ Head(toServer).arg0 \in {0} \cup Ids
    BY HeadSent, CommandTyped, Basics DEF Wiring
<1>g. ASSUME NEW l \in Ids, NEW cmd \in {"OKAY", "OPEN"}, toServer # <<>>,
             Head(toServer).cmd = cmd, Head(toServer).arg0 = l
      PROVE  Head(toServer) \in OkayBy(l)
    BY <1>g, <1>h DEF OkayBy
<1>1. CASE ServerCnxn
    BY <1>1, <1>b DEF ServerCnxn, ServerTakes
<1>2. CASE ServerOkay
  <2>m. PICK m : m = Head(toServer)
      OBVIOUS
  <2>1. /\ toServer # <<>> /\ toServer' = Tail(toServer)
        /\ Sent(m) /\ m.cmd = "OKAY" /\ m.arg0 \in Ids
      BY <2>m, <1>2, <1>h DEF ServerOkay, ServerTakes, Sent
  <2>2. m.arg1 \in RemoteIds /\ m.arg1 = chan[m.arg0].rid /\ m.arg1 # 0
      BY <2>1, Basics DEF Sent
  <2>3. CASE UNCHANGED srv
      BY <2>m, <2>1, <2>3, <1>b
  <2>4. CASE srv' = [srv EXCEPT ![m.arg1].st = "open", ![m.arg1].peer = m.arg0,
                                ![m.arg1].credit = TRUE]
    <3>1. PICK r \in RemoteIds, l \in Ids : r = m.arg1 /\ l = m.arg0
        BY <2>1, <2>2
    <3>2. /\ \A s \in RemoteIds : s # r => srv'[s] = srv[s]
          /\ srv'[r].peer = l /\ srv'[r].sent = srv[r].sent
        BY <2>4, <3>1, <1>t DEF Sockets
    <3>b. srv'[r].credit /\ srv'[r].owes = srv[r].owes
        BY ZenonT(20), <2>4, <3>1, <1>t DEF Sockets
    <3>3. srv[r].peer \in {0, l} /\ \A s \in RemoteIds : srv[s].peer = l => s = r
        BY <2>2, <3>1, Basics DEF Wiring, Pairs
    <3>4. Head(toServer) \in OkayBy(l)
        BY <2>m, <2>1, <3>1, <1>g
    <3> QED
        BY <2>1, <3>2, <3>b, <3>3, <3>4, <1>u, ViewGrants
  <2> QED
      BY <2>m, <2>3, <2>4, <1>2 DEF ServerOkay
<1>3. CASE ServerWrte
    BY <1>3, ViewServerWrte
<1>4. CASE ServerClse
  <2>m. PICK m : m = Head(toServer)
      OBVIOUS
  <2>1. /\ toServer # <<>> /\ toServer' = Tail(toServer) /\ Head(toServer).cmd = "CLSE"
        /\ srv' = [srv EXCEPT ![m.arg1].st = "closed"]
      BY <2>m, <1>4 DEF ServerClse, ServerTakes
  <2>2. SocketsKept /\ \A s \in RemoteIds : srv'[s].owes = srv[s].owes
      BY <2>1, <1>c
  <2> QED
      BY <2>1, <2>2, <1>a
<1>5. CASE ServerOpen
  <2>m. PICK m : m = Head(toServer)
      OBVIOUS
  <2>1. /\ toServer # <<>> /\ toServer' = Tail(toServer)
        /\ Sent(m) /\ m.cmd = "OPEN" /\ m.arg0 \in Ids
      BY <2>m, <1>5, <1>h DEF ServerOpen, ServerTakes, Sent
  <2>2. PICK l \in Ids : l = m.arg0
      BY <2>1
  <2>3. CASE UNCHANGED srv
      BY <2>m, <2>1, <2>3, <1>b
  <2>4. ASSUME NEW r \in RemoteIds, srv[r].st = "idle",
               srv' = [srv EXCEPT ![r] = [Idle EXCEPT !.st = "open", !.peer = l,
                                                      !.credit = TRUE]]
        PROVE  [Service!Next]_(Service!vars)
    <3>1. /\ \A s \in RemoteIds : s # r => srv'[s] = srv[s]
          /\ srv'[r].peer = l /\ srv'[r].sent = 0
        BY <2>4, <1>t DEF Idle
    <3>2. srv[r].peer = 0 /\ srv[r].sent = 0 /\ ~srv[r].owes
        BY <2>4, Basics DEF Wiring, Ends, Delivery, Blank
    <3>b. srv'[r].credit /\ srv'[r].owes = FALSE
        BY ZenonT(20), <2>4, <1>t DEF Idle
    <3>c. srv[r].owes = FALSE
      <4>1. srv[r].owes \in BOOLEAN
          BY DEF TypeOK, Sockets
      <4> QED
          BY <4>1, <3>2
    <3>3. \A s \in RemoteIds : srv[s].peer # l
        BY <2>1, <2>2 DEF Sent
    <3>4. Head(toServer) \in OkayBy(l)
        BY <2>m, <2>1, <2>2, <1>g
    <3>5. srv'[r].owes = srv[r].owes /\ srv'[r].sent = srv[r].sent
        BY <3>1, <3>2, <3>b, <3>c
    <3> QED
        BY <2>1, <3>1, <3>2, <3>3, <3>4, <3>5, <3>b, <1>u, ViewGrants
  <2> QED
      BY <2>m, <2>2, <2>3, <2>4, <1>5 DEF ServerOpen
<1>6. ASSUME NEW r \in RemoteIds, ClientOpens(r) \/ ClientCloses(r)
      PROVE  [Service!Next]_(Service!vars)
  <2>1. toServer' = toServer /\ \E st : srv' = [srv EXCEPT ![r].st = st]
      BY <1>6 DEF ClientOpens, ClientCloses
  <2>2. SocketsKept /\ \A s \in RemoteIds : srv'[s].owes = srv[s].owes
      BY <2>1, <1>c
  <2> QED
      BY <2>1, <2>2, <1>a
<1>7. ASSUME NEW r \in RemoteIds, ClientWrites(r) \/ ClientReads(r)
      PROVE  [Service!Next]_(Service!vars)
    BY <1>7, ViewClientWrites, ViewClientReads
<1> QED
    BY <1>1, <1>2, <1>3, <1>4, <1>5, <1>6, <1>7 DEF ServerHandles

LEMMA ViewStep ==
    ASSUME TypeOK, TypeOK', Shape, Wiring, Flow, Delivery, [Next]_vars
    PROVE  [Service!Next]_(Service!vars)
<1>c. chan \in [Ids -> Channels]
    BY DEF TypeOK
<1>w. Wiring' /\ Shape' /\ Flow'
    BY WiringStep, ShapeStep, FlowStep
<1>a. ASSUME UNCHANGED <<srv, toServer, streams>>,
             \A k \in Ids : chan'[k].open = chan[k].open /\ dev'[k].got = dev[k].got
      PROVE  [Service!Next]_(Service!vars)
    BY <1>a, SameSockets, ViewStill
<1>1. CASE UNCHANGED srv /\ RecvSome
  <2>1. UNCHANGED <<toServer, streams, dev>>
      BY <1>1 DEF RecvSome, RecvHandshake, RecvOpen, RecvClse, RecvOkay, RecvWrte, untouched
  <2>2. chan' = chan \/ \E j, v : chan' = [chan EXCEPT ![j].rid = v]
      BY <1>1 DEF RecvSome, RecvHandshake, RecvOpen, RecvClse, RecvOkay, RecvWrte
  <2>3. ASSUME NEW j, NEW v, chan' = [chan EXCEPT ![j].rid = v]
        PROVE  \A k \in Ids : chan'[k].open = chan[k].open
      BY <2>3, <1>c DEF Channels
  <2> QED
      BY <1>1, <2>1, <2>2, <2>3, <1>a
<1>2. CASE UNCHANGED srv /\ ReverseAccept
    BY <1>2, <1>w, ViewReverse
<1>3. CASE UNCHANGED srv /\ (GoStops \/ GoEnds \/ GoInterrupted)
  <2>1. \A k \in Ids : chan'[k].open = chan[k].open
    <3>1. CASE UNCHANGED chan
        BY <3>1
    <3>2. CASE chan' = [l \in Ids |-> IF l \in streams THEN [chan[l] EXCEPT !.td = "queued"]
                                                       ELSE chan[l]]
        BY <3>2, <1>c DEF Channels
    <3> QED
        BY <1>3, <3>1, <3>2 DEF GoStops, GoEnds, GoInterrupted
  <2> QED
      BY <1>3, <2>1, <1>a DEF GoStops, GoEnds, GoInterrupted
<1>4. ASSUME NEW l \in Ids, UNCHANGED srv,
             \/ StartSome(l) \/ WriteDrained(l) \/ OpenSome(l)
             \/ SinkSome(l) \/ CloserResumes(l) \/ TeardownClose(l)
      PROVE  [Service!Next]_(Service!vars)
    BY <1>4, <1>w, ViewTasks
<1>5. CASE ServerHandles \/ \E r \in RemoteIds :
               ClientOpens(r) \/ ClientWrites(r) \/ ClientReads(r) \/ ClientCloses(r)
    BY <1>5, <1>w, ViewServer
<1>6. CASE ServerLost
  <2>1. UNCHANGED <<streams, chan, dev, srv>> /\ toServer' = <<>>
      BY <1>6 DEF ServerLost, proxySide
  <2>2. SocketsKept
      BY <2>1 DEF SocketsKept
  <2>3. ASSUME NEW k \in Ids, Unread(k) = 0
        PROVE  Num(toServer', WrtesBy(k)) = 0 /\ ~SocketOf(k)'.owes
    <3>1. Num(toServer', WrtesBy(k)) = 0
        BY <2>1, NumNone
    <3>2. Bit(SocketOf(k).owes) = 0
        BY <2>3, UnreadIs
    <3>3. ~SocketOf(k).owes
        BY <3>2 DEF Bit
    <3>4. SocketOf(k)' = SocketOf(k)
        BY <2>1, SameSockets
    <3> QED
        BY <3>1, <3>3, <3>4
  <2> QED
      BY <2>1, <2>2, <2>3, <1>w, ViewFewer
<1>7. ASSUME NEW l \in Ids, DeviceProduces(l) \/ DeviceEnds(l)
      PROVE  [Service!Next]_(Service!vars)
  <2>1. UNCHANGED <<chan, srv, toServer, streams>>
      BY <1>7 DEF DeviceProduces, DeviceEnds, DeviceKeeps
  <2>2. \A k \in Ids : dev'[k].got = dev[k].got
    <3>0. dev \in [Ids -> Devices]
        BY DEF TypeOK
    <3>1. CASE dev' = [dev EXCEPT ![l].made = @ + 1]
        BY <3>0, <3>1 DEF Devices
    <3>2. ASSUME NEW st, dev' = [dev EXCEPT ![l].st = st]
          PROVE  \A k \in Ids : dev'[k].got = dev[k].got
        BY <3>0, <3>2 DEF Devices
    <3> QED
        BY <1>7, <3>1, <3>2 DEF DeviceProduces, DeviceEnds
  <2> QED
      BY <2>1, <2>2, <1>a
<1>8. CASE UNCHANGED vars
    BY <1>8, <1>a DEF vars, proxyVars
<1> QED
    BY <1>1, <1>2, <1>3, <1>4, <1>5, <1>6, <1>7, <1>8
    DEF Next, ProxyNext, ServerNext, DeviceNext

LEMMA ViewInit == Init => Service!Init
<1> SUFFICES ASSUME Init PROVE Service!Init
    OBVIOUS
<1>1. /\ \A l \in Ids : chan[l] = Unused /\ dev[l] = NoDevice
      /\ \A r \in RemoteIds : srv[r] = Idle
      /\ streams = {} /\ toServer = <<Command("CNXN", 0, ProxyMax, 0)>>
    BY DEF Init, ProxyInit
<1>2. TypeOK
    BY TypeInit
<1>3. ASSUME NEW l \in Ids
      PROVE  /\ StreamState(l) = "new" /\ dev[l].got = 0
             /\ SocketOf(l).sent = 0 /\ Acked(SocketOf(l)) = 0 /\ Unread(l) = 0
  <2>1. StreamState(l) = "new"
      BY <1>1 DEF StreamState, Answering, Unused
  <2>2. SocketOf(l) = Idle
    <3>1. \A r \in RemoteIds : srv[r].peer # l
        BY <1>1, <1>2, Basics DEF Idle
    <3> QED
        BY <3>1 DEF SocketOf
  <2>3. Num(toServer, WrtesBy(l)) = 0
    <3>1. Len(toServer) = 1 /\ toServer[1].cmd = "CNXN"
        BY <1>1 DEF Command
    <3> QED
        BY <3>1, NumNone DEF WrtesBy
  <2>4. Unread(l) = 0
      BY <2>2, <2>3, <1>2, UnreadIs DEF Bit, Idle
  <2> QED
      BY <1>1, <2>1, <2>2, <2>4 DEF Acked, Idle, NoDevice
<1> QED
    BY <1>3 DEF Service!Init

(* For every number of streams, sockets and writes the multiplexer, with   *)
(* its commands, tasks and permits, is a StreamService: a stream opens and *)
(* closes once, writes reach the device in order and once, and none is     *)
(* acknowledged before it did (adb_proxy.py:77-130, 258-361).              *)
THEOREM StreamsImplemented == Spec => ImplementsStreams
<1>1. Init => Service!Init
    BY ViewInit
<1>2. TypeOK /\ TypeOK' /\ Shape /\ Wiring /\ Flow /\ Delivery /\ [Next]_vars
          => [Service!Next]_(Service!vars)
    BY ViewStep
<1> QED
    BY <1>1, <1>2, SafetyInvariant, WiringInvariant, FlowInvariant, DeliveryInvariant, PTL
    DEF Spec, ImplementsStreams, Service!Spec
=============================================================================
