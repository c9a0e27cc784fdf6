------------------------------ MODULE HostShell ------------------------------
(***************************************************************************)
(* A shell on the proxy's machine: spawn() of endpoint.py, which gives the *)
(* subprocess a pseudo-terminal or, when none can be had, pipes, and       *)
(* shell_factory of adb_proxy.py, which pumps its output into a channel    *)
(* of the SSH connection and closes the channel with its exit code.        *)
(***************************************************************************)
EXTENDS Naturals

CONSTANTS
    Pty,      \* does the client ask for a terminal?
    Limit,    \* units above which the StreamReader pauses its transport
    MaxMade   \* bound: units of output of the subprocess

ASSUME ShellAssumption == Pty \in BOOLEAN /\ Limit \in Nat /\ MaxMade \in Nat

VARIABLES
    factory,  \* shell_factory: start; in spawn() forking (awaits the
              \* subprocess), reading, writing (awaits connect_read_pipe,
              \* connect_write_pipe); waits (awaits exitcode), exited (has
              \* called process.exit), failed (spawn() has raised)
    mode,     \* the terminal or the pipes
    fds,      \* descriptors that the proxy holds
    channel,  \* of the SSH session: open, closed by process.exit, or lost
    child,    \* the subprocess; detached: it runs with its output closed;
              \* outlived: it has exited, a process of its own has its output
    waiter,   \* the task behind exitcode
    made,     \* units of output
    kernel,   \* of these, not yet read from the descriptor
    buffer,   \* of these, in the StreamReader
    reader,   \* the StreamReader: open, at its end, or with an exception
    sent,     \* units written to the channel
    pump      \* stdout_pump: it starts, waits in read() for output, is woken
              \* by it, drains what it wrote, is done at the end of the
              \* output, or is cut by an exception of the channel

os == <<child, made, kernel>>
io == <<buffer, reader>>
out == <<channel, sent, pump>>

vars == <<factory, mode, fds, waiter, os, io, out>>

TypeOK ==
    /\ factory \in {"start", "forking", "reading", "writing", "waits", "exited", "failed"}
    /\ mode \in {"none", "pty", "pipe"}
    /\ fds \subseteq {"master", "slave", "heldSlave", "stdout", "stdin"}
    /\ channel \in {"open", "closed", "lost"}
    /\ child \in {"none", "running", "detached", "outlived", "exited"}
    /\ waiter \in {"none", "waits", "done"}
    /\ reader \in {"none", "open", "eof", "error"}
    /\ pump \in {"none", "starts", "waits", "woken", "drains", "done", "cut"}
    /\ {made, kernel, buffer, sent} \subseteq 0 .. MaxMade

Init ==
    /\ factory = "start" /\ mode = "none" /\ fds = {} /\ channel = "open"
    /\ child = "none" /\ waiter = "none" /\ reader = "none" /\ pump = "none"
    /\ made = 0 /\ kernel = 0 /\ buffer = 0 /\ sent = 0

-----------------------------------------------------------------------------
(* openpty(), and a second descriptor of the slave; or pipes.              *)
OpenPty ==
    /\ factory = "start"
    /\ Pty
    /\ factory' = "forking"
    /\ mode' = "pty"
    /\ fds' = {"master", "slave", "heldSlave"}
    /\ UNCHANGED <<os, io, out, waiter>>

UsePipes ==
    /\ factory = "start"
    /\ factory' = "forking"
    /\ mode' = "pipe"
    /\ UNCHANGED <<fds, os, io, out, waiter>>

(* The channel is closed: by process.exit() or as a stream of its session. *)
Closed == IF channel = "open" THEN "closed" ELSE channel

(* spawn() raises: process.exit(1).                                        *)
SpawnFails == factory' = "failed" /\ channel' = Closed

(* os.dup() of the slave raises.                                           *)
HoldFails ==
    /\ factory = "start"
    /\ Pty
    /\ SpawnFails
    /\ mode' = "pty"
    /\ fds' = {"master", "slave"}
    /\ UNCHANGED <<os, io, sent, pump, waiter>>

(* create_subprocess_shell raises: its finally closes the slave.           *)
ForkFails ==
    /\ factory = "forking"
    /\ SpawnFails
    /\ fds' = fds \ {"slave"}
    /\ UNCHANGED <<mode, waiter, os, io, sent, pump>>

(* Mutant: the held descriptor of the slave is closed with the other.      *)
AfterForkDropsSlave == fds \ {"slave", "heldSlave"}

AfterFork == fds \ {"slave"}

ForkOnTerminal ==
    /\ factory = "forking"
    /\ mode = "pty"
    /\ factory' = "reading"
    /\ child' = "running"
    /\ fds' = AfterFork
    /\ UNCHANGED <<mode, waiter, made, kernel, io, out>>

ReaderConnects ==
    /\ factory = "reading"
    /\ factory' = "writing"
    /\ reader' = "open"
    /\ UNCHANGED <<mode, fds, waiter, os, buffer, out>>

(* The end of spawn() and of the factory up to its await of exitcode.      *)
Spawned == factory' = "waits" /\ waiter' = "waits" /\ pump' = "starts"

(* The writer has a dup() of the master.                                   *)
WriterConnects ==
    /\ factory = "writing"
    /\ Spawned
    /\ fds' = fds \union {"stdin"}
    /\ UNCHANGED <<mode, os, io, channel, sent>>

ForkOnPipes ==
    /\ factory = "forking"
    /\ mode = "pipe"
    /\ Spawned
    /\ child' = "running"
    /\ reader' = "open"
    /\ fds' = {"stdout", "stdin"}
    /\ UNCHANGED <<mode, made, kernel, buffer, channel, sent>>

(* One of the two, or the dup(), raises: the file object of the descriptor *)
(* closes it, a reader that is connected goes on, the subprocess is left.  *)
ConnectFails ==
    /\ factory \in {"reading", "writing"}
    /\ SpawnFails
    /\ fds' = IF factory = "reading" THEN fds \ {"master"} ELSE fds
    /\ UNCHANGED <<mode, waiter, os, io, sent, pump>>

-----------------------------------------------------------------------------
(* External: the subprocess and its own processes, and the client.         *)
ChildWrites ==
    /\ child \in {"running", "outlived"}
    /\ made < MaxMade
    /\ made' = made + 1
    /\ kernel' = kernel + 1
    /\ UNCHANGED <<factory, mode, fds, child, waiter, io, out>>

ChildEnds ==
    /\ \/ child = "running" /\ child' \in {"detached", "outlived", "exited"}
       \/ child \in {"detached", "outlived"} /\ child' = "exited"
    /\ UNCHANGED <<factory, mode, fds, waiter, made, kernel, io, out>>

SessionLost ==
    /\ channel = "open"
    /\ channel' = "lost"
    /\ UNCHANGED <<factory, mode, fds, waiter, os, io, sent, pump>>

(* proc.wait() returns; of the terminal the held slave is closed.          *)
ChildReaped ==
    /\ waiter = "waits"
    /\ child \in {"outlived", "exited"}
    /\ waiter' = "done"
    /\ fds' = fds \ {"heldSlave"}
    /\ UNCHANGED <<factory, mode, os, io, out>>

-----------------------------------------------------------------------------
(* What the event loop has scheduled comes before what its selector finds  *)
(* next: the pump has started, and once ChildReaped has closed the slave   *)
(* of a terminal the factory that awaits it has resumed.                   *)
Started == pump # "starts"
Resumed == mode = "pty" /\ waiter = "done" => factory # "waits"

(* The transport that feeds the StreamReader, unless that has paused it.   *)
TransportReads ==
    /\ Started
    /\ reader = "open"
    /\ kernel > 0
    /\ buffer <= Limit
    /\ buffer' = buffer + kernel
    /\ kernel' = 0
    /\ pump' = IF pump = "waits" THEN "woken" ELSE pump
    /\ UNCHANGED <<factory, mode, fds, child, waiter, made, reader, channel, sent>>

(* Nobody holds the other end: a pipe is at its end, a master fails with   *)
(* EIO, which connection_lost() gives to the StreamReader as an exception. *)
TransportEnds ==
    /\ Started /\ Resumed
    /\ reader = "open"
    /\ kernel = 0
    /\ buffer <= Limit
    /\ child \in {"detached", "exited"}
    /\ "heldSlave" \notin fds
    /\ reader' = IF mode = "pty" THEN "error" ELSE "eof"
    /\ fds' = fds \ {"master", "stdout"}
    /\ UNCHANGED <<factory, mode, os, waiter, buffer, out>>

-----------------------------------------------------------------------------
(* stdout_pump calls read(): at its start, or when drain() returns, which  *)
(* it may do late as long as the client does not read.                     *)
Calls == pump \in {"starts", "drains"}

PumpWaits ==
    /\ Calls
    /\ reader = "open"
    /\ buffer = 0
    /\ pump' = "waits"
    /\ UNCHANGED <<factory, mode, fds, channel, sent, os, io, waiter>>

(* Mutant: a chunk is written once more.                                   *)
WrittenTwice(n) == sent + n + n

Written(n) == sent + n

(* read() returns what is buffered, unless it was called after an          *)
(* exception; of a channel that is not open write() raises.                *)
PumpReads ==
    /\ pump = "woken" \/ (Calls /\ reader # "error")
    /\ \E n \in 1 .. buffer :
        /\ buffer' = buffer - n
        /\ sent' = IF channel = "open" THEN Written(n) ELSE sent
    /\ pump' = IF channel = "open" THEN "drains" ELSE "cut"
    /\ UNCHANGED <<factory, mode, fds, channel, os, waiter, reader>>

(* drain() raises once the connection of the channel is gone.              *)
DrainRaises ==
    /\ pump = "drains"
    /\ channel # "open"
    /\ pump' = "cut"
    /\ UNCHANGED <<factory, mode, fds, channel, sent, os, io, waiter>>

(* Mutant: the end of the stream wins over what is buffered.               *)
AtEndEarly == reader \in {"eof", "error"}

(* An exception of the StreamReader comes before what is buffered.         *)
AtEnd == reader = "error" \/ (reader = "eof" /\ buffer = 0)

(* The pump closes its stream, and so the channel.                         *)
PumpEnds ==
    /\ Calls \/ pump = "waits"
    /\ AtEnd
    /\ pump' = "done"
    /\ channel' = Closed
    /\ UNCHANGED <<factory, mode, fds, sent, os, io, waiter>>

(* Mutant: the writer stays open.                                          *)
ClosesNothing == fds

ClosesWriter == fds \ {"stdin"}

(* shell_factory: writer.close(), process.exit(rc); the pump was created   *)
(* before and has started.                                                 *)
FactoryExits ==
    /\ factory = "waits"
    /\ waiter = "done"
    /\ Started
    /\ factory' = "exited"
    /\ fds' = ClosesWriter
    /\ channel' = Closed
    /\ UNCHANGED <<mode, os, io, waiter, sent, pump>>

Next ==
    \/ OpenPty \/ UsePipes \/ HoldFails \/ ForkFails \/ ConnectFails
    \/ ForkOnTerminal \/ ReaderConnects \/ WriterConnects \/ ForkOnPipes
    \/ ChildWrites \/ ChildEnds \/ ChildReaped \/ SessionLost
    \/ TransportReads \/ TransportEnds
    \/ PumpWaits \/ PumpReads \/ DrainRaises \/ PumpEnds \/ FactoryExits

Spec == Init /\ [][Next]_vars

(* The event loop runs its tasks and its transports, and connects a pipe   *)
(* or fails; a drain() ends once the channel is not open, and need not     *)
(* before.                                                                 *)
FairSpec ==
    /\ Spec
    /\ WF_vars(ReaderConnects \/ WriterConnects \/ ConnectFails)
    /\ WF_vars(ChildReaped) /\ WF_vars(FactoryExits)
    /\ WF_vars(TransportReads \/ TransportEnds)
    /\ WF_vars(pump # "drains" /\ (PumpWaits \/ PumpReads \/ PumpEnds))
    /\ WF_vars(pump = "drains" /\ channel # "open"
                 /\ (PumpWaits \/ PumpReads \/ PumpEnds \/ DrainRaises))

-----------------------------------------------------------------------------
(* Properties.                                                             *)

(* The StreamReader does not end while the subprocess runs on a terminal,  *)
(* also when that has closed its own descriptors (endpoint.py:73-76).      *)
NoEndBeforeExit ==
    mode = "pty" /\ reader \in {"eof", "error"} => child = "exited"

(* process.exit() may overtake the last output, but it never does so       *)
(* silently: where the pump of a pipe ends as at the end of the output,    *)
(* everything was written to the channel (adb_proxy.py:703-720).           *)
PipeIsComplete == mode = "pipe" /\ pump = "done" => sent = made

(* As the comment of endpoint.py:110 has it, for a terminal: "now master   *)
(* will see clean EOF after the buffer drains": a pump that ends as at the *)
(* end of the output has written everything.                               *)
CleanEof == mode = "pty" /\ pump = "done" => sent = made

(* Once the processes behind a session have ended, so do its tasks, and no *)
(* descriptor outlives them, except that of an output that nobody reads    *)
(* any more and that has paused its transport, and the two that a spawn()  *)
(* leaves that raised when the subprocess was there (endpoint.py:98-105,   *)
(* adb_proxy.py:673-720).                                                  *)
NothingHeld ==
    child = "exited" ~>
        /\ channel # "open"
        /\ \/ factory = "exited" /\ pump \in {"done", "cut"} /\ fds = {}
           \/ /\ factory = "exited" /\ pump = "cut"
              /\ buffer > Limit /\ fds \subseteq {"master", "stdout"}
           \/ factory = "failed" /\ fds \subseteq {"master", "heldSlave"}
=============================================================================
