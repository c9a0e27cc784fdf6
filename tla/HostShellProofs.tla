--------------------------- MODULE HostShellProofs ---------------------------
(***************************************************************************)
(* Theorems about HostShell, for any amount of output, any limit of the    *)
(* StreamReader, with a terminal or without.  Two facts carry them:        *)
(* Conserved, that output is somewhere between the subprocess and the      *)
(* channel until the pump is cut; and Held, that as long as the subprocess *)
(* is not reaped the proxy holds a slave of its terminal, so that the      *)
(* other end of the master is not closed.                                  *)
(***************************************************************************)
EXTENDS HostShell, TLAPS

(* Nothing is there before the subprocess, no task before spawn() ends.    *)
Forked ==
    /\ factory \in {"start", "forking"} => child = "none"
    /\ child = "none" => factory \in {"start", "forking", "failed"}
    /\ child = "none" =>
         /\ reader = "none"
         /\ made = 0 /\ kernel = 0 /\ buffer = 0 /\ sent = 0
    /\ factory \in {"start", "forking", "reading", "writing"} =>
         pump = "none" /\ waiter = "none"

Conserved ==
    /\ sent + buffer + kernel <= made
    /\ pump # "cut" => sent + buffer + kernel = made

Held ==
    /\ mode = "pty" /\ waiter # "done" /\ (factory = "forking" \/ child # "none") =>
         "heldSlave" \in fds
    /\ waiter = "done" => child \in {"outlived", "exited"}

(* A StreamReader at its end has everything, and nothing comes after it.   *)
Ended ==
    reader \in {"eof", "error"} =>
        /\ kernel = 0
        /\ child \in {"detached", "exited"}
        /\ reader = "error" => mode = "pty"

(* The pump is done only at that end.                                      *)
Pumped ==
    pump = "done" => reader = "error" \/ (reader = "eof" /\ buffer = 0)

Inv == TypeOK /\ Forked /\ Conserved /\ Held /\ Ended /\ Pumped /\ NoEndBeforeExit

-----------------------------------------------------------------------------
LEMMA Amounts ==
    ASSUME TypeOK
    PROVE  /\ made \in Nat /\ kernel \in Nat /\ buffer \in Nat /\ sent \in Nat
           /\ MaxMade \in Nat /\ made <= MaxMade
    BY ShellAssumption DEF TypeOK

LEMMA InvInit == Init => Inv
    BY ShellAssumption
    DEF Init, Inv, TypeOK, Forked, Conserved, Held, Ended, Pumped, NoEndBeforeExit

LEMMA TypeStep ==
    ASSUME Inv, [Next]_vars
    PROVE  TypeOK'
<1>1. CASE UNCHANGED vars
    BY <1>1 DEF Inv, TypeOK, Conserved, vars, os, io, out
<1>2. CASE OpenPty
    BY <1>2 DEF Inv, TypeOK, Conserved, OpenPty, os, io, out
<1>3. CASE UsePipes
    BY <1>3 DEF Inv, TypeOK, Conserved, UsePipes, os, io, out
<1>4. CASE HoldFails
    BY <1>4 DEF Inv, TypeOK, Conserved, HoldFails, SpawnFails, Closed, os, io, out
<1>5. CASE ForkFails
    BY <1>5 DEF Inv, TypeOK, Conserved, ForkFails, SpawnFails, Closed, os, io, out
<1>6. CASE ConnectFails
    BY <1>6 DEF Inv, TypeOK, Conserved, ConnectFails, SpawnFails, Closed, os, io, out
<1>7. CASE ForkOnTerminal
    BY <1>7 DEF Inv, TypeOK, Conserved, ForkOnTerminal, AfterFork, os, io, out
<1>8. CASE ReaderConnects
    BY <1>8 DEF Inv, TypeOK, Conserved, ReaderConnects, os, io, out
<1>9. CASE WriterConnects
    BY <1>9 DEF Inv, TypeOK, Conserved, WriterConnects, Spawned, os, io, out
<1>10. CASE ForkOnPipes
    BY <1>10 DEF Inv, TypeOK, Conserved, ForkOnPipes, Spawned, os, io, out
<1>11. CASE ChildWrites
    BY <1>11, Amounts DEF Inv, TypeOK, Conserved, ChildWrites, os, io, out
<1>12. CASE ChildEnds
    BY <1>12 DEF Inv, TypeOK, Conserved, ChildEnds, os, io, out
<1>13. CASE ChildReaped
    BY <1>13 DEF Inv, TypeOK, Conserved, ChildReaped, os, io, out
<1>14. CASE SessionLost
    BY <1>14 DEF Inv, TypeOK, Conserved, SessionLost, os, io, out
<1>15. CASE TransportReads
    BY <1>15, Amounts DEF Inv, TypeOK, Conserved, TransportReads, Started, os, io, out
<1>16. CASE TransportEnds
    BY <1>16 DEF Inv, TypeOK, Conserved, TransportEnds, Started, os, io, out
<1>17. CASE PumpWaits
    BY <1>17 DEF Inv, TypeOK, Conserved, PumpWaits, Calls, os, io, out
<1>18. CASE PumpReads
    BY <1>18, Amounts DEF Inv, TypeOK, Conserved, PumpReads, Calls, Written, os, io, out
<1>19. CASE DrainRaises
    BY <1>19 DEF Inv, TypeOK, Conserved, DrainRaises, os, io, out
<1>20. CASE PumpEnds
    BY <1>20 DEF Inv, TypeOK, Conserved, PumpEnds, Calls, AtEnd, Closed, os, io, out
<1>21. CASE FactoryExits
    BY <1>21 DEF Inv, TypeOK, Conserved, FactoryExits, ClosesWriter, Closed, os, io, out
<1> QED
    BY <1>1, <1>2, <1>3, <1>4, <1>5, <1>6, <1>7, <1>8, <1>9, <1>10, <1>11, <1>12, <1>13,
       <1>14, <1>15, <1>16, <1>17, <1>18, <1>19, <1>20, <1>21
    DEF Next

(* Output is handed on: from the subprocess to the kernel, the buffer and  *)
(* the channel; only a pump that is cut drops any.                         *)
LEMMA OutputStep ==
    ASSUME Inv, [Next]_vars
    PROVE  (Forked /\ Conserved)'
<1>1. CASE UNCHANGED vars
    BY <1>1 DEF Inv, TypeOK, Forked, Conserved, vars, os, io, out
<1>2. CASE OpenPty
    BY <1>2 DEF Inv, TypeOK, Forked, Conserved, OpenPty, os, io, out
<1>3. CASE UsePipes
    BY <1>3 DEF Inv, TypeOK, Forked, Conserved, UsePipes, os, io, out
<1>4. CASE HoldFails
    BY <1>4 DEF Inv, TypeOK, Forked, Conserved, HoldFails, SpawnFails, Closed, os, io, out
<1>5. CASE ForkFails
    BY <1>5 DEF Inv, TypeOK, Forked, Conserved, ForkFails, SpawnFails, Closed, os, io, out
<1>6. CASE ConnectFails
    BY <1>6
    DEF Inv, TypeOK, Forked, Conserved, ConnectFails, SpawnFails, Closed, os, io, out
<1>7. CASE ForkOnTerminal
    BY <1>7 DEF Inv, TypeOK, Forked, Conserved, ForkOnTerminal, AfterFork, os, io, out
<1>8. CASE ReaderConnects
    BY <1>8 DEF Inv, TypeOK, Forked, Conserved, ReaderConnects, os, io, out
<1>9. CASE WriterConnects
    BY <1>9 DEF Inv, TypeOK, Forked, Conserved, WriterConnects, Spawned, os, io, out
<1>10. CASE ForkOnPipes
    BY <1>10 DEF Inv, TypeOK, Forked, Conserved, ForkOnPipes, Spawned, os, io, out
<1>11. CASE ChildWrites
    BY <1>11, Amounts DEF Inv, TypeOK, Forked, Conserved, ChildWrites, os, io, out
<1>12. CASE ChildEnds
    BY <1>12 DEF Inv, TypeOK, Forked, Conserved, ChildEnds, os, io, out
<1>13. CASE ChildReaped
    BY <1>13 DEF Inv, TypeOK, Forked, Conserved, ChildReaped, os, io, out
<1>14. CASE SessionLost
    BY <1>14 DEF Inv, TypeOK, Forked, Conserved, SessionLost, os, io, out
<1>15. CASE TransportReads
    BY <1>15, Amounts
    DEF Inv, TypeOK, Forked, Conserved, TransportReads, Started, os, io, out
<1>16. CASE TransportEnds
    BY <1>16 DEF Inv, TypeOK, Forked, Conserved, TransportEnds, Started, os, io, out
<1>17. CASE PumpWaits
    BY <1>17 DEF Inv, TypeOK, Forked, Conserved, PumpWaits, Calls, os, io, out
<1>18. CASE PumpReads
    BY <1>18, Amounts
    DEF Inv, TypeOK, Forked, Conserved, PumpReads, Calls, Written, os, io, out
<1>19. CASE DrainRaises
    BY <1>19 DEF Inv, TypeOK, Forked, Conserved, DrainRaises, os, io, out
<1>20. CASE PumpEnds
    BY <1>20 DEF Inv, TypeOK, Forked, Conserved, PumpEnds, Calls, AtEnd, Closed, os, io, out
<1>21. CASE FactoryExits
    BY <1>21
    DEF Inv, TypeOK, Forked, Conserved, FactoryExits, ClosesWriter, Closed, os, io, out
<1> QED
    BY <1>1, <1>2, <1>3, <1>4, <1>5, <1>6, <1>7, <1>8, <1>9, <1>10, <1>11, <1>12, <1>13,
       <1>14, <1>15, <1>16, <1>17, <1>18, <1>19, <1>20, <1>21
    DEF Next

(* The StreamReader ends when nobody can write any more; with a terminal   *)
(* that takes the waiter, and so the exit of the subprocess.               *)
LEMMA EndStep ==
    ASSUME Inv, [Next]_vars
    PROVE  (Held /\ Ended /\ Pumped /\ NoEndBeforeExit)'
<1> USE DEF Inv, TypeOK, Forked, Held, Ended, Pumped, NoEndBeforeExit
<1>1. CASE UNCHANGED vars
    BY <1>1 DEF vars, os, io, out
<1>2. CASE OpenPty
    BY <1>2 DEF OpenPty, os, io, out
<1>3. CASE UsePipes
    BY <1>3 DEF UsePipes, os, io, out
<1>4. CASE HoldFails
    BY <1>4 DEF HoldFails, SpawnFails, Closed, os, io, out
<1>5. CASE ForkFails
    BY <1>5 DEF ForkFails, SpawnFails, Closed, os, io, out
<1>6. CASE ConnectFails
    BY <1>6 DEF ConnectFails, SpawnFails, Closed, os, io, out
<1>7. CASE ForkOnTerminal
    BY <1>7 DEF ForkOnTerminal, AfterFork, os, io, out
<1>8. CASE ReaderConnects
    BY <1>8 DEF ReaderConnects, os, io, out
<1>9. CASE WriterConnects
    BY <1>9 DEF WriterConnects, Spawned, os, io, out
<1>10. CASE ForkOnPipes
    BY <1>10 DEF ForkOnPipes, Spawned, os, io, out
<1>11. CASE ChildWrites
    BY <1>11 DEF ChildWrites, os, io, out
<1>12. CASE ChildEnds
    BY <1>12 DEF ChildEnds, os, io, out
<1>13. CASE ChildReaped
    BY <1>13 DEF ChildReaped, os, io, out
<1>14. CASE SessionLost
    BY <1>14 DEF SessionLost, os, io, out
<1>15. CASE TransportReads
    BY <1>15 DEF TransportReads, Started, os, io, out
<1>16. CASE TransportEnds
    BY <1>16 DEF TransportEnds, Started, os, io, out
<1>17. CASE PumpWaits
    BY <1>17 DEF PumpWaits, Calls, os, io, out
<1>18. CASE PumpReads
    BY <1>18 DEF PumpReads, Calls, Written, os, io, out
<1>19. CASE DrainRaises
    BY <1>19 DEF DrainRaises, os, io, out
<1>20. CASE PumpEnds
    BY <1>20 DEF PumpEnds, Calls, AtEnd, Closed, os, io, out
<1>21. CASE FactoryExits
    BY <1>21 DEF FactoryExits, ClosesWriter, Closed, os, io, out
<1> QED
    BY <1>1, <1>2, <1>3, <1>4, <1>5, <1>6, <1>7, <1>8, <1>9, <1>10, <1>11, <1>12, <1>13,
       <1>14, <1>15, <1>16, <1>17, <1>18, <1>19, <1>20, <1>21
    DEF Next

-----------------------------------------------------------------------------
(* The inductive invariant holds in every reachable state.                 *)
THEOREM ShellInvariant == Spec => []Inv
<1>1. Inv /\ [Next]_vars => Inv'
    BY TypeStep, OutputStep, EndStep DEF Inv
<1> QED
    BY <1>1, InvInit, PTL DEF Spec

(* The variables always have their types, and no buffer has more than was  *)
(* ever written.                                                           *)
THEOREM ShellTypes == Spec => []TypeOK
<1>1. Inv => TypeOK
    BY DEF Inv
<1> QED
    BY <1>1, ShellInvariant, PTL

(* Of a terminal no end is seen before the subprocess has exited, whatever *)
(* it does with its own descriptors (endpoint.py:73-76).                   *)
THEOREM EndAfterExit == Spec => []NoEndBeforeExit
<1>1. Inv => NoEndBeforeExit
    BY DEF Inv
<1> QED
    BY <1>1, ShellInvariant, PTL

(* What the pump of a pipe has sent when it ends as at the end of the      *)
(* output is all of the output (adb_proxy.py:703-720).                     *)
THEOREM PipeComplete == Spec => []PipeIsComplete
<1>1. Inv => PipeIsComplete
    BY Amounts DEF Inv, Conserved, Ended, Pumped, PipeIsComplete
<1> QED
    BY <1>1, ShellInvariant, PTL
=============================================================================
