--------------------------- MODULE ManagedProcess ---------------------------
(***************************************************************************)
(* The supervision of subprocesses (crates/lazymount-core/src/process.rs): *)
(* spawn_monitored starts a child and a monitor task, which restarts the   *)
(* child when it exits and reports what happens on an event channel; kill  *)
(* and Drop signal the monitor through a oneshot channel.  All monitors of *)
(* a daemon share one bounded channel, drained by the daemon's event loop  *)
(* (server.rs and client.rs) until it shuts down.                          *)
(*                                                                         *)
(* An await of the monitor is a state of its own; between two awaits it is *)
(* one action.  The length of the restart delay is left out.               *)
(***************************************************************************)
EXTENDS Naturals, Sequences

CONSTANTS
    Proc,           \* the managed subprocesses; a name used again is another
    Restartable,    \* those configured with restart_on_crash
    Capacity        \* of the event channel (64 in the code)

ASSUME ProcessAssumption ==
    /\ Restartable \subseteq Proc
    /\ Capacity \in Nat \ {0}

VARIABLES
    alive,          \* is the child alive?
    monitor,        \* where monitor_process stands
    handle,         \* the ManagedProcess: not yet made, held, or killed/dropped
    channel,        \* events sent and not yet received
    seen,           \* the last event received of each process
    loop,           \* the daemon's event loop
    doomed          \* the handles its shutdown branch has to kill

vars == <<alive, monitor, handle, channel, seen, loop, doomed>>

\* The monitor states that are a pending event_tx.send(), with their events.
EventOf == [started |-> "Started", exited |-> "Exited",
            restarting |-> "Restarting", failed |-> "RestartFailed"]

Sending == DOMAIN EventOf

Event == [name : Proc, event : {EventOf[s] : s \in Sending}]

TypeOK ==
    /\ alive \in [Proc -> BOOLEAN]
    /\ monitor \in [Proc -> Sending \cup {"idle", "wait", "delay", "spawn", "done"}]
    /\ handle \in [Proc -> {"none", "held", "released"}]
    /\ channel \in Seq(Event)
    /\ Len(channel) <= Capacity
    /\ seen \in [Proc -> {EventOf[s] : s \in Sending} \cup {"nothing"}]
    /\ loop \in {"booting", "running", "closing", "stopped"}
    /\ doomed \subseteq Proc

Init ==
    /\ alive = [p \in Proc |-> FALSE]
    /\ monitor = [p \in Proc |-> "idle"]
    /\ handle = [p \in Proc |-> "none"]
    /\ channel = <<>>
    /\ seen = [p \in Proc |-> "nothing"]
    /\ loop = "booting"
    /\ doomed = {}

-----------------------------------------------------------------------------
(* The owner of the handle, and the child. *)

\* spawn_monitored: the child is started before the monitor task is.
SpawnMonitored(p) ==
    /\ monitor[p] = "idle"
    /\ alive' = [alive EXCEPT ![p] = TRUE]
    /\ monitor' = [monitor EXCEPT ![p] = "started"]
    /\ handle' = [handle EXCEPT ![p] = "held"]
    /\ UNCHANGED <<channel, seen, loop, doomed>>

\* kill() or Drop: both only send the oneshot signal, and return.
Kill(p) ==
    /\ handle[p] = "held"
    /\ handle' = [handle EXCEPT ![p] = "released"]
    /\ UNCHANGED <<alive, monitor, channel, seen, loop, doomed>>

\* The child crashes, finishes, or is told to exit (RC unmount).
ChildExits(p) ==
    /\ alive[p]
    /\ alive' = [alive EXCEPT ![p] = FALSE]
    /\ UNCHANGED <<monitor, handle, channel, seen, loop, doomed>>

-----------------------------------------------------------------------------
(* monitor_process *)

\* Mutant of AfterExited: the test of restart_on_crash is missing its `!`.
AfterExitedInverted(p) == IF p \in Restartable THEN "done" ELSE "restarting"

\* After the Exited event: break, or go on to the restart.
AfterExited(p) == IF p \in Restartable THEN "restarting" ELSE "done"

\* Mutant of AfterRestarting: the delay is a plain sleep.
DelayAlways(p) == "delay"

\* After the Restarting event the monitor enters the inner select.  Its sleep
\* lasts two seconds at least, so a signal that is already there wins.
AfterRestarting(p) == IF handle[p] = "released" THEN "done" ELSE "delay"

AfterSend(p) ==
    CASE monitor[p] = "started"    -> "wait"
      [] monitor[p] = "exited"     -> AfterExited(p)
      [] monitor[p] = "restarting" -> AfterRestarting(p)
      [] monitor[p] = "failed"     -> "done"

\* Mutant of Send: an unbounded channel.
SendUnbounded(p) ==
    /\ monitor[p] \in Sending
    /\ channel' = IF loop = "stopped" THEN channel
                  ELSE Append(channel, [name |-> p, event |-> EventOf[monitor[p]]])
    /\ monitor' = [monitor EXCEPT ![p] = AfterSend(p)]
    /\ UNCHANGED <<alive, handle, seen, loop, doomed>>

\* Mutant of Send: try_send, which drops the event when the channel is full.
TrySend(p) ==
    /\ monitor[p] \in Sending
    /\ channel' = IF loop # "stopped" /\ Len(channel) < Capacity
                  THEN Append(channel, [name |-> p, event |-> EventOf[monitor[p]]])
                  ELSE channel
    /\ monitor' = [monitor EXCEPT ![p] = AfterSend(p)]
    /\ UNCHANGED <<alive, handle, seen, loop, doomed>>

\* A send waits for room in the channel, and fails, which is ignored, once the
\* receiver is dropped.
Send(p) ==
    /\ monitor[p] \in Sending
    /\ \/ /\ loop # "stopped"
          /\ Len(channel) < Capacity
          /\ channel' = Append(channel, [name |-> p, event |-> EventOf[monitor[p]]])
       \/ /\ loop = "stopped"
          /\ UNCHANGED channel
    /\ monitor' = [monitor EXCEPT ![p] = AfterSend(p)]
    /\ UNCHANGED <<alive, handle, seen, loop, doomed>>

\* The outer select.  When the child has exited and the signal has come, it
\* takes either branch.
SeeExit(p) ==
    /\ monitor[p] = "wait"
    /\ ~alive[p]
    /\ monitor' = [monitor EXCEPT ![p] = "exited"]
    /\ UNCHANGED <<alive, handle, channel, seen, loop, doomed>>

\* Mutant of SeeShutdown: the loop is left without killing the child.
LeaveChild(p) ==
    /\ monitor[p] = "wait"
    /\ handle[p] = "released"
    /\ monitor' = [monitor EXCEPT ![p] = "done"]
    /\ UNCHANGED <<alive, handle, channel, seen, loop, doomed>>

SeeShutdown(p) ==
    /\ monitor[p] = "wait"
    /\ handle[p] = "released"
    /\ alive' = [alive EXCEPT ![p] = FALSE]
    /\ monitor' = [monitor EXCEPT ![p] = "done"]
    /\ UNCHANGED <<handle, channel, seen, loop, doomed>>

\* The inner select: the delay may elapse as the signal arrives.
DelayElapses(p) ==
    /\ monitor[p] = "delay"
    /\ monitor' = [monitor EXCEPT ![p] = "spawn"]
    /\ UNCHANGED <<alive, handle, channel, seen, loop, doomed>>

StopInDelay(p) ==
    /\ monitor[p] = "delay"
    /\ handle[p] = "released"
    /\ monitor' = [monitor EXCEPT ![p] = "done"]
    /\ UNCHANGED <<alive, handle, channel, seen, loop, doomed>>

Respawn(p) ==
    /\ monitor[p] = "spawn"
    /\ \/ /\ alive' = [alive EXCEPT ![p] = TRUE]
          /\ monitor' = [monitor EXCEPT ![p] = "started"]
       \/ /\ monitor' = [monitor EXCEPT ![p] = "failed"]
          /\ UNCHANGED alive
    /\ UNCHANGED <<handle, channel, seen, loop, doomed>>

-----------------------------------------------------------------------------
(* The daemon's event loop. *)

\* start_client connects and mounts what was saved before the loop exists.
LoopStarts ==
    /\ loop = "booting"
    /\ loop' = "running"
    /\ UNCHANGED <<alive, monitor, handle, channel, seen, doomed>>

Receive ==
    /\ loop = "running"
    /\ channel # <<>>
    /\ seen' = [seen EXCEPT ![Head(channel).name] = Head(channel).event]
    /\ channel' = Tail(channel)
    /\ UNCHANGED <<alive, monitor, handle, loop, doomed>>

\* The shutdown branch: nothing is received while it kills the handles it
\* finds, one by one (each by Kill).  A handle made later is not its business.
LoopCloses ==
    /\ loop = "running"
    /\ loop' = "closing"
    /\ doomed' = {p \in Proc : handle[p] = "held"}
    /\ UNCHANGED <<alive, monitor, handle, channel, seen>>

\* Mutant of LoopEnds: the receiver outlives the loop.
LoopEndsKeepingChannel ==
    /\ loop = "closing"
    /\ \A p \in doomed : handle[p] = "released"
    /\ doomed' = {}
    /\ UNCHANGED <<alive, monitor, handle, seen, channel, loop>>

\* The task ends; the receiver and what it holds are dropped.
LoopEnds ==
    /\ loop = "closing"
    /\ \A p \in doomed : handle[p] = "released"
    /\ loop' = "stopped"
    /\ channel' = <<>>
    /\ doomed' = {}
    /\ UNCHANGED <<alive, monitor, handle, seen>>

-----------------------------------------------------------------------------

Monitor(p) ==
    \/ SeeExit(p)
    \/ SeeShutdown(p)
    \/ DelayElapses(p)
    \/ StopInDelay(p)
    \/ Respawn(p)

Next ==
    \/ \E p \in Proc :
        \/ SpawnMonitored(p)
        \/ Kill(p)
        \/ ChildExits(p)
        \/ Send(p)
        \/ SeeExit(p)
        \/ SeeShutdown(p)
        \/ DelayElapses(p)
        \/ StopInDelay(p)
        \/ Respawn(p)
    \/ LoopStarts
    \/ Receive
    \/ LoopCloses
    \/ LoopEnds

Spec == Init /\ [][Next]_vars

\* The runtime runs every ready task.  Senders wait for a slot in the order
\* they came (tokio's semaphore is fair), hence SF.  A shutdown branch that was
\* entered kills what it found.  Nobody is obliged to spawn, kill or shut down,
\* and no child is obliged to exit.
FairSpec ==
    /\ Spec
    /\ \A p \in Proc :
        /\ WF_vars(Monitor(p))
        /\ SF_vars(Send(p))
        /\ WF_vars(p \in doomed /\ Kill(p))
    /\ WF_vars(LoopStarts)
    /\ WF_vars(Receive)
    /\ WF_vars(LoopEnds)

-----------------------------------------------------------------------------
(* Safety *)

\* There is never a second child, and none without a monitor: a child is alive
\* only while its monitor reports its start or watches it, so that a restart
\* never overlaps the previous child and a monitor never leaves one behind.
OneChild == \A p \in Proc : alive[p] => monitor[p] \in {"started", "wait"}

\* No event is lost while the loop listens: when nothing of p is queued and its
\* monitor is watching, the last event received says so.
LogTellsTruth ==
    \A p \in Proc :
        /\ loop \in {"booting", "running", "closing"}
        /\ monitor[p] = "wait"
        /\ \A i \in DOMAIN channel : channel[i].name # p
        => seen[p] = "Started"

\* The child's life as ProcessLifecycle sees it.
State(p) ==
    IF monitor[p] = "idle" THEN "unborn"
    ELSE IF monitor[p] = "done" THEN "gone"
    ELSE IF alive[p] THEN "up" ELSE "down"

MayStart(p) ==
    \/ handle[p] = "held" /\ monitor[p] # "done"
    \/ monitor[p] \in {"delay", "spawn"}

Lifecycle == INSTANCE ProcessLifecycle WITH
    state <- [p \in Proc |-> State(p)],
    wanted <- [p \in Proc |-> handle[p] = "held"],
    grace <- [p \in Proc |-> MayStart(p)]

\* process.rs implements the promise of ProcessLifecycle: in particular, after
\* kill() or Drop the child is started again once at most.
ImplementsLifecycle == Lifecycle!Spec

\* The steps a monitor has before it whose process is killed or dropped.
StepsLeft ==
    [delay |-> 6, spawn |-> 5, started |-> 4, wait |-> 3, exited |-> 2,
     restarting |-> 1, failed |-> 1, done |-> 0, idle |-> 0]

\* After kill() or Drop, monitor_process does not go round its loop again: each
\* of its steps, of which there are six at most, brings it nearer to its end,
\* and nothing the child, the channel or the loop does takes it back.
WindsDown ==
    [][ \A p \in Proc :
          handle[p] = "released" /\ monitor'[p] # monitor[p]
              => StepsLeft[monitor'[p]] < StepsLeft[monitor[p]] ]_vars

-----------------------------------------------------------------------------
(* Liveness *)

\* process.rs implements the promise with its fairness: a killed or dropped
\* process ends, even if its monitor is blocked on a full channel while the
\* loop is shutting down.
ImplementsFairLifecycle == Lifecycle!FairSpec

\* A crashed child comes back, unless it is killed or cannot be started.
CrashedComesBack ==
    \A p \in Restartable :
        ~alive[p] /\ monitor[p] = "wait"
            ~> alive[p] \/ handle[p] = "released" \/ monitor[p] = "failed"

=============================================================================
