------------------------ MODULE ManagedProcessProofs ------------------------
(***************************************************************************)
(* Theorems about ManagedProcess, for any number of processes and any      *)
(* capacity of the event channel.                                          *)
(***************************************************************************)
EXTENDS ManagedProcess, TLAPS

\* A handle exists from the moment its monitor does.
HandleOfMonitor == \A p \in Proc : monitor[p] = "idle" <=> handle[p] = "none"

\* Nothing of p is queued.
NothingQueued(p) == \A i \in DOMAIN channel : channel[i].name # p

\* The last event of p that is queued, if one is, is e.
LastQueued(p, e) ==
    \E i \in DOMAIN channel :
        /\ channel[i] = [name |-> p, event |-> e]
        /\ \A j \in DOMAIN channel : j > i => channel[j].name # p

\* While its monitor watches the child or its exit is about to be reported,
\* p's last event is its Started event.
LastWord ==
    loop # "stopped" =>
        \A p \in Proc :
            monitor[p] = "wait" =>
                \/ NothingQueued(p) /\ seen[p] = "Started"
                \/ LastQueued(p, "Started")

IInv ==
    /\ TypeOK
    /\ HandleOfMonitor
    /\ OneChild
    /\ LastWord

-----------------------------------------------------------------------------

\* The record that is sent is an event, with the monitor state it belongs to.
LEMMA EventFacts ==
    /\ Sending = {"started", "exited", "restarting", "failed"}
    /\ EventOf["started"] = "Started" /\ EventOf["exited"] = "Exited"
    /\ EventOf["restarting"] = "Restarting" /\ EventOf["failed"] = "RestartFailed"
    /\ {EventOf[s] : s \in Sending} = {"Started", "Exited", "Restarting", "RestartFailed"}
<1>1. Sending = {"started", "exited", "restarting", "failed"}
  BY DEF Sending, EventOf
<1>2. /\ EventOf["started"] = "Started" /\ EventOf["exited"] = "Exited"
      /\ EventOf["restarting"] = "Restarting" /\ EventOf["failed"] = "RestartFailed"
  BY DEF EventOf
<1> QED
  BY <1>1, <1>2

\* Where a completed send leads.
LEMMA AfterSendFacts ==
    ASSUME TypeOK, NEW p \in Proc, monitor[p] \in Sending
    PROVE  /\ AfterSend(p) \in {"wait", "restarting", "delay", "done"}
           /\ AfterSend(p) = "wait" <=> monitor[p] = "started"
  BY EventFacts DEF AfterSend, AfterExited, AfterRestarting

LEMMA InitIInv == Init => IInv
  BY EventFacts, ProcessAssumption
  DEF ProcessAssumption, Init, IInv, TypeOK, HandleOfMonitor, OneChild, LastWord, Event

\* A step that touches neither the channel nor what was seen, and lets no
\* monitor begin to watch, leaves LastWord alone.
LEMMA SameChannel ==
    ASSUME LastWord, UNCHANGED <<channel, seen>>, loop' # "stopped" => loop # "stopped",
           \A p \in Proc : monitor'[p] = "wait" => monitor[p] = "wait"
    PROVE  LastWord'
  BY DEF LastWord, NothingQueued, LastQueued

-----------------------------------------------------------------------------
(* The two steps that change the channel. *)

\* Appending an event of q: for q it becomes the last one queued, for any
\* other process nothing changes.
LEMMA AppendFacts ==
    ASSUME channel \in Seq(Event), NEW q \in Proc, NEW x,
           [name |-> q, event |-> x] \in Event,
           channel' = Append(channel, [name |-> q, event |-> x])
    PROVE  /\ LastQueued(q, x)'
           /\ \A p \in Proc \ {q} : NothingQueued(p) => NothingQueued(p)'
           /\ \A p \in Proc \ {q} : \A e : LastQueued(p, e) => LastQueued(p, e)'
<1> DEFINE new == [name |-> q, event |-> x]
<1>1. /\ Len(channel) \in Nat
      /\ DOMAIN channel = 1 .. Len(channel)
      /\ DOMAIN channel' = 1 .. (Len(channel) + 1)
      /\ \A i \in DOMAIN channel : channel'[i] = channel[i]
      /\ channel'[Len(channel) + 1] = new
  OBVIOUS
<1>2. new.name = q
  OBVIOUS
<1> HIDE DEF new
<1>3. \A i \in DOMAIN channel' : i \in DOMAIN channel \/ i = Len(channel) + 1
  BY <1>1
<1>4. Len(channel) + 1 \in DOMAIN channel'
  BY <1>1
<1>5. \A j \in DOMAIN channel' : ~(j > Len(channel) + 1)
  BY <1>1
<1>6. LastQueued(q, x)'
  BY <1>1, <1>4, <1>5 DEF LastQueued, new
<1>7. ASSUME NEW p \in Proc \ {q}, NothingQueued(p) PROVE NothingQueued(p)'
  BY <1>1, <1>2, <1>3, <1>7 DEF NothingQueued
<1>8. ASSUME NEW p \in Proc \ {q}, NEW e, LastQueued(p, e) PROVE LastQueued(p, e)'
  <2>1. PICK i \in DOMAIN channel :
          /\ channel[i] = [name |-> p, event |-> e]
          /\ \A j \in DOMAIN channel : j > i => channel[j].name # p
    BY <1>8 DEF LastQueued
  <2>2. i \in DOMAIN channel' /\ channel'[i] = [name |-> p, event |-> e]
    BY <1>1, <2>1
  <2>3. \A j \in DOMAIN channel' : j > i => channel'[j].name # p
    BY <1>1, <1>2, <1>3, <2>1
  <2> QED
    BY <2>2, <2>3 DEF LastQueued
<1> QED
  BY <1>6, <1>7, <1>8

\* Receiving the head: what was the last event of p is so still, or has just
\* been seen.
LEMMA TailFacts ==
    ASSUME TypeOK, Receive, NEW p \in Proc, NEW e
    PROVE  /\ NothingQueued(p) => NothingQueued(p)' /\ seen'[p] = seen[p]
           /\ LastQueued(p, e) =>
                \/ NothingQueued(p)' /\ seen'[p] = e
                \/ LastQueued(p, e)'
<1>0. channel \in Seq(Event) /\ channel # <<>> /\ channel' = Tail(channel)
  BY DEF TypeOK, Receive
<1>h. Head(channel) = channel[1]
  BY <1>0
<1>1. seen' = [seen EXCEPT ![channel[1].name] = channel[1].event]
  BY <1>h DEF Receive
<1>2. /\ Len(channel) \in Nat \ {0}
      /\ DOMAIN channel = 1 .. Len(channel)
      /\ DOMAIN channel' = 1 .. (Len(channel) - 1)
      /\ \A i \in DOMAIN channel' : channel'[i] = channel[i + 1]
  BY <1>0
<1>3. \A i \in DOMAIN channel' : i + 1 \in DOMAIN channel /\ i \in Nat
  BY <1>2
<1>4. channel[1].name \in Proc /\ DOMAIN seen = Proc
  <2>1. channel[1] \in Event
    BY <1>0, <1>2
  <2> QED
    BY <2>1 DEF Event, TypeOK
<1>5. ASSUME NothingQueued(p) PROVE NothingQueued(p)' /\ seen'[p] = seen[p]
  <2>1. NothingQueued(p)'
    BY <1>2, <1>3, <1>5 DEF NothingQueued
  <2>2. channel[1].name # p
    BY <1>2, <1>5 DEF NothingQueued
  <2> QED
    BY <1>1, <1>4, <2>1, <2>2
<1>6. ASSUME LastQueued(p, e)
      PROVE  (NothingQueued(p)' /\ seen'[p] = e) \/ LastQueued(p, e)'
  <2>1. PICK i \in DOMAIN channel :
          /\ channel[i] = [name |-> p, event |-> e]
          /\ \A j \in DOMAIN channel : j > i => channel[j].name # p
    BY <1>6 DEF LastQueued
  <2>2. CASE i = 1
    <3>1. \A j \in DOMAIN channel' : channel'[j].name # p
      BY <1>2, <1>3, <2>1, <2>2
    <3>2. seen'[p] = e
      BY <1>1, <1>4, <2>1, <2>2
    <3> QED
      BY <3>1, <3>2 DEF NothingQueued
  <2>3. CASE i # 1
    <3>1. i - 1 \in DOMAIN channel' /\ channel'[i - 1] = channel[i]
      BY <1>2, <2>3
    <3>2. \A j \in DOMAIN channel' : j > i - 1 => channel'[j].name # p
      BY <1>2, <1>3, <2>1
    <3> QED
      BY <2>1, <3>1, <3>2 DEF LastQueued
  <2> QED
    BY <2>2, <2>3
<1> QED
  BY <1>5, <1>6

-----------------------------------------------------------------------------

LEMMA StepIInv == IInv /\ [Next]_vars => IInv'
<1> SUFFICES ASSUME IInv, [Next]_vars PROVE IInv'
  OBVIOUS
<1> USE DEF IInv
<1>1. ASSUME NEW p \in Proc, SpawnMonitored(p) PROVE IInv'
  <2>1. TypeOK'
    BY <1>1, EventFacts DEF SpawnMonitored, TypeOK
  <2>2. HandleOfMonitor' /\ OneChild'
    BY <1>1 DEF SpawnMonitored, TypeOK, HandleOfMonitor, OneChild
  <2>3. LastWord'
    BY <1>1, SameChannel DEF SpawnMonitored, TypeOK
  <2> QED
    BY <2>1, <2>2, <2>3
<1>2. ASSUME NEW p \in Proc, Kill(p) PROVE IInv'
  <2>1. TypeOK'
    BY <1>2 DEF Kill, TypeOK
  <2>2. HandleOfMonitor' /\ OneChild'
    BY <1>2 DEF Kill, TypeOK, HandleOfMonitor, OneChild
  <2>3. LastWord'
    BY <1>2, SameChannel DEF Kill
  <2> QED
    BY <2>1, <2>2, <2>3
<1>3. ASSUME NEW p \in Proc, ChildExits(p) PROVE IInv'
  <2>1. TypeOK'
    BY <1>3 DEF ChildExits, TypeOK
  <2>2. HandleOfMonitor' /\ OneChild'
    BY <1>3 DEF ChildExits, TypeOK, HandleOfMonitor, OneChild
  <2>3. LastWord'
    BY <1>3, SameChannel DEF ChildExits
  <2> QED
    BY <2>1, <2>2, <2>3
<1>4. ASSUME NEW p \in Proc, Send(p) PROVE IInv'
  <2> DEFINE x == EventOf[monitor[p]]
  <2>0. monitor[p] \in Sending
    BY <1>4 DEF Send
  <2>1. /\ AfterSend(p) \in {"wait", "restarting", "delay", "done"}
        /\ AfterSend(p) = "wait" <=> monitor[p] = "started"
        /\ monitor' = [monitor EXCEPT ![p] = AfterSend(p)]
    BY <1>4, <2>0, AfterSendFacts DEF Send
  <2>2. x \in {"Started", "Exited", "Restarting", "RestartFailed"}
        /\ (monitor[p] = "started" => x = "Started")
    BY <2>0, EventFacts
  <2>3. [name |-> p, event |-> x] \in Event
    BY <2>0, <2>2, EventFacts DEF Event
  <2>4. channel \in Seq(Event)
    BY DEF TypeOK
  <2> HIDE DEF x
  <2>5. TypeOK'
    <3>1. channel' \in Seq(Event) /\ Len(channel') <= Capacity
      <4>1. CASE loop # "stopped" /\ Len(channel) < Capacity
                  /\ channel' = Append(channel, [name |-> p, event |-> x])
        BY <2>3, <2>4, <4>1, ProcessAssumption DEF ProcessAssumption
      <4>2. CASE UNCHANGED channel
        BY <4>2 DEF TypeOK
      <4> QED
        BY <1>4, <4>1, <4>2 DEF Send, x
    <3> QED
      BY <1>4, <2>1, <3>1, EventFacts DEF Send, TypeOK
  <2>6. HandleOfMonitor' /\ OneChild'
    BY <1>4, <2>0, <2>1, EventFacts DEF Send, TypeOK, HandleOfMonitor, OneChild
  <2>7. LastWord'
    <3>1. SUFFICES ASSUME loop # "stopped", NEW q \in Proc, monitor'[q] = "wait"
                   PROVE  \/ NothingQueued(q)' /\ seen'[q] = "Started"
                          \/ LastQueued(q, "Started")'
      BY <1>4 DEF LastWord, Send
    <3>2. channel' = Append(channel, [name |-> p, event |-> x])
      BY <1>4, <3>1 DEF Send, x
    <3>3. CASE q = p
      BY <2>1, <2>2, <2>3, <2>4, <3>1, <3>2, <3>3, AppendFacts DEF TypeOK
    <3>4. CASE q # p
      <4>1. monitor[q] = "wait" /\ seen'[q] = seen[q]
        BY <1>4, <2>1, <3>1, <3>4 DEF Send, TypeOK
      <4>2. (NothingQueued(q) /\ seen[q] = "Started") \/ LastQueued(q, "Started")
        BY <3>1, <4>1 DEF LastWord
      <4>3. /\ \A r \in Proc \ {p} : NothingQueued(r) => NothingQueued(r)'
            /\ \A r \in Proc \ {p} : \A e : LastQueued(r, e) => LastQueued(r, e)'
        BY <2>3, <2>4, <3>2, AppendFacts
      <4> QED
        BY <3>4, <4>1, <4>2, <4>3
    <3> QED
      BY <3>3, <3>4
  <2> QED
    BY <2>5, <2>6, <2>7
<1>5. ASSUME NEW p \in Proc, SeeExit(p) PROVE IInv'
  <2>1. TypeOK'
    BY <1>5, EventFacts DEF SeeExit, TypeOK
  <2>2. HandleOfMonitor' /\ OneChild'
    BY <1>5 DEF SeeExit, TypeOK, HandleOfMonitor, OneChild
  <2>3. LastWord'
    BY <1>5, SameChannel DEF SeeExit, TypeOK
  <2> QED
    BY <2>1, <2>2, <2>3
<1>6. ASSUME NEW p \in Proc, SeeShutdown(p) PROVE IInv'
  <2>1. TypeOK'
    BY <1>6 DEF SeeShutdown, TypeOK
  <2>2. HandleOfMonitor' /\ OneChild'
    BY <1>6 DEF SeeShutdown, TypeOK, HandleOfMonitor, OneChild
  <2>3. LastWord'
    BY <1>6, SameChannel DEF SeeShutdown, TypeOK
  <2> QED
    BY <2>1, <2>2, <2>3
<1>7. ASSUME NEW p \in Proc, DelayElapses(p) PROVE IInv'
  <2>1. TypeOK'
    BY <1>7 DEF DelayElapses, TypeOK
  <2>2. HandleOfMonitor' /\ OneChild'
    BY <1>7 DEF DelayElapses, TypeOK, HandleOfMonitor, OneChild
  <2>3. LastWord'
    BY <1>7, SameChannel DEF DelayElapses, TypeOK
  <2> QED
    BY <2>1, <2>2, <2>3
<1>8. ASSUME NEW p \in Proc, StopInDelay(p) PROVE IInv'
  <2>1. TypeOK'
    BY <1>8 DEF StopInDelay, TypeOK
  <2>2. HandleOfMonitor' /\ OneChild'
    BY <1>8 DEF StopInDelay, TypeOK, HandleOfMonitor, OneChild
  <2>3. LastWord'
    BY <1>8, SameChannel DEF StopInDelay, TypeOK
  <2> QED
    BY <2>1, <2>2, <2>3
<1>9. ASSUME NEW p \in Proc, Respawn(p) PROVE IInv'
  <2>1. TypeOK'
    BY <1>9, EventFacts DEF Respawn, TypeOK
  <2>2. HandleOfMonitor' /\ OneChild'
    BY <1>9 DEF Respawn, TypeOK, HandleOfMonitor, OneChild
  <2>3. LastWord'
    BY <1>9, SameChannel DEF Respawn, TypeOK
  <2> QED
    BY <2>1, <2>2, <2>3
<1>10. CASE LoopStarts
  <2>1. LastWord'
    BY <1>10, SameChannel DEF LoopStarts
  <2> QED
    BY <1>10, <2>1 DEF LoopStarts, TypeOK, HandleOfMonitor, OneChild
<1>11. CASE Receive
  <2>1. /\ channel' \in Seq(Event) /\ Len(channel') <= Capacity
        /\ Head(channel) \in Event
    BY <1>11, ProcessAssumption DEF Receive, TypeOK, ProcessAssumption
  <2>2. TypeOK'
    BY <1>11, <2>1 DEF Receive, TypeOK, Event
  <2>3. HandleOfMonitor' /\ OneChild'
    BY <1>11 DEF Receive, HandleOfMonitor, OneChild
  <2>4. LastWord'
    <3>1. SUFFICES ASSUME NEW p \in Proc, monitor[p] = "wait"
                   PROVE  \/ NothingQueued(p)' /\ seen'[p] = "Started"
                          \/ LastQueued(p, "Started")'
      BY <1>11 DEF LastWord, Receive
    <3>2. (NothingQueued(p) /\ seen[p] = "Started") \/ LastQueued(p, "Started")
      BY <1>11, <3>1 DEF LastWord, Receive
    <3> QED
      BY <1>11, <3>1, <3>2, TailFacts
  <2> QED
    BY <2>2, <2>3, <2>4
<1>12. CASE LoopCloses
  <2>1. LastWord'
    BY <1>12, SameChannel DEF LoopCloses
  <2> QED
    BY <1>12, <2>1 DEF LoopCloses, TypeOK, HandleOfMonitor, OneChild
<1>13. CASE LoopEnds
  <2>1. TypeOK'
    BY <1>13, ProcessAssumption DEF LoopEnds, TypeOK, ProcessAssumption
  <2> QED
    BY <1>13, <2>1 DEF LoopEnds, HandleOfMonitor, OneChild, LastWord
<1>14. CASE UNCHANGED vars
  <2>1. LastWord'
    BY <1>14, SameChannel DEF vars
  <2> QED
    BY <1>14, <2>1 DEF vars, TypeOK, HandleOfMonitor, OneChild
<1> QED
  BY <1>1, <1>2, <1>3, <1>4, <1>5, <1>6, <1>7, <1>8, <1>9, <1>10, <1>11, <1>12,
     <1>13, <1>14 DEF Next

THEOREM Invariance == Spec => []IInv
  BY InitIInv, StepIInv, PTL DEF Spec

-----------------------------------------------------------------------------
(* The refinement of ProcessLifecycle *)

\* The abstract state, as functions on Proc.
States == [p \in Proc |-> State(p)]
Wanteds == [p \in Proc |-> handle[p] = "held"]
Graces == [p \in Proc |-> MayStart(p)]

\* A step that changes alive, monitor and handle at p alone changes the
\* abstract state at p alone.
LEMMA ChangeAtOne ==
    ASSUME TypeOK, NEW p \in Proc, NEW a, NEW m, NEW h,
           alive' = [alive EXCEPT ![p] = a],
           monitor' = [monitor EXCEPT ![p] = m],
           handle' = [handle EXCEPT ![p] = h]
    PROVE  /\ alive'[p] = a /\ monitor'[p] = m /\ handle'[p] = h
           /\ States' = [States EXCEPT ![p] = State(p)']
           /\ Wanteds' = [Wanteds EXCEPT ![p] = (handle'[p] = "held")]
           /\ Graces' = [Graces EXCEPT ![p] = MayStart(p)']
<1>1. \A q \in Proc : q # p =>
        alive'[q] = alive[q] /\ monitor'[q] = monitor[q] /\ handle'[q] = handle[q]
  BY DEF TypeOK
<1>2. alive'[p] = a /\ monitor'[p] = m /\ handle'[p] = h
  BY DEF TypeOK
<1>3. \A q \in Proc : q # p =>
        /\ State(q)' = State(q)
        /\ (handle'[q] = "held") = (handle[q] = "held")
        /\ MayStart(q)' = MayStart(q)
  BY <1>1 DEF State, MayStart
<1> QED
  BY <1>2, <1>3 DEF States, Wanteds, Graces

\* A step of p that keeps its abstract state is a stutter.
LEMMA StutterAtOne ==
    ASSUME TypeOK, NEW p \in Proc, NEW a, NEW m, UNCHANGED handle,
           alive' = [alive EXCEPT ![p] = a],
           monitor' = [monitor EXCEPT ![p] = m],
           State(p)' = State(p), MayStart(p)' = MayStart(p)
    PROVE  UNCHANGED Lifecycle!vars
<1>1. handle' = [handle EXCEPT ![p] = handle[p]]
  BY DEF TypeOK
<1>2. /\ States' = [States EXCEPT ![p] = State(p)]
      /\ Wanteds' = [Wanteds EXCEPT ![p] = (handle'[p] = "held")]
      /\ Graces' = [Graces EXCEPT ![p] = MayStart(p)]
  BY <1>1, ChangeAtOne
<1>3. States' = States /\ Wanteds' = Wanteds /\ Graces' = Graces
  BY <1>2 DEF States, Wanteds, Graces
<1> QED
  BY <1>3 DEF Lifecycle!vars, States, Wanteds, Graces

\* A monitor that ends, with its child down or killed for its owner, ends the
\* process.
LEMMA MonitorEnds ==
    ASSUME TypeOK, NEW p \in Proc, NEW a, UNCHANGED handle,
           alive' = [alive EXCEPT ![p] = a],
           monitor' = [monitor EXCEPT ![p] = "done"],
           monitor[p] \notin {"idle", "done"},
           ~alive[p] \/ handle[p] = "released"
    PROVE  Lifecycle!End(p)
<1>1. handle' = [handle EXCEPT ![p] = handle[p]]
  BY DEF TypeOK
<1>2. /\ State(p)' = "gone"
      /\ MayStart(p)' = FALSE
  BY DEF TypeOK, State, MayStart
<1>3. /\ States' = [States EXCEPT ![p] = "gone"]
      /\ Wanteds' = [Wanteds EXCEPT ![p] = (handle'[p] = "held")]
      /\ Graces' = [Graces EXCEPT ![p] = FALSE]
  BY <1>1, <1>2, ChangeAtOne
<1>4. Wanteds' = Wanteds
  BY DEF Wanteds
<1>5. State(p) = "down" \/ (State(p) = "up" /\ (handle[p] = "held") = FALSE)
  BY DEF State, TypeOK
<1> QED
  BY <1>3, <1>4, <1>5 DEF Lifecycle!End, States, Wanteds, Graces

LEMMA InitRefines == Init => Lifecycle!Init
<1> SUFFICES ASSUME Init PROVE Lifecycle!Init
  OBVIOUS
<1>1. \A p \in Proc : /\ State(p) = "unborn"
                      /\ (handle[p] = "held") = FALSE
                      /\ MayStart(p) = FALSE
  BY DEF Init, State, MayStart
<1> QED
  BY <1>1 DEF Lifecycle!Init

\* Every step of process.rs is a step of ProcessLifecycle or a stutter.
LEMMA StepRefines == IInv /\ [Next]_vars => [Lifecycle!Next]_Lifecycle!vars
<1> SUFFICES ASSUME IInv, [Next]_vars PROVE [Lifecycle!Next]_Lifecycle!vars
  OBVIOUS
<1> USE DEF IInv
<1>0. TypeOK
  OBVIOUS
<1>a. ASSUME UNCHANGED <<alive, monitor, handle>>
      PROVE  UNCHANGED Lifecycle!vars
  BY <1>a DEF Lifecycle!vars, State, MayStart
<1>b. Lifecycle!vars = <<States, Wanteds, Graces>>
  BY DEF Lifecycle!vars, States, Wanteds, Graces
<1>c. ASSUME NEW p \in Proc
      PROVE  /\ States[p] = State(p)
             /\ Wanteds[p] = (handle[p] = "held")
             /\ Graces[p] = MayStart(p)
  BY DEF States, Wanteds, Graces
<1>d. ASSUME NEW p \in Proc
      PROVE  /\ alive = [alive EXCEPT ![p] = alive[p]]
             /\ monitor = [monitor EXCEPT ![p] = monitor[p]]
             /\ handle = [handle EXCEPT ![p] = handle[p]]
  BY DEF TypeOK
<1>1. ASSUME NEW p \in Proc, SpawnMonitored(p) PROVE Lifecycle!Start(p)
  <2>1. State(p) = "unborn"
    BY <1>1 DEF SpawnMonitored, State
  <2>2. State(p)' = "up" /\ (handle'[p] = "held") = TRUE /\ MayStart(p)' = TRUE
    BY <1>1 DEF SpawnMonitored, TypeOK, State, MayStart
  <2>3. /\ States' = [States EXCEPT ![p] = "up"]
        /\ Wanteds' = [Wanteds EXCEPT ![p] = TRUE]
        /\ Graces' = [Graces EXCEPT ![p] = TRUE]
    BY <1>1, <2>2, ChangeAtOne DEF SpawnMonitored
  <2> QED
    BY <2>1, <2>3 DEF Lifecycle!Start, States, Wanteds, Graces
<1>2. ASSUME NEW p \in Proc, Kill(p) PROVE Lifecycle!Withdraw(p)
  <2>1. (handle[p] = "held") = TRUE
    BY <1>2 DEF Kill
  <2>2. /\ State(p)' = State(p)
        /\ (handle'[p] = "held") = FALSE
        /\ MayStart(p)' \in {FALSE, MayStart(p)}
    BY <1>2 DEF Kill, TypeOK, State, MayStart
  <2>3. /\ States' = [States EXCEPT ![p] = State(p)]
        /\ Wanteds' = [Wanteds EXCEPT ![p] = FALSE]
        /\ Graces' = [Graces EXCEPT ![p] = MayStart(p)']
    <3>1. /\ alive' = [alive EXCEPT ![p] = alive[p]]
          /\ monitor' = [monitor EXCEPT ![p] = monitor[p]]
          /\ handle' = [handle EXCEPT ![p] = "released"]
      BY <1>2, <1>d DEF Kill
    <3> QED
      BY <3>1, <2>2, ChangeAtOne
  <2>4. States' = States
    BY <2>3 DEF States
  <2> QED
    BY <2>1, <2>2, <2>3, <2>4 DEF Lifecycle!Withdraw, States, Wanteds, Graces
<1>3. ASSUME NEW p \in Proc, ChildExits(p) PROVE Lifecycle!Drop(p)
  <2>1. State(p) = "up" /\ State(p)' = "down" /\ MayStart(p)' = MayStart(p)
    BY <1>3 DEF ChildExits, TypeOK, OneChild, State, MayStart
  <2>2. /\ alive' = [alive EXCEPT ![p] = FALSE]
        /\ monitor' = [monitor EXCEPT ![p] = monitor[p]]
        /\ handle' = [handle EXCEPT ![p] = handle[p]]
    BY <1>3, <1>d DEF ChildExits
  <2>3. /\ States' = [States EXCEPT ![p] = "down"]
        /\ Graces' = [Graces EXCEPT ![p] = MayStart(p)]
    BY <2>1, <2>2, ChangeAtOne
  <2>4. Graces' = Graces /\ Wanteds' = Wanteds
    BY <1>3, <2>3 DEF Graces, Wanteds, ChildExits
  <2> QED
    BY <2>1, <2>3, <2>4 DEF Lifecycle!Drop, States, Wanteds, Graces
<1>4. ASSUME NEW p \in Proc, Send(p)
      PROVE  Lifecycle!End(p) \/ UNCHANGED Lifecycle!vars
  <2>1. /\ alive' = [alive EXCEPT ![p] = alive[p]]
        /\ monitor' = [monitor EXCEPT ![p] = AfterSend(p)]
        /\ UNCHANGED handle
    BY <1>4, <1>d DEF Send
  <2>2. monitor[p] \in {"started", "exited", "restarting", "failed"}
    BY <1>4, EventFacts DEF Send
  <2>3. CASE AfterSend(p) = "done"
    <3>1. ~alive[p]
      BY <2>2, <2>3 DEF OneChild, AfterSend
    <3> QED
      BY <2>1, <2>2, <2>3, <3>1, MonitorEnds
  <2>4. CASE AfterSend(p) # "done"
    <3>1. \/ monitor[p] = "started" /\ AfterSend(p) = "wait"
          \/ monitor[p] = "exited" /\ AfterSend(p) = "restarting"
          \/ monitor[p] = "restarting" /\ AfterSend(p) = "delay" /\ handle[p] # "released"
      BY <2>2, <2>4 DEF AfterSend, AfterExited, AfterRestarting
    <3>2. State(p)' = State(p)
      BY <2>1, <3>1 DEF State, TypeOK
    <3>3. handle[p] # "none"
      BY <3>1 DEF HandleOfMonitor
    <3>4. MayStart(p)' = MayStart(p)
      BY <2>1, <3>1, <3>3 DEF MayStart, TypeOK
    <3> QED
      BY <2>1, <3>2, <3>4, StutterAtOne
  <2> QED
    BY <2>3, <2>4
<1>5. ASSUME NEW p \in Proc, SeeExit(p) PROVE UNCHANGED Lifecycle!vars
  <2>1. State(p)' = State(p) /\ MayStart(p)' = MayStart(p)
    BY <1>5 DEF SeeExit, State, MayStart, TypeOK
  <2>2. alive' = [alive EXCEPT ![p] = alive[p]]
    BY <1>5, <1>d DEF SeeExit
  <2> QED
    BY <1>5, <2>1, <2>2, StutterAtOne DEF SeeExit
<1>6. ASSUME NEW p \in Proc, SeeShutdown(p) PROVE Lifecycle!End(p)
  BY <1>6, MonitorEnds DEF SeeShutdown
<1>7. ASSUME NEW p \in Proc, DelayElapses(p) PROVE UNCHANGED Lifecycle!vars
  <2>1. State(p)' = State(p) /\ MayStart(p)' = MayStart(p)
    BY <1>7 DEF DelayElapses, State, MayStart, TypeOK
  <2>2. alive' = [alive EXCEPT ![p] = alive[p]]
    BY <1>7, <1>d DEF DelayElapses
  <2> QED
    BY <1>7, <2>1, <2>2, StutterAtOne DEF DelayElapses
<1>8. ASSUME NEW p \in Proc, StopInDelay(p) PROVE Lifecycle!End(p)
  <2>1. alive' = [alive EXCEPT ![p] = alive[p]]
    BY <1>8, <1>d DEF StopInDelay
  <2> QED
    BY <1>8, <2>1, MonitorEnds DEF StopInDelay
<1>9. ASSUME NEW p \in Proc, Respawn(p)
      PROVE  Lifecycle!Restart(p) \/ Lifecycle!Relent(p) \/ UNCHANGED Lifecycle!vars
  <2>1. monitor[p] = "spawn" /\ ~alive[p] /\ handle[p] \in {"held", "released"}
    BY <1>9 DEF Respawn, OneChild, HandleOfMonitor, TypeOK
  <2>2. State(p) = "down" /\ MayStart(p) = TRUE
    BY <2>1 DEF State, MayStart
  <2>3. handle' = [handle EXCEPT ![p] = handle[p]] /\ Wanteds' = Wanteds
    BY <1>9, <1>d DEF Respawn, Wanteds
  <2>4. CASE /\ alive' = [alive EXCEPT ![p] = TRUE]
             /\ monitor' = [monitor EXCEPT ![p] = "started"]
    <3>1. State(p)' = "up" /\ MayStart(p)' = (handle[p] = "held")
      BY <1>9, <2>4 DEF Respawn, State, MayStart, TypeOK
    <3>2. /\ States' = [States EXCEPT ![p] = "up"]
          /\ Graces' = [Graces EXCEPT ![p] = (handle[p] = "held")]
      BY <2>3, <2>4, <3>1, ChangeAtOne
    <3> QED
      BY <2>2, <2>3, <3>2 DEF Lifecycle!Restart, States, Wanteds, Graces
  <2>5. CASE /\ monitor' = [monitor EXCEPT ![p] = "failed"]
             /\ UNCHANGED alive
    <3>1. alive' = [alive EXCEPT ![p] = alive[p]]
      BY <2>5, <1>d
    <3>2. State(p)' = State(p) /\ MayStart(p)' = (handle[p] = "held")
      BY <1>9, <2>5, <2>1 DEF Respawn, State, MayStart, TypeOK
    <3>3. CASE handle[p] = "held"
      BY <1>9, <2>2, <2>5, <3>1, <3>2, <3>3, StutterAtOne DEF Respawn
    <3>4. CASE handle[p] # "held"
      <4>1. /\ States' = [States EXCEPT ![p] = State(p)]
            /\ Graces' = [Graces EXCEPT ![p] = FALSE]
        BY <2>3, <2>5, <3>1, <3>2, <3>4, ChangeAtOne
      <4>2. States' = States
        BY <4>1 DEF States
      <4> QED
        BY <2>2, <2>3, <3>4, <4>1, <4>2 DEF Lifecycle!Relent, States, Wanteds, Graces
    <3> QED
      BY <3>3, <3>4
  <2> QED
    BY <1>9, <2>4, <2>5 DEF Respawn
<1>10. ASSUME LoopStarts \/ Receive \/ LoopCloses \/ LoopEnds \/ UNCHANGED vars
       PROVE  UNCHANGED Lifecycle!vars
  BY <1>10, <1>a DEF LoopStarts, Receive, LoopCloses, LoopEnds, vars
<1> QED
  BY <1>1, <1>2, <1>3, <1>4, <1>5, <1>6, <1>7, <1>8, <1>9, <1>10
  DEF Next, Lifecycle!Next

-----------------------------------------------------------------------------
(* The results *)

\* The type invariant: in particular the channel never holds more events than
\* its capacity, for all the monitors that share it.
THEOREM TypeCorrect == Spec => []TypeOK
<1>1. IInv => TypeOK
  BY DEF IInv
<1> QED
  BY <1>1, Invariance, PTL

\* monitor_process never has two children, nor one it does not watch.
THEOREM NeverTwoChildren == Spec => []OneChild
<1>1. IInv => OneChild
  BY DEF IInv
<1> QED
  BY <1>1, Invariance, PTL

\* Whatever the capacity and however many monitors compete for the channel, no
\* event is lost while the loop listens.
THEOREM NothingLost == Spec => []LogTellsTruth
<1>1. IInv => LogTellsTruth
  <2> SUFFICES ASSUME IInv, NEW p \in Proc, loop # "stopped", monitor[p] = "wait",
                      NothingQueued(p)
               PROVE  seen[p] = "Started"
    BY DEF LogTellsTruth, NothingQueued
  <2>1. \A e : ~LastQueued(p, e)
    BY DEF NothingQueued, LastQueued
  <2> QED
    BY <2>1 DEF IInv, LastWord
<1> QED
  BY <1>1, Invariance, PTL

\* process.rs implements ProcessLifecycle: a killed or dropped process starts
\* once more at most, and an ended one never again.
THEOREM Refinement == Spec => ImplementsLifecycle
<1>1. Spec => Lifecycle!Init /\ [][Lifecycle!Next]_Lifecycle!vars
  BY InitRefines, StepRefines, Invariance, PTL DEF Spec
<1> QED
  BY <1>1 DEF ImplementsLifecycle, Lifecycle!Spec

\* For any number of processes and any capacity: a killed or dropped process is
\* six steps of its monitor from its end at most, wherever the signal meets it.
THEOREM SixSteps == Spec => WindsDown
<1> DEFINE Down ==
      \A p \in Proc :
          handle[p] = "released" /\ monitor'[p] # monitor[p]
              => StepsLeft[monitor'[p]] < StepsLeft[monitor[p]]
<1>1. ASSUME IInv, Next PROVE Down
  <2> SUFFICES ASSUME NEW p \in Proc, handle[p] = "released", monitor'[p] # monitor[p]
               PROVE  StepsLeft[monitor'[p]] < StepsLeft[monitor[p]]
    OBVIOUS
  <2>1. TypeOK /\ monitor[p] # "idle"
    BY <1>1 DEF IInv, HandleOfMonitor
  <2>2. PICK q \in Proc :
          \/ Send(q) \/ SeeExit(q) \/ SeeShutdown(q) \/ DelayElapses(q)
          \/ StopInDelay(q) \/ Respawn(q) \/ SpawnMonitored(q)
    BY <1>1 DEF Next, Kill, ChildExits, LoopStarts, Receive, LoopCloses, LoopEnds
  <2>3. q = p
    BY <2>1, <2>2 DEF Send, SeeExit, SeeShutdown, DelayElapses, StopInDelay, Respawn,
                      SpawnMonitored, TypeOK
  <2>4. CASE Send(p)
    <3>1. monitor'[p] = AfterSend(p) /\ monitor[p] \in Sending
      BY <2>1, <2>4 DEF Send, TypeOK
    <3>2. <<monitor[p], monitor'[p]>> \in
            {<<"started", "wait">>, <<"exited", "restarting">>, <<"exited", "done">>,
             <<"restarting", "done">>, <<"failed", "done">>}
      BY <3>1, EventFacts DEF AfterSend, AfterExited, AfterRestarting
    <3> QED
      BY <3>2 DEF StepsLeft
  <2>5. CASE ~Send(p)
    <3>1. <<monitor[p], monitor'[p]>> \in
            {<<"wait", "exited">>, <<"wait", "done">>, <<"delay", "spawn">>,
             <<"delay", "done">>, <<"spawn", "started">>, <<"spawn", "failed">>}
      BY <2>1, <2>2, <2>3, <2>5
      DEF SeeExit, SeeShutdown, DelayElapses, StopInDelay, Respawn, SpawnMonitored, TypeOK
    <3> QED
      BY <3>1 DEF StepsLeft
  <2> QED
    BY <2>4, <2>5
<1>2. IInv /\ [Next]_vars => [Down]_vars
  BY <1>1
<1>3. Spec => [][Down]_vars
  BY <1>2, Invariance, PTL DEF Spec
<1> QED
  BY <1>3 DEF WindsDown

=============================================================================
