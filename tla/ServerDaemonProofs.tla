------------------------- MODULE ServerDaemonProofs -------------------------
(***************************************************************************)
(* Theorems about ServerDaemon, for every set of clients, shares and ports *)
(* and every interval and grace period, with the period as the word that   *)
(* the code takes it for.  IInv is the inductive invariant: the type       *)
(* invariant, the two properties of the mount table, and Clock, which ties *)
(* the failure counter to the seconds since the last answer.               *)
(***************************************************************************)
EXTENDS ServerDaemon, TLAPS

\* n sleeps of the poll loop, in seconds.
Slept(n) == n * Interval

\* Each counted failure has been preceded by a whole sleep since the last
\* answer, and so will be the next poll.
Clock ==
    /\ poller = "sleep" => quiet + wait >= Slept(consecutive_failures + 1)
    /\ poller = "request" => quiet >= Slept(consecutive_failures + 1)
    /\ poller = "reconcile" => consecutive_failures = 0
    /\ poller = "expire" => quiet >= GracePeriod

IInv ==
    /\ TypeOK
    /\ OneMountPerPoint
    /\ GraceArmed
    /\ Clock

-----------------------------------------------------------------------------

\* The cast to a u32 leaves a number that is no larger, and the same one if it
\* fits.
LEMMA GracePeriodFacts ==
    /\ GracePeriod \in Nat
    /\ Grace < Words => GracePeriod = Grace
<1>1. Grace \in Nat /\ Words \in Nat \ {0}
  BY ServerAssumption DEF ServerAssumption
<1> QED
  BY <1>1, Z3 DEF GracePeriod

\* What the assumptions on the bounds give: one more failure is one more
\* sleep, and the stop-watch saturates beyond what the counter can ask for.
LEMMA SleptFacts ==
    /\ Slept(0) = 0
    /\ Slept(1) = Interval
    /\ \A n \in Nat : Slept(n) \in Nat /\ Slept(n + 1) = Slept(n) + Interval
    /\ \A n \in 0 .. FailureCap : Slept(n + 1) <= Horizon
    /\ \A n \in 0 .. FailureCap : Slept(n) <= Slept(n + 1)
<1> USE DEF Slept
<1>1. Interval \in Nat /\ FailureCap \in Nat /\ Horizon \in Nat
  BY ServerAssumption DEF ServerAssumption
<1>2. \A n \in Nat : n * Interval \in Nat /\ (n + 1) * Interval = n * Interval + Interval
  BY <1>1, Z3
<1>3. 0 * Interval = 0 /\ 1 * Interval = Interval
  BY <1>1
<1>4. \A m, n \in Nat : m <= n => m * Interval <= n * Interval
  BY <1>1, Z3
<1>5. \A n \in 0 .. FailureCap : (n + 1) * Interval <= (FailureCap + 1) * Interval
  BY <1>1, <1>4
<1>6. (FailureCap + 1) * Interval <= Horizon
  BY ServerAssumption DEF ServerAssumption
<1>7. \A n \in 0 .. FailureCap : (n + 1) * Interval \in Nat /\ (FailureCap + 1) * Interval \in Nat
  BY <1>1, <1>2
<1> HIDE DEF Slept
<1> QED
  BY <1>1, <1>2, <1>3, <1>5, <1>6, <1>7 DEF Slept

\* Counting a failure moves the counter by at most one and stays in range.
LEMMA CountFailureFacts ==
    ASSUME NEW n \in 0 .. FailureCap
    PROVE  /\ CountFailure(n) \in 0 .. FailureCap
           /\ CountFailure(n) = n \/ CountFailure(n) = n + 1
  BY ServerAssumption DEF ServerAssumption, CountFailure

\* A stop-watch stays in range, and never runs backwards.
LEMMA LaterFacts ==
    ASSUME NEW t \in 0 .. Horizon
    PROVE  /\ Later(t) \in 0 .. Horizon
           /\ Later(t) = t + 1 \/ (Later(t) = t /\ t = Horizon)
  BY ServerAssumption DEF ServerAssumption, Later

\* What reconcile_mounts leaves mounted was mounted before, or is a name of
\* the manifest that was not mounted for anyone.
LEMMA ReconciledFacts ==
    ASSUME TypeOK, NEW m \in Manifest, NEW broken \in SUBSET Flaky,
           NEW k \in MountKey
    PROVE  /\ ReconciledMounts(m, broken)[k] \in Port \cup {None}
           /\ ReconciledMounts(m, broken)[k] # None =>
                \/ k \in Mounted
                \/ k[1] = m.client /\ k[2] \notin CurrentNames
           /\ k \in Mounted /\ ReconciledMounts(m, broken)[k] # mounts[k] =>
                /\ ReconciledMounts(m, broken)[k] = None
                /\ k[1] = m.client
                /\ k[2] \notin ManifestNames(m)
<1>1. m.shares \in [Share -> Port \cup {None}]
  BY DEF Manifest
<1>2. k[1] \in Client /\ k[2] \in Share
  BY DEF MountKey
<1>3. m.shares[k[2]] \in Port \cup {None}
  BY <1>1, <1>2
<1>4. mounts[k] \in Port \cup {None}
  BY DEF TypeOK
<1>5. k \in Mounted => k[2] \in CurrentNames
  BY DEF CurrentNames
<1>6. k \in Mounted <=> mounts[k] # None
  BY DEF Mounted
<1> QED
  BY <1>2, <1>3, <1>4, <1>5, <1>6 DEF ReconciledMounts

-----------------------------------------------------------------------------

LEMMA InitIInv == Init => IInv
<1> SUFFICES ASSUME Init PROVE IInv
  OBVIOUS
<1>1. TypeOK
  BY ServerAssumption DEF ServerAssumption, Init, TypeOK, NoMounts
<1>2. Mounted = {}
  BY DEF Init, NoMounts, Mounted
<1>3. Clock
  BY ServerAssumption, SleptFacts DEF ServerAssumption, Init, Clock
<1> QED
  BY <1>1, <1>2, <1>3 DEF IInv, OneMountPerPoint, GraceArmed

\* Steps that leave the mount table and the last manifest alone leave its two
\* properties alone.
LEMMA SameTable ==
    ASSUME OneMountPerPoint, GraceArmed, UNCHANGED mounts,
           last_manifest # None => last_manifest' # None
    PROVE  OneMountPerPoint' /\ GraceArmed'
  BY DEF OneMountPerPoint, GraceArmed, Mounted

\* Steps that only unmount leave them alone too.
LEMMA SmallerTable ==
    ASSUME OneMountPerPoint, GraceArmed, Mounted' \subseteq Mounted,
           UNCHANGED last_manifest
    PROVE  OneMountPerPoint' /\ GraceArmed'
  BY DEF OneMountPerPoint, GraceArmed

LEMMA NoTable ==
    ASSUME mounts' = NoMounts
    PROVE  Mounted' = {} /\ mounts' \in [MountKey -> Port \cup {None}]
  BY DEF Mounted, NoMounts

-----------------------------------------------------------------------------

\* The invariant is inductive.  One step per action; the steps of the
\* environment and of the shutdown leave the poll loop where it is.
LEMMA StepIInv == IInv /\ [Next]_vars => IInv'
<1> SUFFICES ASSUME IInv, [Next]_vars PROVE IInv'
  OBVIOUS
<1> USE DEF IInv
<1>a. /\ Interval \in Nat \ {0} /\ Timeout \in Nat /\ GracePeriod \in Nat
      /\ FailureCap \in Nat /\ Horizon \in Nat /\ None \notin Manifest
  BY ServerAssumption, GracePeriodFacts DEF ServerAssumption
<1>b. consecutive_failures \in Nat /\ quiet \in Nat /\ wait \in Nat
  BY <1>a DEF TypeOK
<1>1. ASSUME NEW l \in LinkStates, LinkChanges(l) PROVE IInv'
  <2>1. TypeOK'
    BY <1>1, <1>a DEF LinkChanges, TypeOK, polling
  <2>2. OneMountPerPoint' /\ GraceArmed'
    BY <1>1, SameTable DEF LinkChanges, polling
  <2>3. Clock'
    BY <1>1 DEF LinkChanges, Clock, polling
  <2> QED
    BY <2>1, <2>2, <2>3
<1>2. ASSUME NEW m \in Manifest, ClientChanges(m) PROVE IInv'
  <2>1. TypeOK'
    BY <1>2 DEF ClientChanges, TypeOK, polling
  <2>2. OneMountPerPoint' /\ GraceArmed'
    BY <1>2, SameTable DEF ClientChanges, polling
  <2>3. Clock'
    BY <1>2 DEF ClientChanges, Clock, polling
  <2> QED
    BY <2>1, <2>2, <2>3
<1>3. CASE Tick
  <2>1. TypeOK'
    <3>1. quiet' \in 0 .. Horizon
      BY <1>3, <1>a, LaterFacts DEF Tick, TypeOK
    <3>2. wait' \in Nat
      BY <1>3, <1>b DEF Tick
    <3> QED
      BY <1>3, <3>1, <3>2 DEF Tick, TypeOK, env
  <2>2. OneMountPerPoint' /\ GraceArmed'
    BY <1>3, SameTable DEF Tick
  <2>3. Clock'
    <3>1. quiet' = quiet + 1 \/ (quiet' = quiet /\ quiet = Horizon)
      BY <1>3, LaterFacts DEF Tick, TypeOK
    <3>2. /\ Slept(consecutive_failures + 1) \in Nat
          /\ Slept(consecutive_failures + 1) <= Horizon
      BY <1>b, SleptFacts DEF TypeOK
    <3>3. wait' = wait \/ wait' = wait - 1
      BY <1>3, <1>b DEF Tick
    <3>4. wait' \in Nat
      BY <1>3, <1>b DEF Tick
    <3> QED
      BY <1>3, <1>a, <1>b, <3>1, <3>2, <3>3, <3>4 DEF Tick, Clock
  <2> QED
    BY <2>1, <2>2, <2>3
<1>4. CASE PollStart
  <2>1. TypeOK'
    BY <1>4, <1>a DEF PollStart, TypeOK, env
  <2>2. OneMountPerPoint' /\ GraceArmed'
    BY <1>4, SameTable DEF PollStart
  <2>3. Clock'
    BY <1>4, <1>a, <1>b DEF PollStart, Clock
  <2> QED
    BY <2>1, <2>2, <2>3
<1>5. CASE PollManifest
  <2>1. TypeOK'
    BY <1>5, <1>a DEF PollManifest, TypeOK, env, GoToSleep, FailuresAfterAnswer
  <2>2. last_manifest # None => last_manifest' # None
    BY <1>5, <1>a DEF PollManifest, TypeOK
  <2>3. OneMountPerPoint' /\ GraceArmed'
    BY <1>5, <2>2, SameTable DEF PollManifest
  <2>4. Clock'
    BY <1>5, <1>a, SleptFacts DEF PollManifest, Clock, GoToSleep, FailuresAfterAnswer
  <2> QED
    BY <2>1, <2>3, <2>4
<1>6. CASE PollGarbled
  <2>1. TypeOK'
    BY <1>6, <1>a DEF PollGarbled, TypeOK, env, GoToSleep, FailuresAfterAnswer
  <2>2. OneMountPerPoint' /\ GraceArmed'
    BY <1>6, SameTable DEF PollGarbled
  <2>3. Clock'
    BY <1>6, <1>a, SleptFacts DEF PollGarbled, Clock, GoToSleep, FailuresAfterAnswer
  <2> QED
    BY <2>1, <2>2, <2>3
<1>7. CASE PollFailed
  <2> DEFINE n == CountFailure(consecutive_failures)
  <2>1. n \in 0 .. FailureCap /\ (n = consecutive_failures \/ n = consecutive_failures + 1)
    BY CountFailureFacts DEF TypeOK
  <2>2. consecutive_failures' = n
    BY <1>7 DEF PollFailed
  <2>3. quiet >= Slept(n)
    <3>1. quiet >= Slept(consecutive_failures + 1)
      BY <1>7 DEF PollFailed, Clock
    <3>2. Slept(consecutive_failures) <= Slept(consecutive_failures + 1)
      BY SleptFacts DEF TypeOK
    <3>3. Slept(consecutive_failures) \in Nat /\ Slept(consecutive_failures + 1) \in Nat
      BY <1>b, SleptFacts
    <3> HIDE DEF n
    <3> QED
      BY <1>b, <2>1, <3>1, <3>2, <3>3
  <2>4. Slept(n) \in Nat /\ Slept(n + 1) = Slept(n) + Interval
    BY <2>1, <1>a, SleptFacts
  <2>5. TypeOK'
    BY <1>7, <1>a, <2>1, <2>2 DEF PollFailed, TypeOK, env, GoToSleep
  <2>6. OneMountPerPoint' /\ GraceArmed'
    BY <1>7, SameTable DEF PollFailed
  <2>7. Clock'
    <3> HIDE DEF n
    <3>1. CASE poller' = "expire"
      <4>1. n * Interval >= GracePeriod
        BY <1>7, <2>2, <3>1 DEF PollFailed, GraceIsOver, GoToSleep
      <4>2. quiet' >= GracePeriod
        BY <1>7, <1>a, <1>b, <2>3, <2>4, <4>1 DEF PollFailed, Slept
      <4> QED
        BY <3>1, <4>2 DEF Clock
    <3>2. CASE poller' = "sleep" /\ wait' = Interval
      <4>1. quiet' + wait' >= Slept(n + 1)
        BY <1>7, <1>a, <1>b, <2>3, <2>4, <3>2 DEF PollFailed
      <4> QED
        BY <2>2, <3>2, <4>1 DEF Clock
    <3> QED
      BY <1>7, <3>1, <3>2 DEF PollFailed, GoToSleep
  <2> QED
    BY <2>5, <2>6, <2>7
<1>8. CASE Reconcile
  <2>1. PICK broken \in SUBSET Flaky : mounts' = ReconciledMounts(reply, broken)
    BY <1>8 DEF Reconcile
  <2>2. reply \in Manifest
    BY <1>8 DEF Reconcile, TypeOK
  <2>3. TypeOK'
    <3>1. \A k \in MountKey : ReconciledMounts(reply, broken)[k] \in Port \cup {None}
      BY <2>2, ReconciledFacts
    <3>2. mounts' \in [MountKey -> Port \cup {None}]
      BY <2>1, <3>1 DEF ReconciledMounts
    <3> QED
      BY <1>8, <1>a, <2>2, <3>2 DEF Reconcile, TypeOK, env, GoToSleep
  <2>4. OneMountPerPoint'
    <3> SUFFICES ASSUME NEW k \in Mounted', NEW l \in Mounted', k[2] = l[2]
                 PROVE  k = l
      BY DEF OneMountPerPoint
    <3>1. k \in MountKey /\ l \in MountKey
      BY DEF Mounted
    <3>2. /\ k \in Mounted \/ (k[1] = reply.client /\ k[2] \notin CurrentNames)
          /\ l \in Mounted \/ (l[1] = reply.client /\ l[2] \notin CurrentNames)
      BY <2>1, <2>2, <3>1, ReconciledFacts DEF Mounted
    <3>3. /\ k \in Mounted => k[2] \in CurrentNames
          /\ l \in Mounted => l[2] \in CurrentNames
      BY DEF CurrentNames
    <3>4. CASE k \in Mounted
      BY <3>2, <3>3, <3>4 DEF OneMountPerPoint
    <3>5. CASE k \notin Mounted
      BY <3>1, <3>2, <3>3, <3>5 DEF MountKey
    <3> QED
      BY <3>4, <3>5
  <2>5. GraceArmed'
    BY <1>8, <1>a, <2>2 DEF Reconcile, GraceArmed
  <2>6. Clock'
    BY <1>8, <1>a, <1>b, SleptFacts DEF Reconcile, Clock, GoToSleep
  <2> QED
    BY <2>3, <2>4, <2>5, <2>6
<1>9. CASE Expire
  <2>1. Mounted' = {} /\ mounts' \in [MountKey -> Port \cup {None}]
    BY <1>9, NoTable DEF Expire
  <2>2. TypeOK'
    BY <1>9, <1>a, <2>1 DEF Expire, TypeOK, env, GoToSleep
  <2>3. Clock'
    BY <1>9, <1>a, <1>b, SleptFacts DEF Expire, Clock, GoToSleep
  <2> QED
    BY <2>1, <2>2, <2>3 DEF OneMountPerPoint, GraceArmed
<1>10. CASE Signal
  <2>1. TypeOK'
    BY <1>10 DEF Signal, TypeOK, env, polling
  <2>2. OneMountPerPoint' /\ GraceArmed'
    BY <1>10, SameTable DEF Signal, polling
  <2>3. Clock'
    BY <1>10 DEF Signal, Clock, polling
  <2> QED
    BY <2>1, <2>2, <2>3
<1>11. CASE Shutdown
  <2>1. Mounted' = {} /\ mounts' \in [MountKey -> Port \cup {None}]
    BY <1>11, NoTable DEF Shutdown
  <2>2. TypeOK'
    BY <1>11, <2>1 DEF Shutdown, TypeOK, env, polling
  <2>3. Clock'
    BY <1>11 DEF Shutdown, Clock, polling
  <2> QED
    BY <2>1, <2>2, <2>3 DEF OneMountPerPoint, GraceArmed
<1>12. CASE Exit
  <2>1. /\ mounts' \in [MountKey -> Port \cup {None}]
        /\ Mounted' \subseteq Mounted
    BY <1>12 DEF Exit, TypeOK, Mounted
  <2>2. TypeOK'
    BY <1>12, <2>1 DEF Exit, TypeOK, env, polling
  <2>3. OneMountPerPoint' /\ GraceArmed'
    BY <1>12, <2>1, SmallerTable DEF Exit, polling
  <2>4. Clock'
    BY <1>12 DEF Exit, Clock, polling
  <2> QED
    BY <2>2, <2>3, <2>4
<1>13. CASE UNCHANGED vars
  <2>1. TypeOK'
    BY <1>13 DEF vars, env, polling, TypeOK
  <2>2. OneMountPerPoint' /\ GraceArmed'
    BY <1>13, SameTable DEF vars, polling
  <2>3. Clock'
    BY <1>13 DEF vars, polling, Clock
  <2> QED
    BY <2>1, <2>2, <2>3
<1> QED
  BY <1>1, <1>2, <1>3, <1>4, <1>5, <1>6, <1>7, <1>8, <1>9, <1>10, <1>11, <1>12, <1>13
  DEF Next

THEOREM Invariance == Spec => []IInv
<1> QED
  BY InitIInv, StepIInv, PTL DEF Spec

-----------------------------------------------------------------------------
(* The results *)

\* The type invariant, and with it that a manifest is being applied exactly
\* while the poll loop is inside reconcile_mounts.
THEOREM TypeCorrect == Spec => []TypeOK
<1>1. IInv => TypeOK
  BY DEF IInv
<1> QED
  BY <1>1, Invariance, PTL

\* However many clients take turns on the control port, and whichever mounts
\* fail, reconcile_mounts never has two rclone processes on one mount point.
THEOREM OneMount == Spec => []OneMountPerPoint
<1>1. IInv => OneMountPerPoint
  BY DEF IInv
<1> QED
  BY <1>1, Invariance, PTL

\* poll_client_manifest never forgets the manifest while something is mounted,
\* so every mount stays within reach of the grace period.
THEOREM Armed == Spec => []GraceArmed
<1>1. IInv => GraceArmed
  BY DEF IInv
<1> QED
  BY <1>1, Invariance, PTL

\* The failure count of poll_client_manifest stands for at least as many seconds
\* without an answer as the u32 that server.rs:185 makes of the grace period,
\* for every interval, HTTP timeout and period; GraceKept says what that means
\* for the period that was configured.
THEOREM GraceRespected == Spec => []ExpireOnlyAfterGrace
<1>1. IInv => ExpireOnlyAfterGrace
  BY DEF IInv, Clock, ExpireOnlyAfterGrace
<1> QED
  BY <1>1, Invariance, PTL

\* A period that fits into a u32 is kept: below 2^32 s nothing is unmounted
\* before the configured time has passed in silence.  Of a longer one the cast
\* drops a multiple of 2^32, and 2^32 itself is no time at all.
THEOREM GraceKept ==
    ASSUME Grace < Words
    PROVE  Spec => [](poller = "expire" => quiet >= Grace)
<1>1. IInv => (poller = "expire" => quiet >= Grace)
  BY GracePeriodFacts DEF IInv, Clock
<1> QED
  BY <1>1, Invariance, PTL

\* A running daemon unmounts a share only because it left its client's
\* manifest or because the grace period (as a u32) went by without an answer; no
\* action of poll_client_manifest moves a mount to another port.
THEOREM OnlyForCause == Spec => UnmountedForCause
<1> DEFINE Cause(k) ==
      /\ mounts'[k] = None
      /\ \/ poller = "expire" /\ quiet >= GracePeriod
         \/ /\ poller = "reconcile"
            /\ k[1] = reply.client
            /\ k[2] \notin ManifestNames(reply)
<1> DEFINE Caused ==
      \A k \in Mounted : daemon = "running" /\ mounts'[k] # mounts[k] => Cause(k)
<1>1. IInv /\ [Next]_vars => [Caused]_vars
  <2> SUFFICES ASSUME IInv, Next,
                      NEW k \in Mounted, daemon = "running", mounts'[k] # mounts[k]
               PROVE  Cause(k)
    OBVIOUS
  <2>1. k \in MountKey
    BY DEF Mounted
  <2>2. CASE Reconcile
    <3>1. reply \in Manifest
      BY <2>2 DEF IInv, Reconcile, TypeOK
    <3>2. PICK broken \in SUBSET Flaky : mounts' = ReconciledMounts(reply, broken)
      BY <2>2 DEF Reconcile
    <3>3. poller = "reconcile"
      BY <2>2 DEF Reconcile
    <3> QED
      BY <2>1, <3>1, <3>2, <3>3, ReconciledFacts DEF IInv
  <2>3. CASE Expire
    BY <2>1, <2>3 DEF IInv, Clock, Expire, NoMounts
  <2>4. Reconcile \/ Expire
    BY DEF Next, LinkChanges, ClientChanges, Tick, PollStart, PollManifest,
           PollGarbled, PollFailed, Signal, Shutdown, Exit, polling
  <2> QED
    BY <2>2, <2>3, <2>4
<1>2. Spec => [][Caused]_vars
  BY <1>1, Invariance, PTL DEF Spec
<1> QED
  BY <1>2 DEF UnmountedForCause

-----------------------------------------------------------------------------
(* The mount table and the last manifest                                   *)

\* The steps that touch neither the mount table nor the shares of the last
\* manifest: all but those in which the MountManager's lock is held.
LEMMA TableAlone ==
    ASSUME TypeOK, [Next]_vars, ~Reconcile, ~Expire, ~Shutdown, ~Exit
    PROVE  /\ UNCHANGED mounts
           /\ daemon' = "running" => daemon = "running"
           /\ last_manifest' # None =>
                /\ last_manifest # None
                /\ ManifestNames(last_manifest') = ManifestNames(last_manifest)
<1>1. CASE PollManifest
  <2>1. CASE UNCHANGED last_manifest
    BY <1>1, <2>1 DEF PollManifest
  <2>2. CASE ~Changed(offered) /\ last_manifest' = offered
    BY <1>1, <2>2 DEF PollManifest, Changed, ManifestNames
  <2> QED
    BY <1>1, <2>1, <2>2 DEF PollManifest
<1>2. CASE ~PollManifest
  BY <1>2 DEF Next, LinkChanges, ClientChanges, Tick, PollStart, PollGarbled,
              PollFailed, Signal, polling, vars
<1> QED
  BY <1>1, <1>2

\* What reconcile_mounts leaves behind: every name of the manifest that could
\* be mounted, and of its client nothing else.
LEMMA ReconciledNames ==
    ASSUME TypeOK, Reconcile
    PROVE  /\ last_manifest' = reply /\ reply \in Manifest
           /\ ManifestNames(reply) \ Flaky \subseteq CurrentNames'
           /\ \A k \in Mounted' : k[1] = reply.client => k[2] \in ManifestNames(reply)
<1>1. reply \in Manifest /\ last_manifest' = reply
  BY DEF Reconcile, TypeOK
<1>2. PICK broken \in SUBSET Flaky : mounts' = ReconciledMounts(reply, broken)
  BY DEF Reconcile
<1>3. reply.client \in Client
  BY <1>1 DEF Manifest
<1>4. ASSUME NEW s \in ManifestNames(reply) \ Flaky PROVE s \in CurrentNames'
  <2>1. CASE s \in CurrentNames
    <3>1. PICK k \in Mounted : k[2] = s
      BY <2>1 DEF CurrentNames
    <3>2. k \in MountKey /\ mounts'[k] = mounts[k] /\ mounts[k] # None
      BY <1>2, <1>4, <3>1 DEF Mounted, ReconciledMounts, CurrentNames
    <3> QED
      BY <3>1, <3>2 DEF CurrentNames, Mounted
  <2>2. CASE s \notin CurrentNames
    <3> DEFINE k == <<reply.client, s>>
    <3>1. k \in MountKey
      BY <1>3 DEF MountKey, ManifestNames
    <3>2. mounts'[k] = reply.shares[s]
      BY <1>2, <1>4, <2>2, <3>1 DEF ReconciledMounts
    <3> QED
      BY <1>4, <3>1, <3>2 DEF CurrentNames, Mounted, ManifestNames
  <2> QED
    BY <2>1, <2>2
<1>5. ASSUME NEW k \in Mounted', k[1] = reply.client
      PROVE  k[2] \in ManifestNames(reply)
  <2>1. k \in MountKey /\ mounts'[k] # None
    BY DEF Mounted
  <2>2. CASE k \in Mounted
    BY <1>2, <1>5, <2>1, <2>2 DEF ReconciledMounts, CurrentNames
  <2>3. CASE k \notin Mounted
    BY <1>2, <2>1, <2>3 DEF ReconciledMounts, Mounted
  <2> QED
    BY <2>2, <2>3
<1> QED
  BY <1>1, <1>4, <1>5

\* Whatever the clients change, and in whichever order polls and their answers
\* come: a share on the last manifest whose mounting does not fail is mounted.
THEOREM NoneForgotten == Spec => []NothingForgotten
<1>1. Init => NothingForgotten
  BY DEF Init, NothingForgotten
<1>2. ASSUME IInv, NothingForgotten, [Next]_vars PROVE NothingForgotten'
  <2>1. CASE Reconcile
    BY <1>2, <2>1, ReconciledNames DEF IInv, NothingForgotten
  <2>2. CASE Expire
    BY <2>2 DEF Expire, NothingForgotten
  <2>3. CASE Shutdown \/ Exit
    BY <2>3 DEF Shutdown, Exit, NothingForgotten
  <2>4. CASE ~Reconcile /\ ~Expire /\ ~Shutdown /\ ~Exit
    <3>1. CurrentNames' = CurrentNames
      BY <1>2, <2>4, TableAlone DEF IInv, CurrentNames, Mounted
    <3> QED
      BY <1>2, <2>4, <3>1, TableAlone DEF IInv, NothingForgotten
  <2> QED
    BY <2>1, <2>2, <2>3, <2>4
<1> QED
  BY <1>1, <1>2, Invariance, PTL DEF Spec

\* With one client, nothing is mounted that is not on the last manifest.
THEOREM NoneStale ==
    ASSUME \A c, d \in Client : c = d
    PROVE  Spec => []NoStaleMounts
<1>1. Init => NoStaleMounts
  BY DEF Init, NoStaleMounts
<1>2. ASSUME IInv, NoStaleMounts, [Next]_vars PROVE NoStaleMounts'
  <2>1. CASE Reconcile
    <3>1. reply.client \in Client
      BY <1>2, <2>1, ReconciledNames DEF IInv, Manifest
    <3>2. \A k \in Mounted' : k[1] = reply.client
      BY <3>1 DEF Mounted, MountKey
    <3> QED
      BY <1>2, <2>1, <3>2, ReconciledNames DEF IInv, NoStaleMounts, CurrentNames
  <2>2. CASE Expire
    BY <2>2 DEF Expire, NoStaleMounts
  <2>3. CASE Shutdown \/ Exit
    <3>1. Mounted' \subseteq Mounted /\ UNCHANGED last_manifest
      BY <2>3 DEF Shutdown, Exit, NoMounts, Mounted, polling
    <3> QED
      BY <1>2, <3>1 DEF NoStaleMounts, CurrentNames
  <2>4. CASE ~Reconcile /\ ~Expire /\ ~Shutdown /\ ~Exit
    <3>1. CurrentNames' = CurrentNames
      BY <1>2, <2>4, TableAlone DEF IInv, CurrentNames, Mounted
    <3> QED
      BY <1>2, <2>4, <3>1, TableAlone DEF IInv, NoStaleMounts
  <2> QED
    BY <2>1, <2>2, <2>3, <2>4
<1> QED
  BY <1>1, <1>2, Invariance, PTL DEF Spec

-----------------------------------------------------------------------------
(* The refinement of MirroredShares *)

\* What Point finds: the one mount there is, or None.
LEMMA PointIs ==
    ASSUME NEW t, NEW s \in Share
    PROVE  /\ \A c \in Client :
                /\ t[<<c, s>>] # None
                /\ \A d \in Client : t[<<d, s>>] # None => d = c
                => Point(t, s) = [client |-> c, port |-> t[<<c, s>>]]
           /\ (\A c \in Client : t[<<c, s>>] = None) => Point(t, s) = None
<1>1. ASSUME NEW c \in Client, t[<<c, s>>] # None,
             \A d \in Client : t[<<d, s>>] # None => d = c
      PROVE  Point(t, s) = [client |-> c, port |-> t[<<c, s>>]]
  <2>1. Holder(t, s) = c
    BY <1>1 DEF Holder
  <2> QED
    BY <1>1, <2>1 DEF Point
<1>2. ASSUME \A c \in Client : t[<<c, s>>] = None
      PROVE  Point(t, s) = None
  BY <1>2 DEF Point
<1> QED
  BY <1>1, <1>2

\* The mount table as the mount points have it: mounted for c, or free.
LEMMA PointFacts ==
    ASSUME NEW t \in [MountKey -> Port \cup {None}], NEW s \in Share,
           \A k, l \in MountKey : t[k] # None /\ t[l] # None /\ k[2] = l[2] => k = l
    PROVE  /\ \A c \in Client : t[<<c, s>>] # None =>
                Point(t, s) = [client |-> c, port |-> t[<<c, s>>]]
           /\ (\A c \in Client : t[<<c, s>>] = None) => Point(t, s) = None
           /\ Point(t, s) # None => \E c \in Client : t[<<c, s>>] # None
<1>1. ASSUME NEW c \in Client, NEW d \in Client, t[<<c, s>>] # None, t[<<d, s>>] # None
      PROVE  d = c
  <2>1. <<c, s>> \in MountKey /\ <<d, s>> \in MountKey
    BY DEF MountKey
  <2> QED
    BY <1>1, <2>1
<1> QED
  BY <1>1, PointIs

\* OneMountPerPoint, of any table.
LEMMA OnePerPoint ==
    ASSUME OneMountPerPoint
    PROVE  \A k, l \in MountKey :
              mounts[k] # None /\ mounts[l] # None /\ k[2] = l[2] => k = l
  BY DEF OneMountPerPoint, Mounted

\* The value of Point tells whether anything is mounted there.
LEMMA PointOrNone ==
    ASSUME NEW c \in Client, NEW p \in Port
    PROVE  [client |-> c, port |-> p] # None
  BY ServerAssumption DEF ServerAssumption

\* Steps that are none of the mount points' business.
LEMMA SamePoints ==
    ASSUME UNCHANGED <<mounts, offered, reply, daemon>>
    PROVE  /\ UNCHANGED <<offered, reply, [s \in Share |-> Point(mounts, s)], Stage>>
           /\ UNCHANGED quiet => UNCHANGED Mirror!vars
  BY DEF Mirror!vars, Stage

\* What Stage tells of the daemon.
LEMMA StageIs ==
    ASSUME TypeOK
    PROVE  /\ daemon # "exited" <=> Stage # "ended"
           /\ daemon = "running" <=> Stage = "up"
           /\ daemon = "stopping" <=> Stage = "closing"
           /\ daemon = "stopped" <=> Stage = "closed"
           /\ daemon = "exited" <=> Stage = "ended"
  BY DEF TypeOK, Stage

\* Time passing is silence, once it has lasted.
LEMMA TickMirrors ==
    ASSUME TypeOK, Tick
    PROVE  [Mirror!Next]_(Mirror!vars)
<1>1. UNCHANGED <<offered, reply, [s \in Share |-> Point(mounts, s)], Stage>>
  BY SamePoints DEF Tick, env
<1>2. CASE (quiet >= GracePeriod)' 
  <2>1. Mirror!Silence
    BY <1>1, <1>2 DEF Mirror!Silence
  <2> QED
    BY <2>1 DEF Mirror!Next
<1>3. CASE ~(quiet >= GracePeriod)'
  <2>1. quiet' >= quiet
    BY LaterFacts, ServerAssumption DEF Tick, TypeOK, ServerAssumption
  <2>2. ~(quiet >= GracePeriod)
    BY <1>3, <2>1, ServerAssumption, GracePeriodFacts, LaterFacts
       DEF ServerAssumption, TypeOK, Tick
  <2> QED
    BY <1>1, <1>3, <2>2 DEF Mirror!vars
<1> QED
  BY <1>2, <1>3

\* An answer ends the silence, unless the grace period is no time at all.
LEMMA AnswerBreaksSilence ==
    ASSUME TypeOK, quiet' = 0
    PROVE  UNCHANGED (quiet >= GracePeriod) \/ (quiet >= GracePeriod)' = FALSE
<1>1. quiet \in Nat /\ GracePeriod \in Nat
  BY ServerAssumption, GracePeriodFacts DEF ServerAssumption, TypeOK
<1>2. CASE GracePeriod = 0
  <2>1. (quiet >= GracePeriod) = TRUE
    BY <1>1, <1>2
  <2>2. (quiet >= GracePeriod)' = TRUE
    BY <1>1, <1>2, ServerAssumption DEF ServerAssumption
  <2> QED
    BY <2>1, <2>2
<1>3. CASE GracePeriod # 0
  <2>1. ~(quiet >= GracePeriod)'
    BY <1>1, <1>3, ServerAssumption DEF ServerAssumption
  <2> QED
    BY <2>1
<1> QED
  BY <1>2, <1>3

LEMMA AnswerMirrors ==
    ASSUME TypeOK, PollManifest \/ PollGarbled
    PROVE  [Mirror!Next]_(Mirror!vars)
<1>1. UNCHANGED (quiet >= GracePeriod) \/ (quiet >= GracePeriod)' = FALSE
  BY AnswerBreaksSilence DEF PollManifest, PollGarbled
<1>2. UNCHANGED <<offered, [s \in Share |-> Point(mounts, s)], Stage>>
  BY DEF PollManifest, PollGarbled, env, Stage
<1>3. Stage # "ended"
  BY StageIs DEF PollManifest, PollGarbled
<1>4. CASE UNCHANGED reply
  <2>1. CASE (quiet >= GracePeriod)' = FALSE
    <3>1. Mirror!Hear
      BY <1>2, <1>3, <1>4, <2>1 DEF Mirror!Hear
    <3> QED
      BY <3>1 DEF Mirror!Next
  <2>2. CASE UNCHANGED (quiet >= GracePeriod)
    BY <1>2, <1>4, <2>2 DEF Mirror!vars
  <2> QED
    BY <1>1, <2>1, <2>2
<1>5. CASE reply' # reply
  <2>1. reply' = offered
    BY <1>5 DEF PollManifest, PollGarbled
  <2>2. reply = None
    BY DEF TypeOK, PollManifest, PollGarbled
  <2>3. Mirror!Take
    BY <1>1, <1>2, <1>3, <2>1, <2>2 DEF Mirror!Take
  <2> QED
    BY <2>3 DEF Mirror!Next
<1> QED
  BY <1>4, <1>5

\* What reconcile_mounts makes of one mount point.
LEMMA ReconciledPoint ==
    ASSUME TypeOK, OneMountPerPoint, OneMountPerPoint', NEW broken \in SUBSET Flaky,
           reply \in Manifest, mounts' \in [MountKey -> Port \cup {None}],
           mounts' = ReconciledMounts(reply, broken), NEW s \in Share
    PROVE  Point(mounts', s) = Mirror!Applied(reply, broken, s)
<1> DEFINE r == reply.client
<1>1. reply.shares[s] \in Port \cup {None} /\ r \in Client
  BY DEF Manifest
<1>2. \A c \in Client : <<c, s>> \in MountKey /\ <<c, s>>[1] = c /\ <<c, s>>[2] = s
  BY DEF MountKey
<1>3. s \in ManifestNames(reply) <=> reply.shares[s] # None
  BY DEF ManifestNames
<1>4. /\ \A c \in Client : mounts[<<c, s>>] # None =>
            Point(mounts, s) = [client |-> c, port |-> mounts[<<c, s>>]]
      /\ (\A c \in Client : mounts[<<c, s>>] = None) => Point(mounts, s) = None
  BY PointFacts, OnePerPoint DEF TypeOK
<1>5. \A k, l \in MountKey : mounts'[k] # None /\ mounts'[l] # None /\ k[2] = l[2] => k = l
  BY DEF OneMountPerPoint, Mounted
<1>6. /\ \A c \in Client : mounts'[<<c, s>>] # None =>
            Point(mounts', s) = [client |-> c, port |-> mounts'[<<c, s>>]]
      /\ (\A c \in Client : mounts'[<<c, s>>] = None) => Point(mounts', s) = None
  BY <1>5, PointFacts
<1>7. \A c \in Client : mounts'[<<c, s>>] =
        CASE c = r /\ s \in CurrentNames \ ManifestNames(reply) -> None
          [] c = r /\ s \in ManifestNames(reply) \ (CurrentNames \cup broken) -> reply.shares[s]
          [] OTHER -> mounts[<<c, s>>]
  BY <1>2 DEF ReconciledMounts
<1>8. [s1 \in Share |-> Point(mounts, s1)][s] = Point(mounts, s)
  OBVIOUS
<1>9. CASE s \in CurrentNames
  <2>1. PICK k \in Mounted : k[2] = s
    BY <1>9 DEF CurrentNames
  <2>2. PICK c \in Client : k = <<c, s>>
    BY <2>1 DEF Mounted, MountKey
  <2>3. mounts[<<c, s>>] \in Port /\ mounts[<<c, s>>] # None
    BY <2>1, <2>2 DEF Mounted, TypeOK
  <2>4. \A d \in Client : d # c => mounts[<<d, s>>] = None
    BY <1>2, <2>3, OnePerPoint
  <2>5. /\ Point(mounts, s) = [client |-> c, port |-> mounts[<<c, s>>]]
        /\ Point(mounts, s) # None
        /\ Point(mounts, s).client = c
    BY <1>4, <2>3, PointOrNone
  <2>6. CASE c = r /\ reply.shares[s] = None
    <3>1. \A d \in Client : mounts'[<<d, s>>] = None
      BY <1>3, <1>7, <1>9, <2>4, <2>6
    <3> QED
      BY <1>6, <1>8, <2>5, <2>6, <3>1 DEF Mirror!Applied
  <2>7. CASE ~(c = r /\ reply.shares[s] = None)
    <3>1. mounts'[<<c, s>>] = mounts[<<c, s>>]
      BY <1>3, <1>7, <1>9, <2>7
    <3>2. Point(mounts', s) = Point(mounts, s)
      BY <1>6, <2>3, <2>5, <3>1
    <3> QED
      BY <1>8, <2>5, <2>7, <3>2 DEF Mirror!Applied
  <2> QED
    BY <2>6, <2>7
<1>10. CASE s \notin CurrentNames
  <2>1. \A c \in Client : mounts[<<c, s>>] = None
    BY <1>2, <1>10 DEF CurrentNames, Mounted
  <2>2. Point(mounts, s) = None
    BY <1>4, <2>1
  <2>3. CASE s \in ManifestNames(reply) \ broken
    <3>1. mounts'[<<r, s>>] = reply.shares[s] /\ reply.shares[s] # None
      BY <1>1, <1>3, <1>7, <1>10, <2>3
    <3>2. Point(mounts', s) = [client |-> r, port |-> reply.shares[s]]
      BY <1>1, <1>6, <3>1
    <3> QED
      BY <1>8, <2>2, <2>3, <3>1, <3>2 DEF Mirror!Applied
  <2>4. CASE s \notin ManifestNames(reply) \ broken
    <3>1. \A c \in Client : mounts'[<<c, s>>] = None
      BY <1>7, <1>10, <2>1, <2>4
    <3>2. Point(mounts', s) = None
      BY <1>6, <3>1
    <3> QED
      BY <1>3, <1>8, <2>2, <2>4, <3>2 DEF Mirror!Applied
  <2> QED
    BY <2>3, <2>4
<1> QED
  BY <1>9, <1>10

LEMMA ReconcileMirrors ==
    ASSUME IInv, IInv', Reconcile
    PROVE  Mirror!Apply
<1>1. reply \in Manifest /\ reply # None /\ reply' = None
  BY ServerAssumption DEF ServerAssumption, IInv, TypeOK, Reconcile
<1>2. PICK broken \in SUBSET Flaky : mounts' = ReconciledMounts(reply, broken)
  BY DEF Reconcile
<1>3. \A s \in Share : Point(mounts', s) = Mirror!Applied(reply, broken, s)
  BY <1>1, <1>2, ReconciledPoint DEF IInv, TypeOK
<1>4. [s \in Share |-> Point(mounts, s)]' = [s \in Share |-> Mirror!Applied(reply, broken, s)]
  BY <1>3
<1>5. UNCHANGED <<offered, quiet >= GracePeriod, Stage>>
  BY DEF Reconcile, env, Stage
<1>6. Stage # "ended"
  BY StageIs DEF IInv, Reconcile
<1> QED
  BY <1>1, <1>4, <1>5, <1>6 DEF Mirror!Apply

\* An empty table shows nothing on any mount point.
LEMMA NoPoints ==
    ASSUME mounts' = NoMounts
    PROVE  [s \in Share |-> Point(mounts, s)]' = Mirror!Empty
<1>1. ASSUME NEW s \in Share PROVE Point(mounts', s) = None
  BY PointIs DEF NoMounts, MountKey
<1> QED
  BY <1>1 DEF Mirror!Empty

LEMMA ExpireMirrors ==
    ASSUME IInv, Expire
    PROVE  Mirror!GiveUp
<1>1. UNCHANGED <<offered, reply, quiet >= GracePeriod, Stage>>
  BY DEF Expire, env, Stage
<1>2. Stage # "ended"
  BY StageIs DEF IInv, Expire
<1>3. quiet >= GracePeriod
  BY DEF IInv, Clock, Expire
<1>4. [s \in Share |-> Point(mounts, s)]' = Mirror!Empty
  BY NoPoints DEF Expire
<1> QED
  BY <1>1, <1>2, <1>3, <1>4 DEF Mirror!GiveUp

LEMMA ShutdownMirrors ==
    ASSUME IInv, Shutdown
    PROVE  Mirror!Clear
<1>1. UNCHANGED <<offered, reply, quiet >= GracePeriod>>
  BY DEF Shutdown, env, polling
<1>2. Stage = "closing" /\ Stage' = "closed"
  BY DEF Shutdown, Stage
<1>3. [s \in Share |-> Point(mounts, s)]' = Mirror!Empty
  BY NoPoints DEF Shutdown
<1> QED
  BY <1>1, <1>2, <1>3 DEF Mirror!Clear

\* What is left of the table when the process ends is left on its mount point.
LEMMA ExitMirrors ==
    ASSUME IInv, IInv', Exit
    PROVE  Mirror!End
<1> DEFINE Points == [s \in Share |-> Point(mounts, s)]
<1>1. UNCHANGED <<offered, reply, quiet >= GracePeriod>>
  BY DEF Exit, env, polling
<1>2. Stage' = "ended" /\ Stage \in {"closing", "closed"}
  BY DEF Exit, Stage
<1>3. CASE daemon = "stopped"
  <2>1. Points' = [s \in Share |-> IF s \in Share THEN Points[s] ELSE None]
    BY <1>3 DEF Exit
  <2> QED
    BY <1>1, <1>2, <2>1 DEF Mirror!End
<1>4. CASE daemon = "stopping"
  <2> DEFINE left == {s \in Share : \E c \in Client : mounts'[<<c, s>>] # None}
  <2>1. PICK stay \in SUBSET Mounted :
          mounts' = [k \in MountKey |-> IF k \in stay THEN mounts[k] ELSE None]
    BY <1>4 DEF Exit
  <2>2. ASSUME NEW s \in Share
        PROVE  Point(mounts', s) = IF s \in left THEN Point(mounts, s) ELSE None
    <3>1. \A k, l \in MountKey : mounts'[k] # None /\ mounts'[l] # None /\ k[2] = l[2] => k = l
      BY DEF IInv, OneMountPerPoint, Mounted
    <3>2. CASE s \in left
      <4>1. PICK c \in Client : mounts'[<<c, s>>] # None
        BY <3>2
      <4>2. mounts'[<<c, s>>] = mounts[<<c, s>>]
        BY <2>1, <4>1 DEF MountKey
      <4>3. Point(mounts', s) = [client |-> c, port |-> mounts'[<<c, s>>]]
        BY <3>1, <4>1, PointFacts DEF IInv, TypeOK
      <4>4. Point(mounts, s) = [client |-> c, port |-> mounts[<<c, s>>]]
        BY <4>1, <4>2, PointFacts, OnePerPoint DEF IInv, TypeOK
      <4> QED
        BY <3>2, <4>2, <4>3, <4>4
    <3>3. CASE s \notin left
      <4>1. \A c \in Client : mounts'[<<c, s>>] = None
        BY <3>3
      <4> QED
        BY <3>3, <4>1, PointIs
    <3> QED
      BY <3>2, <3>3
  <2>3. left \in SUBSET Share
    OBVIOUS
  <2>4. Points' = [s \in Share |-> IF s \in left THEN Points[s] ELSE None]
    BY <2>2
  <2>5. Stage # "closed"
    BY <1>4 DEF Stage
  <2> HIDE DEF left
  <2> QED
    BY <1>1, <1>2, <2>3, <2>4, <2>5 DEF Mirror!End
<1> QED
  BY <1>3, <1>4 DEF Exit

LEMMA InitMirrors == Init => Mirror!Init
<1> SUFFICES ASSUME Init PROVE Mirror!Init
  OBVIOUS
<1>1. [s \in Share |-> Point(mounts, s)] = Mirror!Empty
  <2>1. ASSUME NEW s \in Share PROVE Point(mounts, s) = None
    BY PointIs DEF Init, NoMounts, MountKey
  <2> QED
    BY <2>1 DEF Mirror!Empty
<1>2. offered \in Mirror!Offer
  BY DEF Init, Manifest, Mirror!Offer
<1>3. reply = None /\ Stage = "up"
  BY DEF Init, Stage
<1>4. (quiet >= GracePeriod) \in BOOLEAN
  OBVIOUS
<1> QED
  BY <1>1, <1>2, <1>3, <1>4 DEF Mirror!Init

LEMMA StepMirrors == IInv /\ IInv' /\ [Next]_vars => [Mirror!Next]_(Mirror!vars)
<1> SUFFICES ASSUME IInv, IInv', [Next]_vars PROVE [Mirror!Next]_(Mirror!vars)
  OBVIOUS
<1>1. ASSUME NEW m \in Manifest, ClientChanges(m) PROVE Mirror!Change
  <2>1. offered' \in Mirror!Offer
    BY <1>1 DEF ClientChanges, Manifest, Mirror!Offer
  <2>2. UNCHANGED <<reply, [s \in Share |-> Point(mounts, s)], quiet >= GracePeriod, Stage>>
    BY <1>1 DEF ClientChanges, polling, Stage
  <2> QED
    BY <2>1, <2>2 DEF Mirror!Change
<1>2. CASE Signal
  <2>1. UNCHANGED <<offered, reply, [s \in Share |-> Point(mounts, s)], quiet >= GracePeriod>>
    BY <1>2 DEF Signal, env, polling
  <2>2. Stage = "up" /\ Stage' = "closing"
    BY <1>2 DEF Signal, Stage
  <2>3. Mirror!Close
    BY <2>1, <2>2 DEF Mirror!Close
  <2> QED
    BY <2>3 DEF Mirror!Next
<1>3. CASE PollStart \/ PollFailed \/ UNCHANGED vars \/ (\E l \in LinkStates : LinkChanges(l))
  BY <1>3, SamePoints DEF PollStart, PollFailed, LinkChanges, vars, env, polling
<1>4. CASE Reconcile \/ Expire \/ Shutdown \/ Exit
  BY <1>4, ReconcileMirrors, ExpireMirrors, ShutdownMirrors, ExitMirrors DEF Mirror!Next
<1>5. CASE Tick \/ PollManifest \/ PollGarbled
  BY <1>5, TickMirrors, AnswerMirrors DEF IInv
<1> QED
  BY <1>1, <1>2, <1>3, <1>4, <1>5 DEF Next, Mirror!Next

\* The server daemon implements MirroredShares: whatever it counts, compares
\* and keeps under other keys, its mount points change only by a manifest being
\* applied as a whole, by a grace period without an answer, or by its shutdown.
THEOREM Refinement == Spec => MirrorsOffers
<1>1. Spec => Mirror!Spec
  BY InitMirrors, StepMirrors, Invariance, PTL DEF Spec, Mirror!Spec
<1> QED
  BY <1>1 DEF MirrorsOffers

-----------------------------------------------------------------------------
(* The way to the expiry *)

\* One failure less to go is one round less to go.
LEMMA RoundFacts ==
    /\ Round \in Nat /\ Round = Interval + Timeout + 2
    /\ \A n \in 0 .. FailureCap : (FailureCap - n) * Round \in Nat
    /\ \A n \in 0 .. FailureCap - 1 :
          (FailureCap - n) * Round = (FailureCap - (n + 1)) * Round + Round
    /\ (FailureCap + 1) * Round = (FailureCap - 0) * Round + Round
<1>1. Interval \in Nat /\ Timeout \in Nat /\ FailureCap \in Nat
  BY ServerAssumption DEF ServerAssumption
<1>2. Round \in Nat /\ Round = Interval + Timeout + 2
  BY <1>1 DEF Round
<1>3. \A n \in Nat : n * Round \in Nat /\ (n + 1) * Round = n * Round + Round
  BY <1>2, Z3
<1>4. ASSUME NEW n \in 0 .. FailureCap - 1
      PROVE  (FailureCap - n) * Round = (FailureCap - (n + 1)) * Round + Round
  <2> DEFINE r == FailureCap - (n + 1)
  <2>1. r \in Nat /\ FailureCap - n = r + 1
    BY <1>1
  <2> HIDE DEF r
  <2>2. (r + 1) * Round = r * Round + Round
    BY <1>3, <2>1
  <2> QED
    BY <2>1, <2>2 DEF r
<1>5. \A n \in 0 .. FailureCap : FailureCap - n \in Nat
  BY <1>1
<1>6. FailureCap - 0 = FailureCap
  BY <1>1
<1> QED
  BY <1>1, <1>2, <1>3, <1>4, <1>5, <1>6

\* A failure leads to the expiry or leaves one more counted: at the cap the
\* grace period is over.
LEMMA FailureCounts ==
    ASSUME IInv, PollFailed, Mounted # {}
    PROVE  \/ poller' = "expire"
           \/ /\ poller' = "sleep" /\ wait' = Interval
              /\ consecutive_failures \in 0 .. FailureCap - 1
              /\ consecutive_failures' = consecutive_failures + 1
<1>1. consecutive_failures \in 0 .. FailureCap /\ FailureCap \in Nat \ {0}
  BY ServerAssumption DEF ServerAssumption, IInv, TypeOK
<1>2. CASE consecutive_failures < FailureCap
  <2>1. consecutive_failures' = consecutive_failures + 1
    BY <1>2 DEF PollFailed, CountFailure
  <2> QED
    BY <1>1, <1>2, <2>1 DEF PollFailed, GoToSleep
<1>3. CASE consecutive_failures = FailureCap
  <2>1. consecutive_failures' = FailureCap
    BY <1>1, <1>3 DEF PollFailed, CountFailure
  <2>2. last_manifest # None
    BY DEF IInv, GraceArmed
  <2>3. FailureCap > 0 /\ FailureCap * Interval >= GracePeriod
    BY <1>1, ServerAssumption, GracePeriodFacts DEF ServerAssumption
  <2>4. GraceIsOver(consecutive_failures')
    BY <2>1, <2>2, <2>3 DEF GraceIsOver
  <2> QED
    BY <2>4 DEF PollFailed
<1> QED
  BY <1>1, <1>2, <1>3

\* For every interval, timeout and period, truncated or not: an unreachable
\* client's shares come nearer to their unmounting with every step of the loop and every second
\* it waits.  That Tick and Poll go on is then all that OfflineUnmounts needs.
THEOREM ExpiryNears == Spec => OfflineProgress
<1> DEFINE Nearer ==
      Offline /\ Offline' /\ Mounted # {} /\ Mounted' # {} =>
        /\ BeforeExpiry' <= BeforeExpiry
        /\ Poll \/ (poller \in {"sleep", "request"} /\ wait' < wait)
              => BeforeExpiry' < BeforeExpiry
<1>1. ASSUME IInv, Next PROVE Nearer
  <2> SUFFICES ASSUME Offline, Offline', Mounted # {}, Mounted' # {}
               PROVE  /\ BeforeExpiry' <= BeforeExpiry
                      /\ Poll \/ (poller \in {"sleep", "request"} /\ wait' < wait)
                            => BeforeExpiry' < BeforeExpiry
    OBVIOUS
  <2> DEFINE left == (FailureCap - consecutive_failures) * Round
             all  == (FailureCap + 1) * Round
  <2>1. /\ left \in Nat /\ all \in Nat /\ Round = Interval + Timeout + 2
        /\ Interval \in Nat /\ Timeout \in Nat /\ wait \in Nat
        /\ consecutive_failures \in 0 .. FailureCap
    <3>1. 0 \in 0 .. FailureCap /\ consecutive_failures \in 0 .. FailureCap
      BY <1>1, ServerAssumption DEF ServerAssumption, IInv, TypeOK
    <3> QED
      BY <1>1, <3>1, RoundFacts, ServerAssumption DEF ServerAssumption, IInv, TypeOK
  <2>2. BeforeExpiry =
          CASE poller = "reconcile" -> all + 1
            [] poller = "sleep"     -> left + wait + Timeout + 2
            [] poller = "request"   -> left + wait + 1
            [] poller = "expire"    -> 0
    BY DEF BeforeExpiry
  <2>3. BeforeExpiry' =
          CASE poller' = "reconcile" -> all + 1
            [] poller' = "sleep"     -> left' + wait' + Timeout + 2
            [] poller' = "request"   -> left' + wait' + 1
            [] poller' = "expire"    -> 0
    BY DEF BeforeExpiry
  <2>4. poller \in {"sleep", "request", "reconcile", "expire"}
    BY <1>1 DEF IInv, TypeOK
  <2>5. left' = (FailureCap - consecutive_failures') * Round
    BY DEF Round
  <2> HIDE DEF left, all
  <2>6. BeforeExpiry \in Nat
    BY <2>1, <2>2, <2>4
  <2>7. CASE PollStart
    <3>1. left' = left /\ wait' = Timeout /\ poller = "sleep" /\ wait = 0 /\ poller' = "request"
      BY <2>7 DEF PollStart, left
    <3> QED
      BY <2>1, <2>2, <2>3, <3>1
  <2>8. CASE PollFailed
    <3>1. poller = "request"
      BY <2>8 DEF PollFailed
    <3>2. CASE poller' = "expire"
      BY <2>1, <2>2, <2>3, <3>1, <3>2
    <3>3. CASE /\ poller' = "sleep" /\ wait' = Interval
               /\ consecutive_failures \in 0 .. FailureCap - 1
               /\ consecutive_failures' = consecutive_failures + 1
      <4>1. left = left' + Round
        BY <2>5, <3>3, RoundFacts DEF left
      <4>2. left' \in Int
        BY <2>1, <4>1, <2>5, <3>3, RoundFacts
      <4> QED
        BY <2>1, <2>2, <2>3, <3>1, <3>3, <4>1, <4>2
    <3> QED
      BY <1>1, <2>8, <3>2, <3>3, FailureCounts
  <2>9. CASE Reconcile
    <3>1. /\ poller = "reconcile" /\ poller' = "sleep" /\ wait' = Interval
          /\ consecutive_failures' = 0
      BY <1>1, <2>9 DEF IInv, Clock, Reconcile, GoToSleep
    <3>2. all = left' + Round
      BY <2>5, <3>1, RoundFacts DEF all
    <3>3. left' \in Nat
      <4>1. 0 \in 0 .. FailureCap
        BY ServerAssumption DEF ServerAssumption
      <4>2. (FailureCap - 0) * Round \in Nat
        BY <4>1, RoundFacts
      <4> QED
        BY <2>5, <3>1, <4>2
    <3> QED
      BY <2>1, <2>2, <2>3, <3>1, <3>2, <3>3
  <2>10. CASE Tick
    <3>1. /\ left' = left /\ poller' = poller
          /\ wait' = IF wait > 0 THEN wait - 1 ELSE 0
          /\ ~Poll
      BY <2>10 DEF Tick, left, Poll, PollStart, PollManifest, PollGarbled, PollFailed,
                   Reconcile, Expire, GoToSleep
    <3> QED
      BY <2>1, <2>2, <2>3, <2>4, <3>1
  <2>11. CASE Signal \/ Exit \/ (\E l \in LinkStates : LinkChanges(l))
                \/ (\E m \in Manifest : ClientChanges(m))
    <3>1. UNCHANGED polling
      BY <2>11 DEF Signal, Exit, LinkChanges, ClientChanges
    <3>2. BeforeExpiry' = BeforeExpiry /\ wait' = wait
      BY <2>2, <2>3, <3>1 DEF polling, left
    <3>3. ~Poll
      BY <2>11, <3>1
      DEF Signal, Exit, LinkChanges, ClientChanges, Poll, PollStart, PollManifest,
          PollGarbled, PollFailed, Reconcile, Expire, GoToSleep, polling, env
    <3> QED
      BY <2>1, <2>6, <3>2, <3>3
  <2>12. ~PollManifest /\ ~PollGarbled /\ ~Expire /\ ~Shutdown
    BY NoTable DEF Offline, PollManifest, PollGarbled, Expire, Shutdown
  <2> QED
    BY <1>1, <2>7, <2>8, <2>9, <2>10, <2>11, <2>12 DEF Next
<1>2. IInv /\ [Next]_vars => [Nearer]_vars
  BY <1>1
<1>3. Spec => [][Nearer]_vars
  BY <1>2, Invariance, PTL DEF Spec
<1> QED
  BY <1>3 DEF OfflineProgress

-----------------------------------------------------------------------------
(* The way to agreement *)

\* What holds of the mount table with one client when the daemon runs.
LEMMA OneClient ==
    ASSUME \A c, d \in Client : c = d
    PROVE  Spec => [](IInv /\ NothingForgotten /\ NoStaleMounts)
  BY NoneForgotten, NoneStale, Invariance, PTL

\* A manifest that tells nothing new finds what is offered mounted.
LEMMA OldNews ==
    ASSUME NothingForgotten, NoStaleMounts, Reachable, ~Changed(offered),
           NEW s \in Share \ Flaky
    PROVE  Settled(s)
<1>1. last_manifest # None /\ ManifestNames(last_manifest) = ManifestNames(offered)
  BY DEF Changed, ManifestNames
<1> QED
  BY <1>1 DEF NothingForgotten, NoStaleMounts, Reachable, Settled, IsOffered

\* What reconcile_mounts makes of a share, with one client.
LEMMA Applies ==
    ASSUME \A c, d \in Client : c = d, TypeOK, Reconcile, NEW s \in Share \ Flaky
    PROVE  s \in CurrentNames' <=> s \in ManifestNames(reply)
<1>1. reply.client \in Client
  BY ReconciledNames DEF Manifest
<1>2. \A k \in Mounted' : k[1] = reply.client
  BY <1>1 DEF Mounted, MountKey
<1> QED
  BY <1>2, ReconciledNames DEF CurrentNames

\* The ranks, none of which is below zero.
LEMMA Ranks ==
    ASSUME TypeOK, NEW s \in Share
    PROVE  /\ BeforeSettled(s) \in Nat
           /\ Detour(s) => BeforeSettled(s) = Interval + 4
           /\ ~Detour(s) /\ Settled(s) => BeforeSettled(s) = 0
           /\ ~Detour(s) /\ ~Settled(s) =>
                /\ poller = "reconcile" => BeforeSettled(s) = 1
                /\ poller = "request" => BeforeSettled(s) = 2
                /\ poller = "sleep" => BeforeSettled(s) = wait + 3
           /\ poller \in {"sleep", "request"} => ~Detour(s)
<1>1. Interval \in Nat /\ wait \in Nat
  BY ServerAssumption DEF ServerAssumption, TypeOK
<1>2. poller \in {"sleep", "request", "reconcile", "expire"}
  BY DEF TypeOK
<1>3. CASE Detour(s)
  BY <1>1, <1>3 DEF BeforeSettled, Detour
<1>4. CASE ~Detour(s)
  <2>1. poller # "expire"
    BY <1>4 DEF Detour
  <2> QED
    BY <1>1, <1>2, <1>4, <2>1 DEF BeforeSettled, Detour
<1> QED
  BY <1>3, <1>4

\* With one client, whatever the timing: polls, answers and reconciliations bring
\* every share nearer to what is offered.  That Tick and Poll go on is then all
\* that Converges needs.
THEOREM AgreementNears ==
    ASSUME \A c, d \in Client : c = d
    PROVE  Spec => OnlineProgress
<1> DEFINE Nearer(s) ==
      Reachable /\ Reachable' /\ (IsOffered(s)' <=> IsOffered(s)) =>
        /\ BeforeSettled(s)' <= BeforeSettled(s)
        /\ BeforeSettled(s) > 0 /\ (Poll \/ (poller = "sleep" /\ wait' < wait))
             => BeforeSettled(s)' < BeforeSettled(s)
<1> DEFINE Inv == IInv /\ NothingForgotten /\ NoStaleMounts
<1>1. ASSUME Inv, Inv', Next, NEW s \in Share \ Flaky PROVE Nearer(s)
  <2> SUFFICES ASSUME Reachable, Reachable', IsOffered(s)' <=> IsOffered(s)
               PROVE  /\ BeforeSettled(s)' <= BeforeSettled(s)
                      /\ BeforeSettled(s) > 0 /\ (Poll \/ (poller = "sleep" /\ wait' < wait))
                           => BeforeSettled(s)' < BeforeSettled(s)
    OBVIOUS
  <2> DEFINE now == BeforeSettled(s)
             then == BeforeSettled(s)'
  <2>1. TypeOK /\ TypeOK'
    BY <1>1 DEF IInv
  <2>2. /\ now \in Nat
        /\ Detour(s) => now = Interval + 4
        /\ ~Detour(s) /\ Settled(s) => now = 0
        /\ ~Detour(s) /\ ~Settled(s) =>
             /\ poller = "reconcile" => now = 1
             /\ poller = "request" => now = 2
             /\ poller = "sleep" => now = wait + 3
        /\ poller \in {"sleep", "request"} => ~Detour(s)
    BY <2>1, Ranks
  <2>3. /\ then \in Nat
        /\ Detour(s)' => then = Interval + 4
        /\ ~Detour(s)' /\ Settled(s)' => then = 0
        /\ ~Detour(s)' /\ ~Settled(s)' =>
             /\ poller' = "reconcile" => then = 1
             /\ poller' = "request" => then = 2
             /\ poller' = "sleep" => then = wait' + 3
        /\ poller' \in {"sleep", "request"} => ~Detour(s)'
    <3>1. Interval \in Nat /\ wait' \in Nat
      BY <2>1, ServerAssumption DEF ServerAssumption, TypeOK
    <3>2. poller' \in {"sleep", "request", "reconcile", "expire"}
      BY <2>1 DEF TypeOK
    <3>3. CASE Detour(s)'
      BY <3>1, <3>3 DEF BeforeSettled, Detour
    <3>4. CASE ~Detour(s)'
      <4>1. poller' # "expire"
        BY <3>4 DEF Detour
      <4> QED
        BY <3>1, <3>2, <3>4, <4>1 DEF BeforeSettled, Detour
    <3> QED
      BY <3>3, <3>4
  <2>4. Interval \in Nat /\ wait \in Nat /\ wait' \in Nat
    BY <2>1, ServerAssumption DEF ServerAssumption, TypeOK
  <2> HIDE DEF now, then
  <2>5. CASE PollManifest
    <3>1. poller = "request" /\ UNCHANGED <<mounts, offered>>
      BY <2>5 DEF PollManifest, env
    <3>2. Settled(s)' <=> Settled(s)
      BY <3>1 DEF Settled, IsOffered, CurrentNames, Mounted
    <3>3. CASE Changed(offered)
      <4>1. poller' = "reconcile" /\ reply' = offered
        BY <2>5, <3>3 DEF PollManifest
      <4>2. ~Detour(s)'
        BY <3>1, <4>1 DEF Detour, IsOffered
      <4> QED
        BY <2>2, <2>3, <3>1, <3>2, <4>1, <4>2 DEF now, then
    <3>4. CASE ~Changed(offered)
      <4>1. poller' = "sleep" /\ Settled(s)
        BY <1>1, <2>5, <3>4, OldNews DEF PollManifest, GoToSleep
      <4> QED
        BY <2>2, <2>3, <3>1, <3>2, <4>1 DEF now, then
    <3> QED
      BY <3>3, <3>4
  <2>6. CASE Reconcile
    <3>1. poller = "reconcile" /\ poller' = "sleep" /\ wait' = Interval
      BY <2>6 DEF Reconcile, GoToSleep
    <3>2. s \in CurrentNames' <=> s \in ManifestNames(reply)
      BY <1>1, <2>1, <2>6, Applies
    <3>3. ~Detour(s) => Settled(s)'
      BY <3>1, <3>2 DEF Detour, Settled
    <3> QED
      BY <2>2, <2>3, <2>4, <3>1, <3>3 DEF now, then
  <2>7. CASE Expire
    <3>1. Detour(s) /\ poller' = "sleep" /\ wait' = Interval
      BY <2>7 DEF Expire, GoToSleep, Detour
    <3> QED
      BY <2>2, <2>3, <2>4, <3>1 DEF now, then
  <2>8. CASE PollStart
    <3>1. poller = "sleep" /\ wait = 0 /\ poller' = "request" /\ UNCHANGED <<mounts, offered>>
      BY <2>8 DEF PollStart, env
    <3>2. Settled(s)' <=> Settled(s)
      BY <3>1 DEF Settled, IsOffered, CurrentNames, Mounted
    <3> QED
      BY <2>2, <2>3, <3>1, <3>2 DEF now, then
  <2>9. CASE Tick
    <3>1. /\ UNCHANGED <<poller, reply, mounts, offered>>
          /\ wait' = IF wait > 0 THEN wait - 1 ELSE 0
      BY <2>9 DEF Tick, env
    <3>2. (Settled(s)' <=> Settled(s)) /\ (Detour(s)' <=> Detour(s))
      BY <3>1 DEF Settled, Detour, IsOffered, CurrentNames, Mounted
    <3>3. ~Poll
      BY <2>9 DEF Tick, Poll, PollStart, PollManifest, PollGarbled, PollFailed,
                  Reconcile, Expire, GoToSleep
    <3>4. poller \in {"sleep", "request", "reconcile", "expire"}
      BY <2>1 DEF TypeOK
    <3>5. poller = "expire" => Detour(s)
      BY DEF Detour
    <3> QED
      BY <2>2, <2>3, <2>4, <3>1, <3>2, <3>3, <3>4, <3>5 DEF now, then
  <2>10. CASE \E m \in Manifest : ClientChanges(m)
    <3>1. UNCHANGED <<poller, reply, mounts, wait>>
      BY <2>10 DEF ClientChanges, polling
    <3>2. (Settled(s)' <=> Settled(s)) /\ (Detour(s)' <=> Detour(s))
      BY <3>1 DEF Settled, Detour, CurrentNames, Mounted
    <3>3. ~Poll
      BY <2>10 DEF ClientChanges, polling, Poll, PollStart, PollManifest, PollGarbled,
                   PollFailed, Reconcile, Expire, env
    <3>4. poller \in {"sleep", "request", "reconcile", "expire"}
      BY <2>1 DEF TypeOK
    <3>5. poller = "expire" => Detour(s)
      BY DEF Detour
    <3> QED
      BY <2>2, <2>3, <2>4, <3>1, <3>2, <3>3, <3>4, <3>5 DEF now, then
  <2>11. /\ ~PollGarbled /\ ~PollFailed /\ ~Signal /\ ~Shutdown /\ ~Exit
         /\ ~(\E l \in LinkStates : LinkChanges(l))
    BY DEF Reachable, PollGarbled, PollFailed, Signal, Shutdown, Exit, LinkChanges
  <2> QED
    BY <1>1, <2>5, <2>6, <2>7, <2>8, <2>9, <2>10, <2>11 DEF Next, now, then
<1>2. Inv /\ Inv' /\ [Next]_vars => [\A s \in Share \ Flaky : Nearer(s)]_vars
  BY <1>1
<1>3. Spec => []Inv
  BY OneClient
<1> HIDE DEF Inv
<1>4. Spec => [][\A s \in Share \ Flaky : Nearer(s)]_vars
  BY <1>2, <1>3, PTL DEF Spec
<1> QED
  BY <1>4 DEF OnlineProgress

=============================================================================
