---------------------------- MODULE ServerDaemon ----------------------------
(***************************************************************************)
(* The server daemon of LazyMount (crates/lazymount-core/src/server.rs and *)
(* mounts.rs): the poll loop that fetches the client's share manifest      *)
(* through the tunnel, the reconciliation of the mount table with that     *)
(* manifest, the grace period after which an unreachable client's shares   *)
(* are unmounted, and the shutdown of the daemon.                          *)
(*                                                                         *)
(* Every access to the MountManager happens under one tokio Mutex, so what *)
(* a task does between lock and unlock is one action here.  What happens   *)
(* between two lock sections, or between a decision and the lock it waits  *)
(* for, is interleaved with everything else.                               *)
(***************************************************************************)
EXTENDS Integers, FiniteSets

CONSTANTS
    Client,       \* host names clients put in their manifests
    Share,        \* share names
    Port,         \* server-side tunnel ports
    Flaky,        \* shares whose mount_share call may return an error
    LinkStates,   \* the conditions of the tunneled control port considered
    Interval,     \* seconds slept between two polls (5 in the code)
    Timeout,      \* seconds before the HTTP client gives up (5 in the code)
    Grace,        \* offline_grace_period, a u64 (30 by default)
    Words,        \* how many numbers a u32 has (2^32)
    FailureCap,   \* where the failure counter saturates in the model
    Horizon,      \* where the two stop-watches saturate in the model
    None          \* the None of an Option

\* What a GET on localhost:3200 meets: a client answering in time, one too
\* slow for the HTTP timeout, an answer with an error status, an answer that
\* is not a manifest, or nobody listening.
AllLinkStates == {"up", "slow", "failing", "garbled", "down"}

\* A ShareManifest: the client's name and the tunnel port of each share it
\* offers.  The client appends entries as it allocates ports, so the order of
\* the Vec is that of the ports and the entries can be kept as a map.
Manifest ==
    {m \in [client : Client, shares : [Share -> Port \cup {None}]] :
        \A a, b \in Share :
            m.shares[a] = m.shares[b] /\ m.shares[a] # None => a = b}

\* grace_period as u32, which is what the failures are compared with: of a
\* period of 2^32 s and more only the remainder is left.
GracePeriod == Grace % Words

\* Without FailureCap the counter and without Horizon the stop-watches grow
\* for ever; past these values no guard distinguishes them.  The counter times
\* the interval is a word up to FailureCap: in the code, where 2^32 - 1 is a
\* multiple of the 5 s, the product reaches every word before it is none.
ASSUME ServerAssumption ==
    /\ None \notin Port
    /\ None \notin Manifest
    /\ None \notin [client : Client, port : Port]
    /\ Flaky \subseteq Share
    /\ LinkStates \subseteq AllLinkStates
    /\ {"up", "down"} \subseteq LinkStates
    /\ Interval \in Nat \ {0}
    /\ Timeout \in Nat
    /\ Grace \in Nat
    /\ FailureCap \in Nat \ {0}
    /\ Words \in Nat \ {0}
    /\ FailureCap * Interval \in GracePeriod .. Words - 1
    /\ Horizon \in Nat
    /\ Horizon >= (FailureCap + 1) * Interval

VARIABLES
    link,                  \* condition of the tunneled control port
    offered,               \* the manifest the client serves on it
    mounts,                \* MountManager.mounts: tunnel port of each mount
    last_manifest,         \* local of poll_client_manifest
    consecutive_failures,  \* local of poll_client_manifest
    poller,                \* where poll_client_manifest stands
    wait,                  \* seconds left on its sleep or HTTP timeout
    reply,                 \* the manifest it took from the last answer
    daemon,                \* the daemon process
    quiet                  \* stop-watch, read by properties only: seconds
                           \* since the last successful answer

env == <<link, offered>>
polling == <<last_manifest, consecutive_failures, poller, wait, reply, quiet>>
vars == <<env, mounts, polling, daemon>>

-----------------------------------------------------------------------------

\* The key "{client}/{share}" of the mount table.
MountKey == Client \X Share

NoMounts == [k \in MountKey |-> None]

Mounted == {k \in MountKey : mounts[k] # None}

\* The names on list_mounts(): reconcile_mounts collects share names only.
\* A mount point is mount_base_dir joined with the share's name, so this is
\* also the set of mount points in use.
CurrentNames == {k[2] : k \in Mounted}

ManifestNames(m) == {s \in Share : m.shares[s] # None}

TypeOK ==
    /\ link \in LinkStates
    /\ offered \in Manifest
    /\ mounts \in [MountKey -> Port \cup {None}]
    /\ last_manifest \in Manifest \cup {None}
    /\ consecutive_failures \in 0 .. FailureCap
    /\ poller \in {"sleep", "request", "reconcile", "expire"}
    /\ wait \in Nat
    /\ reply \in Manifest \cup {None}
    /\ poller = "reconcile" <=> reply # None
    /\ daemon \in {"running", "stopping", "stopped", "exited"}
    /\ quiet \in 0 .. Horizon

Init ==
    /\ link = "down"
    /\ offered \in Manifest
    /\ mounts = NoMounts
    /\ last_manifest = None
    /\ consecutive_failures = 0
    /\ poller = "sleep"
    /\ wait = Interval
    /\ reply = None
    /\ daemon = "running"
    /\ quiet = 0

-----------------------------------------------------------------------------
(* The client and the tunnel: any change, at any time. *)

\* Chisel's reverse tunnel, the client's HTTP server or the network changes
\* condition, or the server's chisel process, which the shutdown branch has
\* signalled and its monitor kills some time later, is gone.
LinkChanges(l) ==
    /\ daemon # "exited"
    /\ link # l
    /\ link' = l
    /\ UNCHANGED <<offered, mounts, polling, daemon>>

\* Shares are added or removed on the client, the client restarts and hands
\* out its ports again, or another client takes over the control port.
ClientChanges(m) ==
    /\ offered # m
    /\ offered' = m
    /\ UNCHANGED <<link, mounts, polling, daemon>>

\* One second passes.
Later(t) == IF t < Horizon THEN t + 1 ELSE t

Tick ==
    /\ daemon # "exited"
    /\ wait' = IF wait > 0 THEN wait - 1 ELSE 0
    /\ quiet' = Later(quiet)
    /\ UNCHANGED <<env, mounts, last_manifest, consecutive_failures, poller,
                   reply, daemon>>

-----------------------------------------------------------------------------
(* poll_client_manifest *)

\* Back to the top of the loop: the next poll comes after a full sleep.
GoToSleep ==
    /\ poller' = "sleep"
    /\ wait' = Interval

PollStart ==
    /\ daemon # "exited"
    /\ poller = "sleep"
    /\ wait = 0
    /\ poller' = "request"
    /\ wait' = Timeout
    /\ UNCHANGED <<env, mounts, last_manifest, consecutive_failures, reply,
                   quiet, daemon>>

\* Mutant of Changed: only the number of shares is compared.
ChangedInNumber(m) ==
    \/ last_manifest = None
    \/ /\ last_manifest # None
       /\ Cardinality(ManifestNames(last_manifest)) # Cardinality(ManifestNames(m))

\* The comparison with the previous manifest looks at names and ports; the
\* client's name does not count.
Changed(m) ==
    \/ last_manifest = None
    \/ last_manifest # None /\ last_manifest.shares # m.shares

\* Mutant of FailuresAfterAnswer: the counter is not reset.
FailuresKept == consecutive_failures

\* The counter as a status success leaves it.
FailuresAfterAnswer == 0

\* A manifest arrives.  If it changed, reconcile_mounts has to wait for the
\* MountManager's lock; if not, it is only remembered.
PollManifest ==
    /\ daemon # "exited"
    /\ poller = "request"
    /\ link = "up"
    /\ consecutive_failures' = FailuresAfterAnswer
    /\ quiet' = 0
    /\ \/ /\ Changed(offered)
          /\ reply' = offered
          /\ poller' = "reconcile"
          /\ UNCHANGED <<last_manifest, wait>>
       \/ /\ ~Changed(offered)
          /\ last_manifest' = offered
          /\ GoToSleep
          /\ UNCHANGED reply
    /\ UNCHANGED <<env, mounts, daemon>>

\* A success status with a body that does not parse: a warning, but the
\* failure counter has been reset all the same.
PollGarbled ==
    /\ daemon # "exited"
    /\ poller = "request"
    /\ link = "garbled"
    /\ consecutive_failures' = FailuresAfterAnswer
    /\ quiet' = 0
    /\ GoToSleep
    /\ UNCHANGED <<env, mounts, last_manifest, reply, daemon>>

\* Mutant of CountFailure: the failure is logged but not counted.
IgnoreFailure(n) == n

\* The failure counter after n failures and one more.
CountFailure(n) == IF n < FailureCap THEN n + 1 ELSE n

\* The test at the foot of the loop, on n consecutive failures.
GraceIsOver(n) ==
    /\ n > 0
    /\ n * Interval >= GracePeriod
    /\ last_manifest # None

\* Refused, answered with an error status, or timed out.
PollFailed ==
    /\ daemon # "exited"
    /\ poller = "request"
    /\ \/ link \in {"down", "failing"}
       \/ link = "slow" /\ wait = 0
    /\ consecutive_failures' = CountFailure(consecutive_failures)
    /\ \/ /\ GraceIsOver(consecutive_failures')
          /\ poller' = "expire"
          /\ UNCHANGED wait
       \/ /\ ~GraceIsOver(consecutive_failures')
          /\ GoToSleep
    /\ UNCHANGED <<env, mounts, last_manifest, reply, quiet, daemon>>

\* Mutants of ReconciledMounts: the table keyed by the share's name alone; a
\* share is new when its own key is; everything is unmounted first; nothing
\* is ever unmounted.
KeyedByName(m, broken) == [s \in ManifestNames(m) \ broken |-> m.shares[s]]

NewByKey(m, broken) ==
    [k \in MountKey |->
        IF k[1] # m.client THEN mounts[k]
        ELSE IF k[2] \notin ManifestNames(m) THEN None
        ELSE IF k \in Mounted \/ k[2] \in broken THEN mounts[k]
        ELSE m.shares[k[2]]]

MountedAfresh(m, broken) ==
    [k \in MountKey |->
        IF k[1] = m.client /\ k[2] \in ManifestNames(m) \ broken
        THEN m.shares[k[2]] ELSE None]

OnlyMounting(m, broken) ==
    [k \in MountKey |->
        IF k[1] = m.client /\ k[2] \in ManifestNames(m) \ (CurrentNames \cup broken)
        THEN m.shares[k[2]] ELSE mounts[k]]

\* reconcile_mounts for manifest m, where mounting the shares in `broken`
\* fails.  Both sides of the comparison are share names, while the keys it
\* removes and inserts carry the manifest's client: a name that is mounted for
\* another client is neither unmounted nor mounted again.
ReconciledMounts(m, broken) ==
    [k \in MountKey |->
        CASE k[1] = m.client /\ k[2] \in CurrentNames \ ManifestNames(m) -> None
          [] k[1] = m.client /\ k[2] \in ManifestNames(m) \ (CurrentNames \cup broken)
                -> m.shares[k[2]]
          [] OTHER -> mounts[k]]

\* Mutant of Reconcile: the manifest is remembered only when all went well, so
\* that what failed is tried again.
ReconcileAndRetry ==
    /\ daemon # "exited"
    /\ poller = "reconcile"
    /\ \E broken \in SUBSET Flaky :
        /\ mounts' = ReconciledMounts(reply, broken)
        /\ last_manifest' = IF broken = {} THEN reply ELSE last_manifest
    /\ reply' = None
    /\ GoToSleep
    /\ UNCHANGED <<env, consecutive_failures, quiet, daemon>>

\* The lock is obtained: unmount what left the manifest, mount what is new,
\* and remember the manifest whatever failed.
Reconcile ==
    /\ daemon # "exited"
    /\ poller = "reconcile"
    /\ \E broken \in SUBSET Flaky : mounts' = ReconciledMounts(reply, broken)
    /\ last_manifest' = reply
    /\ reply' = None
    /\ GoToSleep
    /\ UNCHANGED <<env, consecutive_failures, quiet, daemon>>

\* The client is taken to be gone: MountManager::shutdown unmounts everything.
Expire ==
    /\ daemon # "exited"
    /\ poller = "expire"
    /\ mounts' = NoMounts
    /\ last_manifest' = None
    /\ consecutive_failures' = 0
    /\ GoToSleep
    /\ UNCHANGED <<env, reply, quiet, daemon>>

-----------------------------------------------------------------------------
(* Shutdown.  ServerHandle::shutdown only queues a message for the event   *)
(* loop; the command-line program returns from main right after it, which  *)
(* ends the process wherever its tasks are.                                *)

Signal ==
    /\ daemon = "running"
    /\ daemon' = "stopping"
    /\ UNCHANGED <<env, mounts, polling>>

\* The event loop's shutdown branch: under the lock unmount everything, then
\* signal chisel's monitor, then leave the loop.  The poll loop is not told, and
\* may have an answer through chisel before that is killed.
Shutdown ==
    /\ daemon = "stopping"
    /\ mounts' = NoMounts
    /\ daemon' = "stopped"
    /\ UNCHANGED <<env, polling>>

\* The process ends, possibly half-way through the shutdown branch.
\* kill_on_drop kills the rclone children; what is still in the mount table
\* stays behind as dead FUSE mounts.
Exit ==
    /\ \/ /\ daemon = "stopping"
          /\ \E left \in SUBSET Mounted :
                mounts' = [k \in MountKey |-> IF k \in left THEN mounts[k] ELSE None]
       \/ daemon = "stopped" /\ UNCHANGED mounts
    /\ daemon' = "exited"
    /\ UNCHANGED <<env, polling>>

-----------------------------------------------------------------------------

Poll ==
    \/ PollStart
    \/ PollManifest
    \/ PollGarbled
    \/ PollFailed
    \/ Reconcile
    \/ Expire

Next ==
    \/ \E l \in LinkStates : LinkChanges(l)
    \/ \E m \in Manifest : ClientChanges(m)
    \/ Tick
    \/ PollStart
    \/ PollManifest
    \/ PollGarbled
    \/ PollFailed
    \/ Reconcile
    \/ Expire
    \/ Signal
    \/ Shutdown
    \/ Exit

Spec == Init /\ [][Next]_vars

\* The poll task is polled by the runtime whenever it is ready, and time goes
\* on.  Nothing is assumed of the client, the link or the operator.
FairSpec == Spec /\ WF_vars(Tick) /\ WF_vars(Poll)

-----------------------------------------------------------------------------
(* Safety *)

\* No two mounts share a mount point.  A mount point is made of the share's
\* name alone (mounts.rs:64) while the table is keyed by client and name, so
\* only reconcile_mounts' comparison of names keeps two rclone processes from
\* being started on one directory.
OneMountPerPoint ==
    \A k, l \in Mounted : k[2] = l[2] => k = l

\* Whatever is mounted, the grace period can still remove it: the expiry test
\* requires last_manifest (server.rs:186), so a mount that outlived it would
\* never be unmounted again.
GraceArmed == Mounted # {} => last_manifest # None

\* Outside reconcile_mounts, a share of the last manifest whose mounting never
\* fails is mounted (by that client or another): no change the client makes
\* between two polls is lost.
NothingForgotten ==
    daemon = "running" /\ last_manifest # None
        => ManifestNames(last_manifest) \ Flaky \subseteq CurrentNames

\* "Unmount shares no longer in the manifest" (server.rs:209): what is mounted
\* is on the last manifest taken.  True of a server with one client only: names
\* are unmounted under the new client's key, so those of a former one stay.
NoStaleMounts ==
    last_manifest # None => CurrentNames \subseteq ManifestNames(last_manifest)

\* poll_client_manifest decides to unmount everything only when no answer has
\* come for the whole grace period, although it counts polls and not seconds:
\* the period as the u32 that server.rs:185 makes of it, which is the one that
\* was configured unless that has 2^32 s or more.
ExpireOnlyAfterGrace == poller = "expire" => quiet >= GracePeriod

\* "Unmount all shares" (mounts.rs:211, called by the shutdown branch): when
\* the daemon's process has ended nothing is left mounted.  False: main returns
\* once the shutdown message is queued.
NoMountsLeft == daemon = "exited" => Mounted = {}

\* A mount of a running daemon goes away, or changes, for one of two reasons:
\* its name left the manifest of its own client, or no answer came for the
\* whole grace period (as a u32).  In particular a share that stays offered is
\* not unmounted when others come and go, nor when another client takes over.
UnmountedForCause ==
    [][ \A k \in Mounted :
          daemon = "running" /\ mounts'[k] # mounts[k] =>
            /\ mounts'[k] = None
            /\ \/ poller = "expire" /\ quiet >= GracePeriod
               \/ /\ poller = "reconcile"
                  /\ k[1] = reply.client
                  /\ k[2] \notin ManifestNames(reply) ]_vars

\* What mount table t has on the mount point of s, as MirroredShares sees it.
Holder(t, s) == CHOOSE c \in Client : t[<<c, s>>] # None

Point(t, s) ==
    IF \E c \in Client : t[<<c, s>>] # None
    THEN [client |-> Holder(t, s), port |-> t[<<Holder(t, s), s>>]]
    ELSE None

Stage ==
    CASE daemon = "running"  -> "up"
      [] daemon = "stopping" -> "closing"
      [] daemon = "stopped"  -> "closed"
      [] daemon = "exited"   -> "ended"

Mirror == INSTANCE MirroredShares WITH
    taken <- reply,
    points <- [s \in Share |-> Point(mounts, s)],
    silent <- quiet >= GracePeriod,
    server <- Stage,
    Unreliable <- Flaky

\* server.rs and mounts.rs keep the promise of MirroredShares: what is mounted
\* was on one manifest with its client and its port, manifests are applied as
\* they were taken, as a whole and in turn, and between them nothing changes
\* unless the grace period, as a u32, has passed in silence or the daemon is
\* stopped.
MirrorsOffers == Mirror!Spec

-----------------------------------------------------------------------------
(* Liveness *)

Reachable == link = "up" /\ daemon = "running"

Offline == link \notin {"up", "garbled"} /\ daemon # "exited"

\* A client that stays out of reach, in whatever way, loses its mounts, even
\* those mounted while the daemon was shutting down.
OfflineUnmounts == <>[]Offline => <>[](Mounted = {})

\* One round of the poll loop that ends in a failure: the sleep and the HTTP
\* timeout in seconds, the beginning and the end of the request.
Round == Interval + Timeout + 2

\* The seconds and steps that are left, at most, before an unreachable client's
\* shares are unmounted.
BeforeExpiry ==
    CASE poller = "reconcile" -> (FailureCap + 1) * Round + 1
      [] poller = "sleep"     -> (FailureCap - consecutive_failures) * Round + wait + Timeout + 2
      [] poller = "request"   -> (FailureCap - consecutive_failures) * Round + wait + 1
      [] poller = "expire"    -> 0

\* The poll loop cannot put the expiry off (server.rs:185): while the client is
\* out of reach and something is mounted, every step of the loop and every
\* second it sleeps or waits brings the unmounting nearer, and nothing takes it
\* further away, whatever the clients, the link and the operator do meanwhile.
OfflineProgress ==
    [][ Offline /\ Offline' /\ Mounted # {} /\ Mounted' # {} =>
          /\ BeforeExpiry' <= BeforeExpiry
          /\ Poll \/ (poller \in {"sleep", "request"} /\ wait' < wait)
                => BeforeExpiry' < BeforeExpiry ]_vars

\* With one client that stays in reach: a share it keeps offering ends up mounted
\* for good, unless its mounting may fail, and one it keeps from offering ends up
\* unmounted, while the others may come and go for ever.
Converges ==
    \A s \in Share :
        /\ s \notin Flaky =>
            (<>[](Reachable /\ s \in ManifestNames(offered)) => <>[](s \in CurrentNames))
        /\ <>[](Reachable /\ s \notin ManifestNames(offered)) => <>[](s \notin CurrentNames)

IsOffered(s) == s \in ManifestNames(offered)

Settled(s) == s \in CurrentNames <=> IsOffered(s)

\* Something has to be carried out first that may leave s as it should not be.
Detour(s) ==
    \/ poller = "expire"
    \/ poller = "reconcile" /\ ~(s \in ManifestNames(reply) <=> IsOffered(s))

\* The seconds and steps that are left, at most, before s is mounted if it is
\* offered and unmounted if not.
BeforeSettled(s) ==
    IF Detour(s) THEN Interval + 4
    ELSE IF Settled(s) THEN 0
    ELSE CASE poller = "reconcile" -> 1
           [] poller = "request"   -> 2
           [] poller = "sleep"     -> wait + 3

\* With one client in reach, every step of the poll loop and every second it
\* sleeps brings the mount of each share nearer to what is offered of it, and
\* nothing takes it further away while that share stays or stays away, however
\* often the others change before a manifest is fetched, compared or applied.
OnlineProgress ==
    [][ \A s \in Share \ Flaky :
          Reachable /\ Reachable' /\ (IsOffered(s)' <=> IsOffered(s)) =>
            /\ BeforeSettled(s)' <= BeforeSettled(s)
            /\ BeforeSettled(s) > 0 /\ (Poll \/ (poller = "sleep" /\ wait' < wait))
                 => BeforeSettled(s)' < BeforeSettled(s) ]_vars

=============================================================================
