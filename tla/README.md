# A verification of LazyMount

LazyMount shares folders of a machine behind NAT (the *client*) with remote
servers.  It starts and supervises `rclone` and `chisel` processes and keeps
what they do in step with what the user asked for.  The modules of this
directory model that orchestration layer in TLA+, check it with TLC on small
instances, and prove its main safety properties with TLAPS.

File names below are relative to `src/crates/lazymount-core/src/` unless they
say otherwise.  `main.rs` is that of `lazymount-cli`.

## 1. The system

```
      client machine                                server
  lazymount CLI                                 lazymount CLI
       | control socket                              | control socket
  client daemon (client.rs)                     server daemon (server.rs)
   |- config.toml (config.rs)                    |- poll_client_manifest
   |- ShareManager (shares.rs)                   |     GET localhost:3200 every 5 s
   |     rclone serve sftp, one per share        |- MountManager (mounts.rs)
   |- tunnel handles (tunnel.rs)                 |     rclone mount, one per share
   |     chisel client, one per remote --------> |- chisel server
   '- manifest HTTP server, port 3200            '- event loop
            every child is supervised by a monitor task (process.rs)
```

| Component | State it keeps | Operations | What makes it correct |
|---|---|---|---|
| Server daemon (`server.rs`) | `last_manifest`, `consecutive_failures`, the poll task, the shutdown message | poll, reconcile, expire, shutdown | mounts follow the manifest; a client that is gone loses its mounts after the grace period and not before; nothing is left mounted |
| Mount manager (`mounts.rs`) | the mount table, keyed by client and share | `mount_share`, `unmount_share`, `shutdown` | one rclone per mount point |
| Process supervision (`process.rs`) | per child: monitor task, handle, events | `spawn_monitored`, `kill`, `Drop`, restart with delay, `is_running` | one child per monitor; a killed process ends; a crashed one comes back; no event is lost |
| Client daemon (`client.rs`) | config, remotes with status, tunnel handles, manifest | boot from the configuration, RemoteAdd/Remove, Connect/Disconnect, ShareAdd/Remove, shutdown | tunnels, manifest, configuration and served shares agree; a share for one remote reaches no other |
| Share manager (`shares.rs`) | served shares, `next_sftp_port` | `add_share`, `remove_share`, `shutdown` | no port is used twice |
| Port allocation (`process.rs`) | none; the ports of the machine | `is_port_available`, `find_available_port` | what answers on a share's port is that share |
| Tunnel provider (`tunnel.rs`) | the process and mappings of a handle | `connect`, `update_tunnels` | a connected remote has a chisel client with the current mappings |
| Configuration (`config.rs`) | two TOML files | load, save | what is served is saved |
| Control socket (`control.rs`) | connections | request and answer, one line each | each request is answered by what it did |
| Protocol, types (`protocol.rs`, `types.rs`) | none | serde | - |
| rclone RC client (`rclone_rc.rs`) | none | single HTTP requests | - |
| CLI (`main.rs`) | none | start daemons, Ctrl+C, requests | the daemon has cleaned up before it ends |

How they interact: the CLI sends requests over the control socket, whose
connections are served by one task each; the handlers and the boot of the
client share `ClientState`, the poll task, the event loop and the handlers of
the server share `MountManager`, each behind one `tokio::sync::Mutex`.  Client
and server meet in the manifest only, which the server fetches through the
tunnel.  All monitors of a daemon send events over one bounded channel to its
event loop.

What is hard here, and where: PROJECT.json lists it line by line under
"hazards".  In short: decisions taken before the lock they are carried out
under; two clients on one control port; a grace period counted in polls; kills
that race with restarts; monitors that block on a full channel; two lock
sections for one request; requests served during the boot; an old and a new
chisel client at the same time; a program that ends before its tasks do; ports
that are probed now and bound later, beside children that outlived a daemon; a
manifest that is fetched in one session of the client and applied in the next.

## 2. The modules

| Module | What it is |
|---|---|
| `ServerDaemon` | poll loop, reconciliation, mount table, grace period, shutdown (`server.rs`, `mounts.rs`) |
| `MCServerDaemon` | its symmetry set |
| `ServerDaemonProofs` | theorems about it |
| `MirroredShares` | abstract: what a server promises about its mount points; `ServerDaemon` implements it |
| `ProcessLifecycle` | abstract: what a supervised process promises to its owner |
| `ManagedProcess` | monitors, handles, the event channel and the event loop (`process.rs`); implements `ProcessLifecycle` |
| `ManagedProcessProofs` | theorems about it, the refinement included |
| `ClientDaemon` | shares, tunnels, manifest, configuration, boot and requests (`client.rs`, `shares.rs`, `tunnel.rs`) |
| `MCClientDaemon` | symmetry, a bound and a view |
| `ShareOffer` | abstract: what a client shows to its server, session by session; `ClientDaemon` implements it |
| `ClientDaemonProofs` | theorems about `ClientDaemon`, the refinement included |
| `LazyMount` | abstract: `ServerDaemon` and `ShareOffer` composed, the client being the offer it makes; `TwoDaemons` implements it |
| `LazyMountProofs` | theorems about it; instantiates `ServerDaemonProofs` |
| `TwoDaemons` | `ServerDaemon` and `ClientDaemon` composed: both daemons in detail; implements `LazyMount` |
| `MCTwoDaemons` | symmetry, bounds and a view |
| `TwoDaemonsProofs` | theorems about it; extends `ClientDaemonProofs`, instantiates `LazyMountProofs` |
| `PortAllocator` | probing, the port counter as a word, tunnel ports, children and orphans that listen (`process.rs`, `shares.rs`) |
| `PortAllocatorProofs` | theorems about it, until the counter wraps an implementation of `ShareOffer` |
| `RequestReply` | abstract: what the control socket promises to a caller |
| `ControlSocket` | connections, requests, answers, daemons that start and end (`control.rs`, `main.rs`); implements `RequestReply` |
| `ControlSocketProofs` | theorems about it, the refinement included |

How they are composed.  `ServerDaemon` lets the manifest and the link change in
any way at any time.  `LazyMount` replaces that by a client that is no more than
its offer: it instantiates `ServerDaemon` and `ShareOffer`, which `ClientDaemon`
implements (run `ClientShares`, theorem `Refinement`).  `TwoDaemons` has
`ClientDaemon` itself in that place and implements `LazyMount` (run
`EndToEnd`, theorem `TogetherImplement`), so that what is shown of
the server and of `LazyMount` holds of the daemons as they are.  `ClientDaemon` and
`PortAllocator` take from `ManagedProcess` that a killed process ends some time
later, and may come up once more at most.

### ServerDaemon

| Variable | Code |
|---|---|
| `link`, `offered` | the tunneled port 3200 and the manifest behind it (environment) |
| `mounts` | `MountManager.mounts`, a map from (client, share) to the tunnel port of the mount |
| `last_manifest`, `consecutive_failures` | the locals of `poll_client_manifest` |
| `poller`, `wait`, `reply` | where that task stands: sleeping, waiting for an answer, waiting for the lock to reconcile or to expire |
| `daemon` | running; shutdown message queued; event loop ended; process ended |
| `quiet` | seconds since the last answer, read by properties only |

One action per await-free stretch: `PollStart`, `PollManifest`, `PollGarbled`,
`PollFailed`, `Reconcile`, `Expire`, `Signal`, `Shutdown`, `Exit`, and
`LinkChanges`, `ClientChanges`, `Tick` for the world.  A reconciliation is one
action since it holds the lock from beginning to end; which of its mounts fail
is chosen from `Flaky`.  `Exit` may come half-way through the unmounting, since
`main` returns once the message is queued.  `Shutdown` leaves the link alone:
chisel is only signalled, so polls may still be answered.  `GracePeriod`
is the u32 that server.rs:185 makes of the configured u64, `Words` standing for
2^32.

`MirroredShares` is what of this concerns the mount points, without keys, counters
and comparisons: `points` is the mount table seen from the mount points (`Point`),
`taken` the reply waiting for the lock, `silent` a stop-watch past the grace
period, `server` the daemon (`Stage`).  A mount point changes only as something
that was offered is applied, after the grace period, or as the daemon ends.

### ManagedProcess

| Variable | Code |
|---|---|
| `alive` | is there a living child |
| `monitor` | the await at which `monitor_process` stands; `started`, `exited`, `restarting` and `failed` are pending sends |
| `handle` | the oneshot sender: not yet made, held, or taken by `kill`/`Drop` |
| `channel` | the mpsc channel of 64 |
| `seen` | the last event received of each process (the log) |
| `loop`, `doomed` | the event loop, and the handles its shutdown branch kills |

A `select!` with two ready branches takes either.  The state function `State`
and the set `MayStart` map it to `ProcessLifecycle`, which says: a process is
kept up while it is wanted, an unwanted one may come up once more at most (the
restart that raced with the kill), and it ends for good.

### ClientDaemon

| Variable | Code |
|---|---|
| `config`, `disk` | `ClientState.config` and `config.toml` |
| `boot`, `todo`, `saved` | how far `start_client` is, and its own copy of the configuration |
| `remotes`, `tunnels`, `manifest` | the fields of `ClientState` |
| `shares`, `next_port` | `ShareManager` |
| `old` | chisel clients that were signalled and still run |
| `pending` | ShareAdd and ShareRemove requests between their two lock sections |
| `daemon` | off; running; event loop ended and process still there |

One action per lock section.  SFTP port and tunnel port of a share have the
same distance from the start of their ranges, so one number stands for both.
`AddShare` may find any free port from `next_port` on.  A share of the
configuration is for all remotes or for one, as the CLI writes it; lists with
several remotes, which only an editor can write, are left out.

`ShareOffer` is what of this the server can see: `session` is a running daemon,
`offer` the port of each name on the manifest (`Offered`), `next` the port
counter.  A port given out leads to one share until the daemon ends, and a name
moves to another port only by way of the manifest without it.

### LazyMount

The variables of `ServerDaemon` and `ShareOffer`, and two that only properties
read: `fresh` (was the reply taken in the client's present session) and
`current` (the mounts made from such a reply).  `offered` follows `offer`, since
the manifest is answered from `ClientState`.  The session ends with the shutdown
branch of the client's event loop, or with its process; until the process ends, requests
are served that may make anything of the manifest (`ClientEnds`, `ClientLingers`),
and it can be in reach.  A client that starts was not in reach before.  Server
actions are those of `ServerDaemon`, joined with the history variables.

### TwoDaemons

The variables of `ClientDaemon`, which it extends, those of `ServerDaemon`, and
the two history variables.  There is no `offered`: the server is answered from
the client's state (`Answer`), which is a set of entries there and a map from
names to ports in `ServerDaemon`.  A name is on the manifest twice only if it is
added again after the shutdown branch, and then `reconcile_mounts` mounts the
first entry and fails on the second, so `FirstEntry` is what `Answer` reads.
The link can come up only while a chisel client to this server runs, one that was
killed and lingers included (`Tunneled`), and no answer comes without one.
Server actions are those of `LazyMount`, client actions those of `ClientDaemon`.

### PortAllocator

| Variable | Code |
|---|---|
| `next` | `ShareManager.next_sftp_port`, a word: the addition wraps, as in a release build |
| `share`, `child` | the port of each share, and whether its rclone has got to listen on it |
| `stray` | rclones of no share: being killed, or left behind by a daemon that was killed |
| `others` | ports other programs listen on |
| `running`, `wrapped` | is there a daemon; has the counter wrapped (read by properties only) |

`AddShare` is the probe and the bookkeeping under one lock; the child binds the
port in a step of its own (`Binds`), so anything may come between.  A child that
is down is restarted or, when the spawn fails, lost for good with its monitor
while the share stays served (`Monitors`, child `gone`).  The three ports of the
configuration are any words, since config.rs compares none of them; only 0 is no
start of a range, since a bind to it finds any port.  An orphan
that was listening when its daemon was killed is told from a `latecomer`, which
was still starting or about to restart: the probe can see the first and not the
second.

### ControlSocket

| Variable | Code |
|---|---|
| `daemon`, `path` | daemons of one role, and the one whose listener the socket file leads to |
| `conn`, `peer`, `sent`, `garbage`, `got` | a connection from the caller's side |
| `task`, `taken`, `response` | `handle_connection`: its await, and its locals |
| `stream`, `written` | what it has written |
| `outcome` | how each request went, read by properties only |

Every connection has a task.  A handler is one step here (`ClientDaemon` has its
lock sections), `bind_listener` removes the file whosever it is (`RemoveSocket`)
and binds in another step (`BindSocket`), either of which may fail and leave the
daemon without a socket (`BindFails`); a task whose write fails ends, and requests of a caller who left are read all the same.

## 3. What is checked

Bounds are the constants of the `.cfg` files.  The symmetry sets are sound
because the permuted values are only compared with each other.  Deadlock is not
checked where the daemon may end: every run has such an end.

| Run | Shows |
|---|---|
| `ServerTwoClients` | `TypeOK`, `OneMountPerPoint`, `GraceArmed`, `UnmountedForCause`, `MirrorsOffers` with two clients, two names and two ports, any mount failing, and a grace period that the cast to u32 truncates |
| `ServerOneClient` | `NoStaleMounts`, `NothingForgotten`, `ExpireOnlyAfterGrace`, `OfflineUnmounts`, `Converges`, `OfflineProgress`, `OnlineProgress` with one client, all conditions of the link, one share that may fail |
| `ProcessSupervision` | `TypeOK`, `OneChild`, `LogTellsTruth`, `ImplementsLifecycle`, `ImplementsFairLifecycle`, `CrashedComesBack`, `WindsDown` with one slot, so that monitors do block |
| `ClientTunnels` | `NoCrossExposure`, `ShownConnected` with two remotes that are removed at any time, additions and saves that fail |
| `ClientShares` | `ManifestAgrees`, `TunnelsInSync`, `ServedUnchanged`, `KeepsOffer`, `NoNewForwards` with two shares, two requests at a time, connections and updates that fail |
| `ClientLive` | `TypeOK`, `RemovedNotForwarded` with a remote that is removed and added at any time, and updates that fail |
| `ControlRequests` | `TypeOK`, `LostForCause`, `KeepsPromise`, `Answered`, `AnswerNears` with two daemons, whose binding may fail, and two callers, one of whom sends two requests without waiting, and garbage |
| `Ports` | `TypeOK`, `TunnelsApart`, `NoStrayAnswers`, `GetsItsPort`, `OffersUntilWrap` with two shares, a word of five values, another program, two strays, restarts that may fail |
| `EndToEnd` | `ShowsItsFolder`, `ImplementsLazyMount` with two shares, two ports and a client that restarts at any time |

Why the bounds are enough.  Two clients, names and ports are the fewest for
one client to take over from another, for a share to stay while one goes, and
for two shares to swap ports.  An interval of 1 and a grace period of 2 or 3
leave room for failed polls before the one that expires; the numbers of the
code (5 s, 5 s, 30 s) are covered by the theorems `GraceRespected`, of the period
as a u32, and `GraceKept`, of the configured one below 2^32 s.  In
`ServerTwoClients` a word has four values and the period is 6, so that it is
truncated to 2.
`FailureCap` and `Horizon` are where a counter and a stop-watch saturate,
beyond all comparisons (assumption `ServerAssumption`).  In `ManagedProcess`
more processes than slots make senders wait.  In `ClientDaemon` ports `0 ..
MaxPort` let two shares run at once and a name be served, removed and served again; `FewOld` keeps one
lingering chisel client per state explored, and states with two are checked but
not continued.  `View` merges states that differ in the configuration only,
for properties that do not read it: while the daemon runs no guard reads it, and
`Init` starts with every configuration.  In `Ports` five ports and a scan of two
let the counter wrap after a few shares, let a scan find nothing, and let tunnel
ports wrap while the counter has not.  In `ControlRequests` two requests are the
fewest for an answer to be taken for another's; two daemons the fewest for a
socket file to be taken over.  In `EndToEnd`, the product
of both daemons, two shares swap ports across a restart between two polls, and a
failed poll is one too many.  Its `Bounds` do not continue states with two
lingering chisel clients, requests during the boot, a configuration without the
remote, a link that seems up without its tunnel, or a server that shuts down; its
view leaves out the stop-watch and what else no guard and neither property reads.
Faults, flaky shares and garbled answers are left out of it.  The runs of one
daemon alone explore all of these, and the theorems cover them together.

Fairness.  The runtime runs every task that is ready: weak fairness of the poll
task, of the monitors, of the boot, of a request between its lock sections.
Time passes (`Tick`).  Senders on a tokio channel are served in order, so a
sender does not starve while the loop receives: strong fairness of `Send`.
In `ControlSocket` connections are served and a caller who waits reads; in
`PortAllocator` a child that can listen does, and a monitor whose child is down
tries to restart it; that it succeeds is not assumed.  Nothing is assumed of the client, the link, the children or the user, and
nobody has to shut anything down.  The counterexample of `EndToEndPorts` is one
under `FairBothSpec`, in which the server's poll task and time go on.

### Where the code does not do what it says

Each of these runs checks one property, a statement of a comment or a help text,
and TLC finds it violated.  PROJECT.json quotes the line.

| Run | Property | What happens |
|---|---|---|
| `EndToEndPorts` | `MountsFollow` | a share that comes back on another port stays mounted on the old one, for good |
| `ServerExit` | `NoMountsLeft` | the process ends before everything is unmounted |
| `ControlStop` | `StopStops` | a stop is answered Ok and the daemon goes on |

These are the disagreements a run is kept for.  The models show others, which
the hazards of PROJECT.json describe at their lines:

- `last_manifest` is set although mounts failed (server.rs:163): with the
  flaky shares included, `Converges` fails, since nothing is tried again while
  the manifest stays the same.
- With a second client in `ServerOneClient`, `NoStaleMounts` fails: names are
  unmounted under the new client's key (server.rs:213).
- With `Removable = {r1}` in `ClientShares`, `TunnelsInSync` fails: the tunnel of
  a remote that was removed and added again has missed the updates in between
  (client.rs:438, client.rs:324).  Without the exception for such tunnels
  (`LeftOpen`), `RemovedNotForwarded` fails: a share that is removed while they
  are open stays forwarded through them until they are disconnected
  (client.rs:364).
- A grace period of 2^32 s is no time at all after the cast (server.rs:185): the
  first failed poll unmounts everything.  `ExpireOnlyAfterGrace` with `Grace`
  in the place of `GracePeriod` is what `GraceKept` needs `Grace < Words` for.
- The layout of the ports is unchecked (config.rs:24): without the condition
  `ControlInGap`, `TunnelsApart` fails, for instance with control port 3225 and
  the other defaults, at the fourth share.
- A respawn that fails ends the monitor (process.rs:233): the share is served,
  offered and forwarded without a child until it is removed.  `GetsItsPort`
  excepts it.
- A share may be served and not be in the configuration: a ShareRemove between
  the two lock sections of a ShareAdd, or during the boot, takes the entry only
  (client.rs:498).  A refused ShareAdd has already overwritten the saved entry
  (client.rs:490).
- A failed update leaves a connected remote with a dead chisel client
  (tunnel.rs:140); one manifest offers every remote all names (client.rs:215).
- Without the exception for latecomers, `NoStrayAnswers` fails: an rclone that
  was starting when its daemon was killed may take the port between the probe
  and the use.  Past the wrap of `next_sftp_port`, `TunnelsApart` fails: a share
  whose rclone is down has a port that the probe finds free.
- Without `fresh`, `ShowsItsFolder` fails: a manifest fetched from one session of the
  client is applied in the next (server.rs:143).
- The client may have been offline for almost one interval less than the grace
  period when it expires, which counts from the last answer.

Every property of a passing run has a mutant in one of the modules: a definition of the
model changed the way a plausible bug would change the code, with which TLC
finds the property violated.

## 4. What is proved

All theorems hold for every value of the constants that satisfies the named
assumption of the module, which says no more than that `None` is none of the
values, that bounds are numbers, that saturation points are out of reach, that
the product server.rs:185 compares reaches the period before it wraps (2^32 - 1
is a multiple of 5, so it meets every u32; with nothing mounted it is compared
in vain, and would wrap after 136 years), and that the SFTP range does not
start at port 0.

**ServerDaemonProofs** (`ServerAssumption`).  `Invariance` proves
`IInv == TypeOK /\ OneMountPerPoint /\ GraceArmed /\ Clock`.  `OneMountPerPoint`
is inductive thanks to the comparison of names: what `reconcile_mounts` mounts
was mounted for no client (`ReconciledFacts`).  `ExpireOnlyAfterGrace` is not
inductive: `Clock` adds that n counted failures stand for at least n + 1 sleeps
since the last answer, whatever the poll task is doing.  From it follow
`TypeCorrect`, `OneMount`, `Armed`, `GraceRespected`, `GraceKept` and, with the type of
`reply`, the action property `OnlyForCause`.  `NoneForgotten` and, for a single
client, `NoneStale` are inductive relative to `IInv`: only four actions change
the table or the names of the last manifest (`TableAlone`), and
`ReconciledNames` says what the one that mounts leaves behind.
`Refinement` proves `MirrorsOffers`, with `Stage` and `Point` as the mapping: each
step is one of `MirroredShares` or leaves the mount points alone.  `ExpiryNears`
and, for a single client, `AgreementNears` prove that what is still to do gets
less: while nobody answers, every step of the poll task leads towards the end of
the grace period and no second passes unseen (`OfflineProgress`); while the
client answers, every step leads to a table that agrees with its offer
(`OnlineProgress`).

**ManagedProcessProofs** (`ProcessAssumption`).  The invariant adds to
`OneChild` how far the events of a process are from its monitor, which gives
`NothingLost` for every capacity, and that an unused process has no handle.
`Refinement` proves that every step is a step of `ProcessLifecycle` under the
mapping, or leaves it unchanged, one action at a time.  `SixSteps` proves
`WindsDown`: once its owner has let go of it, a process takes six more steps at
most before its monitor is gone, whatever the others do.

**ClientDaemonProofs** (`ClientAssumption`).  `Runtime` says that the ports of
shares and of all chisel clients, the dying ones included, are behind
`next_port` and that no two shares have the same, together with the exposure of
every handle.  `NoCrossExposure` alone is not inductive: without the order of
the ports a new share could be given a port that an old chisel client still
forwards.  `SharesChange` proves it once for add_share and remove_share, from
`UpdateFacts` on `update_tunnels`; the tasks of the daemon follow action by
action.  Theorems: `TypeCorrect`, `OnlyForRemote`, `ManifestTrue`,
`StatusNotOverstated`, the action property `ServedKept`, and `InStep`
(`TunnelsInSync` where `Removable` is empty), whose invariant `Sync` adds that
every handle belongs to a registered remote and speaks of handles alone.
`Refinement` proves `KeepsOffer`: with `Off` (a daemon that does not run has no
shares) and `Listed`, every step is a step of `ShareOffer` or leaves it unchanged.
`OnlyLeftBehind` proves `NoNewForwards`: once a share is removed, no chisel client
is started that forwards its port.

**PortAllocatorProofs** (`PortAssumption`).  Until the counter wraps, the ports
of shares and of the killed children are behind `next` and distinct; an orphan's
port is held, so the probe passes it over.  From this follow `Apart`,
`OwnFolder`, and, since the map from SFTP to tunnel ports is injective on words
(`TunnelPortInjective`), `TunnelsMeetNobody`: tunnels are apart for any layout of
the ports.  They miss the control port (`TunnelNotControl`) where it lies in
the gap before them (`ControlInGap`), which holds of the defaults and is a condition
of the property, not an assumption: config.rs does not check it.
`Offers` proves `OffersUntilWrap`: what is seen of this module's ports is what `ShareOffer` allows, which `ClientDaemon` implements too,
so the two modules agree on when a port may be given out.

**ControlSocketProofs** (`SocketAssumption`).  The invariant relates what was
sent, taken, written and read of each connection: `got <= written <= taken <=
sent`, what is in the stream is what was performed, and a task that ended has a
reason.  From it follow `TypeCorrect`, `CutOffForCause` and `Refinement`
(`KeepsPromise`): requests and answers of each caller correspond one to one.  `NeverFurther` proves
`AnswerNears`: with every step of its own a connection gets nearer to the answers
its caller waits for, and no step of anybody else takes it back.

**LazyMountProofs**.  `LazyMount` is an abstract specification, run by TLC only as
what `TwoDaemons` implements, so `LazyMountAssumption` is a hypothesis of its theorems,
which `TwoDaemonsProofs` discharges.  `OwnFolder` speaks of mounts and
offer; between them the port passes through the manifest and the reply of the
poll loop, so `IInv` says at each of these places that the port is behind the
counter and offered for no other share (`OwnPort`).  `NeverAnotherFolder` is
`OwnFolder`.  `MadeOfItsParts` proves that the composition implements
`ServerDaemon` and `ShareOffer`: what `ServerDaemon` calls the world is a superset
of what the client does.  `ServerHolds` draws the conclusion: it takes the theorems
of `ServerDaemonProofs` by an instance of that module with the one client there is,
whose assumption is proved from `LazyMountAssumption` (`ServerBounds`).

**TwoDaemonsProofs** (`DaemonsAssumption`: the server is one of the client's
remotes, and `LazyMountAssumption`).  `TogetherImplement` proves
`ImplementsLazyMount`.  While the client daemon runs, its steps are steps of
`ShareOffer` (from `ClientDaemonProofs`) and its manifest reads as the offer
(`AnswerIs`, from `Listed`: every share has one entry).  Past its event loop
requests can list a name a second time, and the answer is then any manifest; that it
still has the form of one, no port standing for two names, is what `Ordered` adds to
the invariant: ports on the manifest are behind `next_port` and there once each, also
when nobody serves them.  `FirstIsEntry` needs that a set of ports has a least one,
for which the library's theorem on well-founded relations is used.  `OwnFolders`
(`ShowsItsFolder`) and `ServerKeeps` follow by an instance of `LazyMountProofs`
at the client's state: a theorem about the offer becomes one about `shares` and the
manifest.

Model-checked only: liveness under fairness (`OfflineUnmounts`, `Converges`,
`CrashedComesBack`, `RemovedNotForwarded`, `Answered`, `GetsItsPort`, and
`ImplementsFairLifecycle`), and with it everything about `ENABLED`, which the
prover cannot treat.  Half of each such argument is about steps alone, and is
proved: a measure that no step raises and that the steps in question lower.
`OfflineProgress` is that half of `OfflineUnmounts`, `OnlineProgress` of
`Converges`, `WindsDown` of `ImplementsFairLifecycle`, `AnswerNears` of
`Answered`; `NoNewForwards` says for `RemovedNotForwarded` that only clients which
were left behind have to end, those that a removed remote left open excepted.  What TLC adds is that a step that lowers the measure
stays possible and is taken.
All invariants and safety properties of the passing runs
are stated by a theorem.  No recursive definition was needed, so nothing
rests on induction over data.

## 5. What is not modelled

- The contents of files, pipes, logs and messages; the arguments of rclone and
  chisel.  They decide nothing the properties speak of.
- What requests that only read answer (Status, lists, statistics), and
  `health_check_all`, which nothing calls; `rclone_rc.rs`, whose single HTTP
  requests keep no state.
- `ManagedProcess::spawn`, which only tests use; the length of restart delays.
- Torn configuration files: what is left of one depends on the grammar of TOML.
- Mount points and chisel clients left behind by a daemon that was killed;
  `PortAllocator` has the orphans that serve shares.
- A debug build, in which port arithmetic panics where `PortAllocator` wraps.
- Windows variants.

## 6. Plan

Everything planned at first has been built: the three components, the control
socket, port allocation, the composition of the two daemons, in brief and in
detail, and the proofs of their safety properties.  What could follow:

1. In `ServerDaemon`, the children of mounts: a mount in the table whose rclone
   is being restarted or was given up, with `ManagedProcess` as its part.
2. The crash of a server daemon, with mount points of orphaned rclone processes
   found by the next one.
3. Liveness of the composition for shares that keep their port.
