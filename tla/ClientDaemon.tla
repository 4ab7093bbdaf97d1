---------------------------- MODULE ClientDaemon ----------------------------
(***************************************************************************)
(* The client daemon of LazyMount (crates/lazymount-core/src/client.rs,    *)
(* shares.rs and tunnel.rs): the shares it serves over SFTP, the chisel    *)
(* clients that forward their ports to the remotes, the manifest, the      *)
(* configuration on disk, and the control requests that change them while  *)
(* the daemon is still loading what was saved.                             *)
(*                                                                         *)
(* ClientState is behind one tokio Mutex: a lock section is one action.    *)
(* ShareAdd and ShareRemove have two, and are interleaved between them.    *)
(* A share stands for its path, whose value nothing depends on.            *)
(***************************************************************************)
EXTENDS Naturals, FiniteSets

CONSTANTS
    Remote,         \* names of remotes
    Share,          \* names of shares
    MaxPort,        \* the ports of both ranges are 0 .. MaxPort
    Handler,        \* control connections served at the same time
    Removable,      \* remotes for which RemoteRemove is requested
    Faults,         \* the calls that may fail: "add", "connect", "update", "save"
    None

\* The SFTP port S + k is forwarded to the tunnel port T + k: both are k here.
Port == 0 .. MaxPort

\* The --remote option of `share add`: one remote, or all of them.
Offer == {{}} \cup {{r} : r \in Remote}

ASSUME ClientAssumption ==
    /\ MaxPort \in Nat
    /\ Removable \subseteq Remote
    /\ Faults \subseteq {"add", "connect", "update", "save"}
    /\ None \notin Port
    /\ None \notin Offer
    /\ None \notin [port : Port, remotes : Offer]
    /\ None \notin [ports : SUBSET Port, running : BOOLEAN]

VARIABLES
    daemon,         \* the process: off, running, or its event loop has stopped
    boot,           \* where start_client stands
    todo,           \* the remotes it still has to connect, or shares to add
    saved,          \* its copy of the configuration, until it has done
    config,         \* ClientState.config: remotes and shares
    disk,           \* config.toml
    remotes,        \* ClientState.remotes: the status of those registered
    shares,         \* ShareManager.shares
    next_port,      \* ShareManager.next_sftp_port
    manifest,       \* ClientState.manifest
    tunnels,        \* ClientState.tunnel_handles
    old,            \* chisel clients that were killed and still run
    pending         \* the handlers between their two lock sections

booting == <<boot, todo, saved>>
runtime == <<remotes, shares, next_port, manifest, tunnels, old>>
vars == <<daemon, booting, config, disk, runtime, pending>>

-----------------------------------------------------------------------------

Entitled(o, r) == o = {} \/ r \in o

Served == [port : Port, remotes : Offer]

Config == [remotes : [Remote -> {"none", "manual", "auto"}],
           shares : [Share -> Offer \cup {None}]]

\* The state of ShareManager is passed to what is computed from it after a
\* change under the same lock.
Serving(sh) == {s \in Share : sh[s] # None}

\* Mutant of Mappings: they are listed before the shares change.
MappingsBefore(sh, r) ==
    {shares[s].port : s \in {x \in Serving(shares) : Entitled(shares[x].remotes, r)}}

\* The ports tunnel_mappings_for_remote lists; the control port is in all.
Mappings(sh, r) == {sh[s].port : s \in {x \in Serving(sh) : Entitled(sh[x].remotes, r)}}

Known == {r \in Remote : remotes[r] # "unknown"}
Connected == {r \in Remote : tunnels[r] # None}

\* The chisel clients that run, those being killed included.
ChiselClients ==
    old \cup {[remote |-> r, ports |-> tunnels[r].ports] :
                r \in {x \in Connected : tunnels[x].running}}

Nothing(S) == [x \in S |-> None]

NoRemotes == [r \in Remote |-> "unknown"]

EmptyConfig == [remotes |-> [r \in Remote |-> "none"], shares |-> Nothing(Share)]

TypeOK ==
    /\ daemon \in {"off", "running", "stopped"}
    /\ boot \in {"remotes", "list", "connect", "shares", "ready"}
    /\ todo \subseteq Remote \cup Share
    /\ saved \in Config /\ config \in Config /\ disk \in Config
    /\ remotes \in [Remote -> {"unknown", "Disconnected", "Connected"}]
    /\ shares \in [Share -> Served \cup {None}]
    /\ next_port \in 0 .. (MaxPort + 1)
    /\ manifest \subseteq [name : Share, port : Port]
    /\ tunnels \in [Remote -> [ports : SUBSET Port, running : BOOLEAN] \cup {None}]
    /\ old \subseteq [remote : Remote, ports : SUBSET Port]
    /\ pending \in [Handler -> [op : {"add"}, name : Share, remotes : Offer]
                                \cup [op : {"remove"}, name : Share] \cup {None}]

\* What a process that is not running holds in memory.
Blank ==
    /\ boot' = "remotes" /\ todo' = {}
    /\ remotes' = NoRemotes
    /\ shares' = Nothing(Share)
    /\ next_port' = 0
    /\ manifest' = {}
    /\ tunnels' = Nothing(Remote)
    /\ old' = {}
    /\ pending' = Nothing(Handler)

\* Not started yet, with any configuration the user may have written.
Init ==
    /\ daemon = "off"
    /\ disk \in Config
    /\ saved = EmptyConfig /\ config = EmptyConfig
    /\ boot = "remotes" /\ todo = {}
    /\ remotes = NoRemotes
    /\ shares = Nothing(Share)
    /\ next_port = 0
    /\ manifest = {}
    /\ tunnels = Nothing(Remote)
    /\ old = {}
    /\ pending = Nothing(Handler)

-----------------------------------------------------------------------------
(* Lock sections used by several operations *)

\* save_client_config; a failure to write is ignored or only reported.
Save(c) ==
    /\ config' = c
    /\ \/ disk' = c
       \/ "save" \in Faults /\ disk' = disk

\* update_tunnels for the remotes in R once the shares are sh: the old chisel
\* client is only signalled, and the new one may fail to start, which leaves
\* the handle with the killed process and its old mappings.
UpdateTunnels(R, sh) ==
    \E failed \in IF "update" \in Faults THEN SUBSET R ELSE {{}} :
        /\ old' = old \cup {[remote |-> r, ports |-> tunnels[r].ports] :
                              r \in {x \in R : tunnels[x].running}}
        /\ tunnels' = [r \in Remote |->
             IF r \notin R THEN tunnels[r]
             ELSE IF r \in failed THEN [ports |-> tunnels[r].ports, running |-> FALSE]
             ELSE [ports |-> Mappings(sh, r), running |-> TRUE]]

\* Mutants of NextPort: the search starts at the bottom of the range again; a
\* port is skipped.
NextPortReset(p) == 0

NextPortSkipping(p) == p + 2

\* next_sftp_port after port p was given to a share.
NextPort(p) == p + 1

\* Where find_available_port may find the first free port.
FreePorts == {q \in Port : q >= next_port}

\* Mutant of ToUpdate: a share for all remotes is forgotten.
ToUpdateNamed(o) == {r \in Connected \cap Known : r \in o}

\* The tunnels add_share restarts: a handle whose remote was removed is passed
\* over.
ToUpdate(o) == {r \in Connected \cap Known : Entitled(o, r)}

\* Mutants of AddShare: the manifest's port is taken from the counter when that
\* has moved on; a name that is taken is served anew.
AddShareAhead(s, o) ==
    /\ shares[s] = None
    /\ \E p \in FreePorts :
        /\ shares' = [shares EXCEPT ![s] = [port |-> p, remotes |-> o]]
        /\ next_port' = NextPort(p)
        /\ manifest' = manifest \cup {[name |-> s, port |-> NextPort(p)]}
    /\ UpdateTunnels(ToUpdate(o), shares')
    /\ UNCHANGED remotes

AddShareAgain(s, o) ==
    /\ \E p \in FreePorts :
        /\ shares' = [shares EXCEPT ![s] = [port |-> p, remotes |-> o]]
        /\ next_port' = NextPort(p)
        /\ manifest' = manifest \cup {[name |-> s, port |-> p]}
    /\ UpdateTunnels(ToUpdate(o), shares')
    /\ UNCHANGED remotes

\* add_share.  Any port from next_sftp_port on may be the first free one.
AddShare(s, o) ==
    /\ shares[s] = None
    /\ \E p \in FreePorts :
        /\ shares' = [shares EXCEPT ![s] = [port |-> p, remotes |-> o]]
        /\ next_port' = NextPort(p)
        /\ manifest' = manifest \cup {[name |-> s, port |-> p]}
    /\ UpdateTunnels(ToUpdate(o), shares')
    /\ UNCHANGED remotes

\* It is refused when the name is taken, the path or rclone is missing, no port
\* is free, or rclone cannot be started, which has used up a port already.
AddRefused(s) ==
    /\ \/ /\ shares[s] # None \/ FreePorts = {} \/ "add" \in Faults
          /\ UNCHANGED next_port
       \/ /\ shares[s] = None /\ "add" \in Faults
          /\ \E p \in FreePorts : next_port' = NextPort(p)
    /\ UNCHANGED <<remotes, shares, manifest, tunnels, old>>

\* connect_to_remote, and its refusal.
Connect(r) ==
    /\ r \in Known
    /\ r \notin Connected
    /\ tunnels' = [tunnels EXCEPT ![r] = [ports |-> Mappings(shares, r), running |-> TRUE]]
    /\ remotes' = [remotes EXCEPT ![r] = "Connected"]
    /\ UNCHANGED <<shares, next_port, manifest, old>>

ConnectRefused(r) ==
    /\ r \notin Known \/ r \in Connected \/ "connect" \in Faults
    /\ UNCHANGED runtime

-----------------------------------------------------------------------------
(* start_client: the control socket is served before any of this. *)

Start ==
    /\ daemon = "off"
    /\ daemon' = "running"
    /\ saved' = disk
    /\ config' = disk
    /\ UNCHANGED <<boot, todo, disk, runtime, pending>>

\* Every saved remote is inserted, over one that was added meanwhile.  The
\* auto_connect flags are read once, by BootList; until then todo keeps them.
BootRemotes ==
    /\ daemon = "running"
    /\ boot = "remotes"
    /\ remotes' = [r \in Remote |->
         IF saved.remotes[r] = "none" THEN remotes[r] ELSE "Disconnected"]
    /\ todo' = {r \in Remote : saved.remotes[r] = "auto"}
    /\ boot' = "list"
    /\ UNCHANGED <<daemon, saved, config, disk, shares, next_port, manifest,
                   tunnels, old, pending>>

BootList ==
    /\ daemon = "running"
    /\ boot = "list"
    /\ boot' = "connect"
    /\ UNCHANGED <<daemon, todo, saved, config, disk, runtime, pending>>

BootConnect ==
    /\ daemon = "running"
    /\ boot = "connect"
    /\ \/ /\ todo # {}
          /\ \E r \in todo :
                /\ todo' = todo \ {r}
                /\ Connect(r) \/ ConnectRefused(r)
          /\ UNCHANGED boot
       \/ /\ todo = {}
          /\ boot' = "shares"
          /\ todo' = Serving(saved.shares)
          /\ UNCHANGED runtime
    /\ UNCHANGED <<daemon, saved, config, disk, pending>>

\* The shares of the configuration as it was read, in no particular order.
BootShares ==
    /\ daemon = "running"
    /\ boot = "shares"
    /\ \/ /\ todo # {}
          /\ \E s \in todo :
                /\ todo' = todo \ {s}
                /\ AddShare(s, saved.shares[s]) \/ AddRefused(s)
          /\ UNCHANGED <<boot, saved>>
       \/ /\ todo = {}
          /\ boot' = "ready"
          /\ saved' = EmptyConfig
          /\ UNCHANGED <<todo, runtime>>
    /\ UNCHANGED <<daemon, config, disk, pending>>

-----------------------------------------------------------------------------
(* handle_client_request *)

\* auto_connect is reset or gone, which BootList may still have to see.
ForgetAuto(r) == todo' = IF boot = "list" THEN todo \ {r} ELSE todo

\* A remote that exists is replaced, its status and auto_connect reset.
RemoteAdd(r) ==
    /\ daemon # "off"
    /\ remotes' = [remotes EXCEPT ![r] = "Disconnected"]
    /\ ForgetAuto(r)
    /\ Save([config EXCEPT !.remotes[r] = "manual"])
    /\ UNCHANGED <<daemon, boot, saved, shares, next_port, manifest, tunnels, old, pending>>

\* The tunnel stays.
RemoteRemove(r) ==
    /\ daemon # "off"
    /\ r \in Removable \cap Known
    /\ remotes' = [remotes EXCEPT ![r] = "unknown"]
    /\ ForgetAuto(r)
    /\ Save([config EXCEPT !.remotes[r] = "none"])
    /\ UNCHANGED <<daemon, boot, saved, shares, next_port, manifest, tunnels, old, pending>>

ConnectRequest(r) ==
    /\ daemon # "off"
    /\ Connect(r)
    /\ UNCHANGED <<daemon, booting, config, disk, pending>>

\* Mutant of Disconnect: an early return when the chisel client was not running
\* any more leaves the status as it was.
DisconnectUnshown(r) ==
    /\ daemon # "off"
    /\ r \in Connected
    /\ tunnels' = [tunnels EXCEPT ![r] = None]
    /\ UNCHANGED <<daemon, booting, config, disk, remotes, shares, next_port, manifest,
                   old, pending>>

Disconnect(r) ==
    /\ daemon # "off"
    /\ r \in Connected
    /\ old' = IF tunnels[r].running
              THEN old \cup {[remote |-> r, ports |-> tunnels[r].ports]} ELSE old
    /\ tunnels' = [tunnels EXCEPT ![r] = None]
    /\ remotes' = IF r \in Known THEN [remotes EXCEPT ![r] = "Disconnected"]
                  ELSE remotes
    /\ UNCHANGED <<daemon, booting, config, disk, shares, next_port, manifest, pending>>

\* ShareAdd and ShareRemove first write the configuration...
PersistAdd(h, s, o) ==
    /\ daemon # "off"
    /\ pending[h] = None
    /\ Save([config EXCEPT !.shares[s] = o])
    /\ pending' = [pending EXCEPT ![h] = [op |-> "add", name |-> s, remotes |-> o]]
    /\ UNCHANGED <<daemon, booting, runtime>>

PersistRemove(h, s) ==
    /\ daemon # "off"
    /\ pending[h] = None
    /\ Save([config EXCEPT !.shares[s] = None])
    /\ pending' = [pending EXCEPT ![h] = [op |-> "remove", name |-> s]]
    /\ UNCHANGED <<daemon, booting, runtime>>

\* ... and, under the lock again, do it.
FinishAdd(h) ==
    /\ daemon # "off"
    /\ pending[h] # None
    /\ pending[h].op = "add"
    /\ \/ AddShare(pending[h].name, pending[h].remotes)
       \/ AddRefused(pending[h].name)
    /\ pending' = [pending EXCEPT ![h] = None]
    /\ UNCHANGED <<daemon, booting, config, disk>>

\* Mutants of RemoveShare: the manifest keeps its entry; the tunnels are left
\* alone, since the forwarded port leads nowhere any more.
RemoveShareOnly(s) ==
    /\ shares' = [shares EXCEPT ![s] = None]
    /\ UpdateTunnels(Connected \cap Known, shares')
    /\ UNCHANGED <<remotes, next_port, manifest>>

RemoveShareQuietly(s) ==
    /\ shares' = [shares EXCEPT ![s] = None]
    /\ manifest' = {e \in manifest : e.name # s}
    /\ UNCHANGED <<remotes, next_port, tunnels, old>>

\* remove_share: all tunnels are restarted.
RemoveShare(s) ==
    /\ shares' = [shares EXCEPT ![s] = None]
    /\ manifest' = {e \in manifest : e.name # s}
    /\ UpdateTunnels(Connected \cap Known, shares')
    /\ UNCHANGED <<remotes, next_port>>

FinishRemove(h) ==
    /\ daemon # "off"
    /\ pending[h] # None
    /\ pending[h].op = "remove"
    /\ \/ /\ shares[pending[h].name] # None
          /\ RemoveShare(pending[h].name)
       \/ /\ shares[pending[h].name] = None
          /\ UNCHANGED runtime
    /\ pending' = [pending EXCEPT ![h] = None]
    /\ UNCHANGED <<daemon, booting, config, disk>>

-----------------------------------------------------------------------------
(* The end of chisel clients and of the daemon *)

\* The monitor of a killed chisel client gets to kill it.
OldDies(c) ==
    /\ c \in old
    /\ old' = old \ {c}
    /\ UNCHANGED <<daemon, booting, config, disk, remotes, shares, next_port, manifest,
                   tunnels, pending>>

\* The event loop's shutdown branch.  Manifest and remotes keep their values,
\* and requests are still served.
Shutdown ==
    /\ daemon = "running"
    /\ boot = "ready"
    /\ daemon' = "stopped"
    /\ shares' = Nothing(Share)
    /\ tunnels' = Nothing(Remote)
    /\ old' = ChiselClients
    /\ UNCHANGED <<booting, config, disk, remotes, next_port, manifest, pending>>

\* The process ends, and its children with it (kill_on_drop).
Exit ==
    /\ daemon # "off"
    /\ daemon' = "off"
    /\ Blank
    /\ saved' = EmptyConfig /\ config' = EmptyConfig
    /\ UNCHANGED disk

-----------------------------------------------------------------------------

Boot == BootRemotes \/ BootList \/ BootConnect \/ BootShares

Next ==
    \/ Start
    \/ BootRemotes
    \/ BootList
    \/ BootConnect
    \/ BootShares
    \/ \E r \in Remote :
        \/ RemoteAdd(r)
        \/ RemoteRemove(r)
        \/ ConnectRequest(r)
        \/ Disconnect(r)
    \/ \E h \in Handler :
        \/ \E s \in Share, o \in Offer : PersistAdd(h, s, o)
        \/ \E s \in Share : PersistRemove(h, s)
        \/ FinishAdd(h)
        \/ FinishRemove(h)
    \/ \E c \in old : OldDies(c)
    \/ Shutdown
    \/ Exit

Spec == Init /\ [][Next]_vars

\* Tasks of the runtime that are ready are run, and a signalled monitor kills
\* its child.  Requests, shutdown and the end of the process are not fair.
FairSpec ==
    /\ Spec
    /\ WF_vars(Boot)
    /\ \A h \in Handler : WF_vars(FinishAdd(h) \/ FinishRemove(h))
    /\ \A c \in [remote : Remote, ports : SUBSET Port] : WF_vars(OldDies(c))

-----------------------------------------------------------------------------
(* Safety *)

\* The manifest lists exactly the shares that are served, with their ports,
\* although three lock sections of two tasks change either.
ManifestAgrees ==
    daemon = "running" =>
        manifest = {[name |-> s, port |-> shares[s].port] : s \in Serving(shares)}

\* "Share with a specific remote only" (main.rs:130): no chisel client, not even
\* one whose remote was removed or that is being killed, forwards a port to a
\* remote while a share that is not for that remote is served on it.
NoCrossExposure ==
    \A c \in ChiselClients, s \in Serving(shares) :
        shares[s].port \in c.ports => Entitled(shares[s].remotes, c.remote)

\* "Update tunnels for all connected remotes that need this share"
\* (client.rs:314): the running tunnel of a registered remote forwards exactly
\* the shares for it.  True as long as no remote is removed while connected.
TunnelsInSync ==
    \A r \in Connected \cap Known :
        tunnels[r].running => tunnels[r].ports = Mappings(shares, r)

\* A remote that is shown as Connected has a tunnel handle, whatever order of
\* remote add, remote remove, connect and disconnect led there.  The converse
\* is false: RemoteAdd for a connected remote resets its status.
ShownConnected ==
    daemon = "running" => {r \in Remote : remotes[r] = "Connected"} \subseteq Connected

\* A share that is served keeps its port and its remotes until it is removed,
\* whatever is requested or loaded under its name.
ServedUnchanged ==
    [][ \A s \in Serving(shares) :
          s \in Serving(shares)' => shares'[s] = shares[s] ]_vars

Forwarders(p) == {c \in ChiselClients : p \in c.ports}

\* No step starts a chisel client that forwards a port on which no share is
\* served when the step is done: such forwards only die out, even where a
\* remote was removed while connected or an update of its tunnel has failed.
NoNewForwards ==
    [][ \A p \in Port :
          (\A s \in Serving(shares) : shares[s].port # p)'
              => Forwarders(p)' \subseteq Forwarders(p) ]_vars

\* The port the manifest of a running daemon gives for a share.
EntryOf(m, s) == CHOOSE e \in m : e.name = s

Offered(s) ==
    IF daemon = "running" /\ \E e \in manifest : e.name = s
    THEN EntryOf(manifest, s).port
    ELSE None

Client == INSTANCE ShareOffer WITH
    session <- daemon = "running",
    offer <- [s \in Share |-> Offered(s)],
    next <- IF daemon = "running" THEN next_port ELSE 0

\* client.rs and shares.rs keep what ShareOffer promises to the server: a share
\* that is shown on one port is not shown on another before it was taken from
\* the manifest, and a port leads to one share in the life of a daemon.
KeepsOffer == Client!Spec

-----------------------------------------------------------------------------
(* Liveness *)

\* The tunnels of remotes that were removed, and perhaps added again, while
\* they were connected: the handle stays (client.rs:438), and remove_share may
\* have passed it over (client.rs:364), so that only a disconnect ends it.
LeftOpen ==
    {[remote |-> r, ports |-> tunnels[r].ports] :
        r \in {x \in Connected : remotes[x] # "Connected"}}

\* The port of a removed share ends up forwarded to no remote, but through the
\* tunnels that are left open.
RemovedNotForwarded ==
    \A p \in Port :
        (\A s \in Serving(shares) : shares[s].port # p)
            ~> \/ Forwarders(p) \subseteq LeftOpen
               \/ \E s \in Serving(shares) : shares[s].port = p

=============================================================================
