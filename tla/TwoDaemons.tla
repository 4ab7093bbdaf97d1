----------------------------- MODULE TwoDaemons -----------------------------
(***************************************************************************)
(* A client and a server as they are: the client of ClientDaemon, boot,    *)
(* requests, tunnels and all, and the server of ServerDaemon.  They share  *)
(* the manifest, which the server is answered from the client's state, and *)
(* the way to it, a chisel client.  LazyMount, where the client is the     *)
(* offer it makes, is what the two implement.                              *)
(***************************************************************************)
EXTENDS ClientDaemon, Integers

CONSTANTS
    Host,           \* the client's name in its manifest
    Here,           \* the client's name for this server
    Flaky, LinkStates, Interval, Timeout, Grace, Words, FailureCap, Horizon

VARIABLES
    link, mounts, last_manifest, consecutive_failures, poller, wait, reply,
    server_daemon, quiet,       \* of ServerDaemon
    fresh, current              \* of LazyMount, read by properties only

clientVars == <<daemon, booting, config, disk, runtime, pending>>
serverVars == <<link, mounts, last_manifest, consecutive_failures, poller, wait, reply,
                server_daemon, quiet>>
history == <<fresh, current>>
daemons == <<clientVars, serverVars, history>>

\* Entries are appended as ports are given out, so the first is the one with
\* the lowest port; it is the one that is mounted if the name occurs twice, as
\* requests served after the shutdown branch may bring about.
FirstEntry(m, s) ==
    CHOOSE e \in m : e.name = s /\ \A f \in m : f.name = s => e.port <= f.port

\* serve_manifest, as the server reads it.
Answer ==
    [client |-> Host,
     shares |-> [s \in Share |->
        IF \E e \in manifest : e.name = s THEN FirstEntry(manifest, s).port ELSE None]]

Whole == INSTANCE LazyMount WITH
    offered <- Answer,
    session <- daemon = "running",
    offer <- [s \in Share |-> Offered(s)],
    next <- IF daemon = "running" THEN next_port ELSE 0,
    daemon <- server_daemon

ASSUME DaemonsAssumption ==
    /\ Here \in Remote
    /\ Whole!LazyMountAssumption

\* A chisel client forwards the control port to this server: all of them do.
Tunneled == \E c \in ChiselClients : c.remote = Here

BothInit ==
    /\ Init
    /\ Whole!Init

-----------------------------------------------------------------------------
(* The client *)

\* Nobody reaches a client that was not there, whichever way the link is gone.
ClientStarts ==
    /\ Start
    /\ link \in {"down", "slow"}
    /\ fresh' = FALSE
    /\ current' = {}
    /\ UNCHANGED serverVars

\* Boot, requests, shutdown and the end of the process.
ClientSteps ==
    /\ daemon # "off"
    /\ Next
    /\ UNCHANGED <<serverVars, history>>

-----------------------------------------------------------------------------
(* The server, and the link *)

\* It is up, well or badly, only through the tunnel, and may still seem so when
\* that has gone.
LinkChanges(l) ==
    /\ l \in {"down", "slow"} \/ Tunneled
    /\ UNCHANGED clientVars
    /\ Whole!LinkChanges(l)

\* An answer comes out of the client's state through the tunnel.
PollManifest ==
    /\ Tunneled
    /\ UNCHANGED clientVars
    /\ Whole!PollManifest

Polls ==
    \/ PollManifest
    \/ UNCHANGED clientVars /\ (Whole!Reconcile \/ Whole!PollOther)

Tick == UNCHANGED clientVars /\ Whole!Tick

ServerEnds == UNCHANGED clientVars /\ Whole!ServerEnds

-----------------------------------------------------------------------------

BothNext ==
    \/ ClientStarts
    \/ ClientSteps
    \/ \E l \in LinkStates : LinkChanges(l)
    \/ Polls
    \/ Tick
    \/ ServerEnds

BothSpec == BothInit /\ [][BothNext]_daemons

\* Of the server as in ServerDaemon; nothing is assumed of the client.
FairBothSpec ==
    /\ BothSpec
    /\ WF_daemons(Tick)
    /\ WF_daemons(Polls)

-----------------------------------------------------------------------------
(* Properties *)

\* client.rs and server.rs together do what LazyMount does with the offer alone.
ImplementsLazyMount == Whole!Spec

\* A mount that was made while this client daemon runs never shows the folder
\* of another share than it is named after: from the port that shares.rs picks,
\* through manifest, reply and mount table, to the share served on the port.
ShowsItsFolder ==
    daemon = "running" =>
        \A k \in Whole!Server!Mounted \cap current, t \in Serving(shares) :
            shares[t].port = mounts[k] => t = k[2]

\* "Compare the manifest against current mounts and mount/unmount as needed"
\* (server.rs:196): a share that stays on one port of a client that stays in
\* reach ends up mounted from that port.  False: reconcile_mounts compares names,
\* so a share that was removed and added again between two polls, or comes on
\* another port after a restart, keeps its mount on the old port for good.
MountsFollow ==
    \A s \in Share, p \in Port :
        <>[](daemon = "running" /\ link = "up" /\ Tunneled /\ server_daemon = "running"
                /\ Offered(s) = p)
            => <>[](mounts[<<Host, s>>] = p)

=============================================================================
