------------------------------ MODULE LazyMount ------------------------------
(***************************************************************************)
(* The two daemons together: the client as ShareOffer has it, which        *)
(* ClientDaemon implements, and the server of ServerDaemon, which learns   *)
(* of the client's shares only by polling, and may take what it learnt in  *)
(* one session of the client into the next.                                *)
(*                                                                         *)
(* The tunnel port of a share is its SFTP port plus a constant: they are   *)
(* one here, as in ClientDaemon (PortAllocator has the arithmetic).        *)
(***************************************************************************)
EXTENDS Integers

CONSTANTS
    Host,           \* the client's name in its manifest
    Share,
    MaxPort,
    Flaky, LinkStates, Interval, Timeout, Grace, Words, FailureCap, Horizon,
    None

VARIABLES
    link, offered, mounts, last_manifest, consecutive_failures, poller, wait,
    reply, daemon, quiet,       \* of ServerDaemon
    session, offer, next,       \* of ShareOffer
    fresh,          \* was reply taken in this session of the client?
    current         \* the mounts that were made from such a reply.
                    \* Both are read by properties only

Server == INSTANCE ServerDaemon WITH Client <- {Host}, Port <- 0 .. MaxPort

\* What the parts assume of the bounds (see ServerAssumption).  Whoever
\* implements this specification has to grant it.
LazyMountAssumption ==
    /\ MaxPort \in Nat
    /\ None \notin 0 .. MaxPort
    /\ None \notin [client : {Host}, shares : [Share -> 0 .. MaxPort \cup {None}]]
    /\ None \notin [client : {Host}, port : 0 .. MaxPort]
    /\ LinkStates \subseteq Server!AllLinkStates
    /\ {"up", "down"} \subseteq LinkStates
    /\ Flaky \subseteq Share
    /\ Interval \in Nat \ {0}
    /\ Timeout \in Nat
    /\ Grace \in Nat
    /\ FailureCap \in Nat \ {0}
    /\ Words \in Nat \ {0}
    /\ FailureCap * Interval \in Server!GracePeriod .. Words - 1
    /\ Horizon \in Nat
    /\ Horizon >= (FailureCap + 1) * Interval

ClientSide == INSTANCE ShareOffer

polling == <<last_manifest, consecutive_failures, poller, wait, reply, quiet>>
server == <<link, offered, mounts, polling, daemon>>
client == <<session, offer, next>>
history == <<fresh, current>>
vars == <<server, client, history>>

\* The manifest of a client that offers o.
Shown(o) == [client |-> Host, shares |-> o]

Init ==
    /\ Server!Init
    /\ ClientSide!Init
    /\ offered = Shown(offer)
    /\ fresh = FALSE
    /\ current = {}

-----------------------------------------------------------------------------
(* The client, and the tunnel to it *)

\* A client that was not there does not answer yet.
ClientBegins ==
    /\ ClientSide!Begin
    /\ link \in {"down", "slow"}
    /\ offered' = Shown(offer')
    /\ fresh' = FALSE
    /\ current' = {}
    /\ UNCHANGED <<link, mounts, polling, daemon>>

\* The manifest is answered from the daemon's state.
ClientChanges ==
    /\ \/ \E s \in Share : ClientSide!Add(s) \/ ClientSide!Withdraw(s)
       \/ ClientSide!Skip
    /\ offered' = Shown(offer')
    /\ UNCHANGED <<link, mounts, polling, daemon, history>>

\* The session ends with the shutdown branch, which leaves the manifest, or with
\* the process.  Until the process ends the manifest may be answered, with what
\* requests that are still served make of it.
ClientEnds ==
    /\ ClientSide!End
    /\ offered' \in Server!Manifest
    /\ UNCHANGED <<link, mounts, polling, daemon, history>>

ClientLingers ==
    /\ ~session
    /\ \E m \in Server!Manifest : Server!ClientChanges(m)
    /\ UNCHANGED <<client, history>>

\* The tunnel may come up again after the shutdown branch.
LinkChanges(l) ==
    /\ Server!LinkChanges(l)
    /\ UNCHANGED <<client, history>>

-----------------------------------------------------------------------------
(* The server *)

PollManifest ==
    /\ Server!PollManifest
    /\ fresh' = session
    /\ UNCHANGED <<client, current>>

Reconcile ==
    /\ Server!Reconcile
    /\ current' = {k \in Server!Mounted' :
                      IF k \in Server!Mounted THEN k \in current ELSE fresh}
    /\ UNCHANGED <<client, fresh>>

\* The other steps of the poll loop, the clock, and the end of the daemon.
Tick == Server!Tick /\ UNCHANGED <<client, history>>

PollOther ==
    /\ \/ Server!PollStart
       \/ Server!PollGarbled
       \/ Server!PollFailed
       \/ Server!Expire
    /\ UNCHANGED <<client, history>>

ServerEnds ==
    /\ Server!Signal \/ Server!Shutdown \/ Server!Exit
    /\ UNCHANGED <<client, history>>

-----------------------------------------------------------------------------

Next ==
    \/ ClientBegins
    \/ ClientChanges
    \/ ClientEnds
    \/ ClientLingers
    \/ \E l \in LinkStates : LinkChanges(l)
    \/ PollManifest
    \/ Reconcile
    \/ Tick
    \/ PollOther
    \/ ServerEnds

Spec == Init /\ [][Next]_vars

-----------------------------------------------------------------------------
(* Properties *)

\* A mount that was made in this session of the client never shows the folder
\* of another share, not even between a change on the client and the poll that
\* finds it out: shares.rs gives out no port twice.
OwnFolder ==
    session =>
        \A k \in Server!Mounted \cap current, t \in Share :
            offer[t] = mounts[k] => t = k[2]

=============================================================================
