---------------------------- MODULE MCTwoDaemons ----------------------------
(* TwoDaemons with the symmetry, the bounds and the view of its run. *)
EXTENDS TwoDaemons, TLC

\* Shares are only compared with each other.
Symmetry == Permutations(Share)

\* What is checked and not continued: a second killed chisel client beside the
\* first, requests during the boot, a link that seems up when the tunnel is gone
\* (it may go down before), a configuration without the remote, a server that is
\* shut down.
Bounds ==
    /\ Cardinality(old) <= 1
    /\ boot = "ready" \/ pending = Nothing(Handler)
    /\ link = "up" => Tunneled
    /\ Here \in {r \in Remote : disk.remotes[r] # "none"}
    /\ server_daemon = "running"

\* States are one that differ in what no guard reads and no property tells apart:
\* which remotes a share is for, as there is only one, and what chisel clients
\* forward, as the way to the server does not depend on it; the status of a
\* remote that is not removed; in the configuration, see MCClientDaemon; in the
\* stop-watch, which no guard reads; and in the history when it is not read.
Ports == [s \in Share |-> IF shares[s] = None THEN None ELSE shares[s].port]

Asked ==
    [h \in Handler |->
        IF pending[h] = None THEN None ELSE <<pending[h].op, pending[h].name>>]

Written(c) == <<c.remotes, Serving(c.shares)>>

clientView ==
    <<daemon, boot, todo, Written(saved), IF daemon = "off" THEN Written(disk) ELSE None,
      Known, Ports, next_port, manifest, Asked, Connected, Cardinality(old)>>

View ==
    <<clientView, link, mounts, last_manifest, consecutive_failures, poller, wait, reply,
      server_daemon, IF reply = None THEN None ELSE fresh,
      IF daemon = "running" THEN current ELSE None>>

\* For a run that looks for one behaviour: no views or symmetry, but shares for
\* all remotes only, and a client that connects by itself and is not shut down.
OneWay ==
    /\ Bounds
    /\ daemon # "stopped"
    /\ disk.remotes[Here] = "auto"
    /\ \A s \in Share : disk.shares[s] \in {None, {}}

=============================================================================
