---------------------------- MODULE MCClientDaemon ----------------------------
(* ClientDaemon with the symmetry, the bound and the view of its runs. *)
EXTENDS ClientDaemon, TLC

\* Remotes are only told apart by Removable, which is none or all of them;
\* handlers are only compared.
Symmetry ==
    Permutations(Remote) \cup Permutations(Share) \cup Permutations(Handler)

\* Killed chisel clients that linger at the same time.
FewOld == Cardinality(old) <= 1

\* While the daemon runs, config and disk are written but read by no guard, and
\* Init starts it with every configuration: for an invariant that does not look
\* at them, states that differ in nothing else are one.
View ==
    <<daemon, booting, runtime, pending,
      IF daemon = "off" THEN disk ELSE EmptyConfig>>

=============================================================================
