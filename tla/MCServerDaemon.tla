---------------------------- MODULE MCServerDaemon ----------------------------
(* ServerDaemon with the symmetry of its three sets of names. *)
EXTENDS ServerDaemon, TLC

\* Clients, share names and ports are only compared with each other, unless a
\* share is Flaky: the configurations that use this set make all or none so.
Symmetry == Permutations(Client) \cup Permutations(Share) \cup Permutations(Port)

=============================================================================
