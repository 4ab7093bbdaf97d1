-------------------------- MODULE ProcessLifecycle --------------------------
(***************************************************************************)
(* What a monitored subprocess promises to the code that started it: it is *)
(* kept up while it is wanted; once it is unwanted it may come up at most  *)
(* one more time; and it ends, for good.  ManagedProcess implements this.  *)
(***************************************************************************)
EXTENDS Naturals

CONSTANT Proc       \* the managed subprocesses

VARIABLES
    state,          \* what the child is doing
    wanted,         \* is the handle still held?
    grace           \* may the child be started again?

vars == <<state, wanted, grace>>

TypeOK ==
    /\ state \in [Proc -> {"unborn", "up", "down", "gone"}]
    /\ wanted \in [Proc -> BOOLEAN]
    /\ grace \in [Proc -> BOOLEAN]

Init ==
    /\ state = [p \in Proc |-> "unborn"]
    /\ wanted = [p \in Proc |-> FALSE]
    /\ grace = [p \in Proc |-> FALSE]

Start(p) ==
    /\ state[p] = "unborn"
    /\ state' = [state EXCEPT ![p] = "up"]
    /\ wanted' = [wanted EXCEPT ![p] = TRUE]
    /\ grace' = [grace EXCEPT ![p] = TRUE]

\* The child exits by itself.
Drop(p) ==
    /\ state[p] = "up"
    /\ state' = [state EXCEPT ![p] = "down"]
    /\ UNCHANGED <<wanted, grace>>

\* A restart of an unwanted child is the last one.
Restart(p) ==
    /\ state[p] = "down"
    /\ grace[p]
    /\ state' = [state EXCEPT ![p] = "up"]
    /\ grace' = [grace EXCEPT ![p] = wanted[p]]
    /\ UNCHANGED wanted

\* A child that is up is ended only when it is unwanted.
End(p) ==
    /\ \/ state[p] = "down"
       \/ state[p] = "up" /\ ~wanted[p]
    /\ state' = [state EXCEPT ![p] = "gone"]
    /\ grace' = [grace EXCEPT ![p] = FALSE]
    /\ UNCHANGED wanted

Withdraw(p) ==
    /\ wanted[p]
    /\ wanted' = [wanted EXCEPT ![p] = FALSE]
    /\ \E g \in {FALSE, grace[p]} : grace' = [grace EXCEPT ![p] = g]
    /\ UNCHANGED state

\* An unwanted child that is down will not be started again after all.
Relent(p) ==
    /\ ~wanted[p]
    /\ grace[p]
    /\ grace' = [grace EXCEPT ![p] = FALSE]
    /\ UNCHANGED <<state, wanted>>

Next ==
    \E p \in Proc :
        \/ Start(p)
        \/ Drop(p)
        \/ Restart(p)
        \/ End(p)
        \/ Withdraw(p)
        \/ Relent(p)

Spec == Init /\ [][Next]_vars

\* An unwanted child is ended.
FairSpec == Spec /\ \A p \in Proc : WF_vars(~wanted[p] /\ End(p))

=============================================================================
