----------------------------- MODULE ShareOffer -----------------------------
(***************************************************************************)
(* What a client shows to its server: in each session, from one start of   *)
(* the daemon to its end, shares come and go, one at a time, and a port is *)
(* given out once at most.  A new session begins with nothing, and gives   *)
(* out the same ports again.  ClientDaemon implements this.                *)
(***************************************************************************)
EXTENDS Naturals

CONSTANTS
    Share,
    MaxPort,
    None

VARIABLES
    session,        \* is there one?
    offer,          \* the port of each share on the manifest
    next            \* no port from here on has been given out

vars == <<session, offer, next>>

NoOffer == [s \in Share |-> None]

Init ==
    /\ session = FALSE
    /\ offer = NoOffer
    /\ next = 0

Begin ==
    /\ ~session
    /\ session' = TRUE
    /\ UNCHANGED <<offer, next>>

Add(s) ==
    /\ session
    /\ offer[s] = None
    /\ \E p \in next .. MaxPort :
        /\ offer' = [offer EXCEPT ![s] = p]
        /\ next' = p + 1
    /\ UNCHANGED session

\* A port is used up and leads to nothing.
Skip ==
    /\ session
    /\ next' \in (next + 1) .. (MaxPort + 1)
    /\ UNCHANGED <<session, offer>>

Withdraw(s) ==
    /\ session
    /\ offer[s] # None
    /\ offer' = [offer EXCEPT ![s] = None]
    /\ UNCHANGED <<session, next>>

End ==
    /\ session
    /\ session' = FALSE
    /\ offer' = NoOffer
    /\ next' = 0

Next ==
    \/ Begin
    \/ \E s \in Share :
        \/ Add(s)
        \/ Withdraw(s)
    \/ Skip
    \/ End

Spec == Init /\ [][Next]_vars

=============================================================================
