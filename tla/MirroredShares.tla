--------------------------- MODULE MirroredShares ---------------------------
(***************************************************************************)
(* What a server promises about its mount points.  Now and then it takes   *)
(* what a client offers at that moment, and some time later it mounts what *)
(* is new on it and unmounts what is no more, all at once.  It unmounts    *)
(* everything only after a long silence or because it is being stopped.    *)
(* There is nothing else it does to a mount point, which shows one share   *)
(* at most.  How it polls, what it counts and what it compares is left     *)
(* out: ServerDaemon implements this.                                      *)
(***************************************************************************)

CONSTANTS
    Client,
    Share,          \* a mount point is named for its share
    Port,
    Unreliable,     \* the shares whose mounting may fail
    None

VARIABLES
    offered,        \* what is offered now, and by whom
    taken,          \* what the server has taken and not yet applied
    points,         \* what is mounted on each mount point
    silent,         \* has no answer come for the grace period (as a u32)?
    server          \* up, closing, closed, ended

vars == <<offered, taken, points, silent, server>>

Offer == [client : Client, shares : [Share -> Port \cup {None}]]

Empty == [s \in Share |-> None]

Init ==
    /\ offered \in Offer
    /\ taken = None
    /\ points = Empty
    /\ silent \in BOOLEAN
    /\ server = "up"

\* The client, or whoever takes its place, offers something else.
Change ==
    /\ offered' \in Offer
    /\ UNCHANGED <<taken, points, silent, server>>

Silence ==
    /\ silent' = TRUE
    /\ UNCHANGED <<offered, taken, points, server>>

\* An answer that tells nothing new, or nothing at all.
Hear ==
    /\ server # "ended"
    /\ silent' = FALSE
    /\ UNCHANGED <<offered, taken, points, server>>

Take ==
    /\ server # "ended"
    /\ taken = None
    /\ taken' = offered
    /\ UNCHANGED silent \/ silent' = FALSE
    /\ UNCHANGED <<offered, points, server>>

\* A mount point once o is applied and the shares in `broken` did not mount.
Applied(o, broken, s) ==
    CASE points[s] # None /\ o.shares[s] = None /\ points[s].client = o.client -> None
      [] points[s] = None /\ o.shares[s] # None /\ s \notin broken
            -> [client |-> o.client, port |-> o.shares[s]]
      [] OTHER -> points[s]

Apply ==
    /\ server # "ended"
    /\ taken # None
    /\ \E broken \in SUBSET Unreliable :
          points' = [s \in Share |-> Applied(taken, broken, s)]
    /\ taken' = None
    /\ UNCHANGED <<offered, silent, server>>

GiveUp ==
    /\ server # "ended"
    /\ silent
    /\ points' = Empty
    /\ UNCHANGED <<offered, taken, silent, server>>

Close ==
    /\ server = "up"
    /\ server' = "closing"
    /\ UNCHANGED <<offered, taken, points, silent>>

Clear ==
    /\ server = "closing"
    /\ server' = "closed"
    /\ points' = Empty
    /\ UNCHANGED <<offered, taken, silent>>

\* It may end before everything is unmounted.
End ==
    /\ server \in {"closing", "closed"}
    /\ server' = "ended"
    /\ \E left \in SUBSET Share :
          /\ server = "closed" => left = Share
          /\ points' = [s \in Share |-> IF s \in left THEN points[s] ELSE None]
    /\ UNCHANGED <<offered, taken, silent>>

Next ==
    \/ Change
    \/ Silence
    \/ Hear
    \/ Take
    \/ Apply
    \/ GiveUp
    \/ Close
    \/ Clear
    \/ End

Spec == Init /\ [][Next]_vars

=============================================================================
