---------------------------- MODULE PortAllocator ----------------------------
(***************************************************************************)
(* How the client daemon gets a port for each share (find_available_port   *)
(* in process.rs, add_share in shares.rs, and the tunnel port computed     *)
(* from it in client.rs).  A port is probed now and bound later by a child *)
(* process, so other programs, the children being killed, and children     *)
(* that outlived a daemon which was killed compete for it.                 *)
(*                                                                         *)
(* Ports are words: sums and differences wrap, as in a release build.      *)
(* mounts.rs:61 allocates its rc ports in the same way.                    *)
(***************************************************************************)
EXTENDS Integers, FiniteSets

CONSTANTS
    Share,
    MaxPort,        \* the largest word (65535)
    Span,           \* how far find_available_port looks (100)
    SftpStart,      \* sftp_port_range_start (2222)
    TunnelStart,    \* tunnel_port_range_start (3222)
    Control,        \* control_port (3200)
    Contested,      \* the ports other programs may take
    MaxStrays,      \* bound on the children that belong to no share
    None

Port == 0 .. MaxPort

\* Nothing is assumed of how the ranges lie, as config.rs takes any words; but
\* an SFTP range is not to begin at 0, where rclone would choose its port.
ASSUME PortAssumption ==
    /\ MaxPort \in Nat
    /\ Span \in Nat
    /\ SftpStart \in Port \ {0} /\ TunnelStart \in Port /\ Control \in Port
    /\ Contested \subseteq Port \ {0}
    /\ MaxStrays \in Nat
    /\ None \notin Port

VARIABLES
    running,        \* is there a daemon?
    next,           \* ShareManager.next_sftp_port
    share,          \* the port of each share that is served
    child,          \* its rclone: none, starting, bound, down, or gone for good
    stray,          \* the rclones of no share: killed, or left by a daemon
    others,         \* ports that other programs hold
    wrapped         \* has next passed MaxPort?  Read by properties only

vars == <<running, next, share, child, stray, others, wrapped>>

-----------------------------------------------------------------------------

Served == {s \in Share : share[s] # None}

Bound == {s \in Served : child[s] = "bound"}

\* An rclone of no share: "killed" by this daemon, which its monitor has still
\* to carry out; an "orphan" that was listening when its daemon went, or a
\* "latecomer" that was not.
Stray == [port : Port, kind : {"killed", "orphan", "latecomer"}, bound : BOOLEAN]

\* The ports somebody listens on.  To listen on 0 is to get a port of one's own.
Held ==
    ({share[s] : s \in Bound} \cup {x.port : x \in {y \in stray : y.bound}} \cup others)
        \ {0}

TypeOK ==
    /\ running \in BOOLEAN
    /\ next \in Port
    /\ share \in [Share -> Port \cup {None}]
    /\ child \in [Share -> {"none", "starting", "bound", "down", "gone"}]
    /\ stray \subseteq Stray
    /\ others \subseteq Contested
    /\ wrapped \in BOOLEAN

NoShares ==
    /\ share' = [s \in Share |-> None]
    /\ child' = [s \in Share |-> "none"]
    /\ next' = SftpStart
    /\ wrapped' = FALSE

Init ==
    /\ running = FALSE
    /\ next = SftpStart
    /\ share = [s \in Share |-> None]
    /\ child = [s \in Share |-> "none"]
    /\ stray = {}
    /\ others \in SUBSET Contested
    /\ wrapped = FALSE

-----------------------------------------------------------------------------
(* find_available_port and add_share *)

\* Mutant of IsAvailable: the probe is left out.
IsAlwaysAvailable(p) == TRUE

\* is_port_available: the port can be bound, and is released again.
IsAvailable(p) == p \notin Held

\* start ..= start.saturating_add(Span)
Scan == {p \in Port : next <= p /\ p <= next + Span}

\* find_available_port(next) returns p.
Finds(p) ==
    /\ p \in Scan
    /\ IsAvailable(p)
    /\ \A q \in Scan : q < p => ~IsAvailable(q)

\* Mutants of NextPort: the port after the one the search began with; a counter
\* wider than a port.
NextSearch(p) == IF next = MaxPort THEN 0 ELSE next + 1

NextPortWide(p) == p + 1

\* next_sftp_port once p was found.
NextPort(p) == IF p = MaxPort THEN 0 ELSE p + 1

\* The share is served on p, or its rclone could not be spawned: the port is
\* used up either way.
AddShare(s) ==
    /\ running
    /\ share[s] = None
    /\ \E p \in Port :
        /\ Finds(p)
        /\ next' = NextPort(p)
        /\ wrapped' = (wrapped \/ p = MaxPort)
        /\ \/ /\ share' = [share EXCEPT ![s] = p]
              /\ child' = [child EXCEPT ![s] = "starting"]
           \/ UNCHANGED <<share, child>>
    /\ UNCHANGED <<running, stray, others>>

\* Mutant of TunnelPort: the addition saturates, as that of the scan does.
TunnelPortSaturating(p) ==
    IF TunnelStart + p - SftpStart > MaxPort THEN MaxPort
    ELSE TunnelStart + p - SftpStart

\* Where the server finds the share: the sum is one of words, and so is the
\* difference in it.
TunnelPort(p) == (TunnelStart + p - SftpStart) % (MaxPort + 1)

\* The rclone of s once it is signalled.  One that is down may have been about
\* to start again, and may do so once (ManagedProcess); one that is gone has no
\* monitor to be told.
Signalled(s) ==
    {x \in {[port |-> share[s], kind |-> "killed", bound |-> s \in Bound]} :
        child[s] # "gone"}

\* remove_share: the rclone is signalled.
RemoveShare(s) ==
    /\ running
    /\ s \in Served
    /\ Cardinality(stray) < MaxStrays
    /\ share' = [share EXCEPT ![s] = None]
    /\ child' = [child EXCEPT ![s] = "none"]
    /\ stray' = stray \cup Signalled(s)
    /\ UNCHANGED <<running, next, others, wrapped>>

-----------------------------------------------------------------------------
(* The rclones of the shares *)

Binds(s) ==
    /\ child[s] = "starting"
    /\ share[s] \notin Held
    /\ child' = [child EXCEPT ![s] = "bound"]
    /\ UNCHANGED <<running, next, share, stray, others, wrapped>>

\* rclone cannot listen on its port and exits, or it crashes later.
Fails(s) ==
    /\ \/ child[s] = "starting" /\ share[s] \in Held
       \/ child[s] = "bound"
    /\ child' = [child EXCEPT ![s] = "down"]
    /\ UNCHANGED <<running, next, share, stray, others, wrapped>>

\* The monitor starts it again on the port it was given at first.
Restarts(s) ==
    /\ child[s] = "down"
    /\ child' = [child EXCEPT ![s] = "starting"]
    /\ UNCHANGED <<running, next, share, stray, others, wrapped>>

\* Or the spawn fails, and the monitor ends: the share is served, by nobody.
RestartFails(s) ==
    /\ child[s] = "down"
    /\ child' = [child EXCEPT ![s] = "gone"]
    /\ UNCHANGED <<running, next, share, stray, others, wrapped>>

\* Mutant of Monitors: restart_on_crash is not set.
MonitorsNot(s) == FALSE

\* The monitor of an rclone that is down, once its delay is over.
Monitors(s) == Restarts(s) \/ RestartFails(s)

-----------------------------------------------------------------------------
(* The daemon, the rclones of no share, and other programs *)

Start ==
    /\ ~running
    /\ running' = TRUE
    /\ UNCHANGED <<next, share, child, stray, others, wrapped>>

\* kill_on_drop takes its children along; those of an earlier daemon stay.
Exit ==
    /\ running
    /\ running' = FALSE
    /\ stray' = {x \in stray : x.kind # "killed"}
    /\ NoShares
    /\ UNCHANGED others

\* The daemon is killed, or aborts: what it started goes on.
LeftAlone(b) == IF b THEN "orphan" ELSE "latecomer"

Abandoned ==
    {x \in stray : x.kind # "killed"}
        \cup {[x EXCEPT !.kind = LeftAlone(x.bound)] : x \in {y \in stray : y.kind = "killed"}}
        \cup {[port |-> share[s], kind |-> LeftAlone(s \in Bound), bound |-> s \in Bound] :
                s \in {t \in Served : child[t] \notin {"down", "gone"}}}

Crash ==
    /\ running
    /\ Cardinality(Abandoned) <= MaxStrays
    /\ running' = FALSE
    /\ stray' = Abandoned
    /\ NoShares
    /\ UNCHANGED others

StrayBinds(x) ==
    /\ x \in stray
    /\ ~x.bound
    /\ x.port \notin Held
    /\ stray' = (stray \ {x}) \cup {[x EXCEPT !.bound = TRUE]}
    /\ UNCHANGED <<running, next, share, child, others, wrapped>>

\* It is killed, or exits because its port is taken.
StrayEnds(x) ==
    /\ x \in stray
    /\ stray' = stray \ {x}
    /\ UNCHANGED <<running, next, share, child, others, wrapped>>

OthersChange(p) ==
    /\ others' \in {others \ {p}, others \cup ({p} \ Held)}
    /\ others' # others
    /\ UNCHANGED <<running, next, share, child, stray, wrapped>>

-----------------------------------------------------------------------------

Next ==
    \/ \E s \in Share :
        \/ AddShare(s)
        \/ RemoveShare(s)
        \/ Binds(s)
        \/ Fails(s)
        \/ Monitors(s)
    \/ \E x \in stray :
        \/ StrayBinds(x)
        \/ StrayEnds(x)
    \/ \E p \in Contested : OthersChange(p)
    \/ Start
    \/ Exit
    \/ Crash

Spec == Init /\ [][Next]_vars

\* An rclone that can listen does, and a monitor tries to restart one that is
\* down.  That it succeeds is not assumed.
FairSpec ==
    /\ Spec
    /\ \A s \in Share : WF_vars(Binds(s)) /\ WF_vars(Monitors(s))

-----------------------------------------------------------------------------
(* Safety *)

\* As in the default configuration, the control port lies below the tunnel
\* ports, and above those that wrap.  config.rs does not see to it.
ControlInGap == TunnelStart - SftpStart <= Control /\ Control < TunnelStart

\* The tunnel of a share does not lead to another share; nor does it take the
\* place of the control port on the server, where that is in the gap.  Shares
\* that are served at the same time have ports of their own, although the probe
\* finds a port free until its rclone listens, until next_sftp_port wraps: then
\* only the probe is left.
TunnelsApart ==
    ~wrapped =>
        \A s \in Served :
            /\ ControlInGap => TunnelPort(share[s]) # Control
            /\ \A t \in Served : TunnelPort(share[s]) = TunnelPort(share[t]) => s = t

\* What listens on the port of a share is not the rclone of a share that was
\* removed, nor one an earlier daemon left listening: that would serve another
\* folder under this share's name.  An rclone which had not yet got its port
\* when its daemon was killed may come in between the probe and the use.
NoStrayAnswers ==
    ~wrapped =>
        \A s \in Served, x \in stray :
            x.bound /\ x.port = share[s] => x.kind = "latecomer"

\* The client as its server sees it: ports count from the start of the range.
Offer == INSTANCE ShareOffer WITH
    session <- running,
    offer <- [s \in Share |-> IF share[s] = None THEN None ELSE share[s] - SftpStart],
    next <- (IF wrapped THEN MaxPort + 1 ELSE next) - SftpStart,
    MaxPort <- MaxPort - SftpStart

\* find_available_port and add_share give a port out once in the life of a
\* daemon, as ShareOffer has it, whoever else binds ports, crashes or stays
\* behind.  That is so until the counter has wrapped, and for that step too.
OffersUntilWrap ==
    Offer!Init /\ [][~wrapped => Offer!Next \/ UNCHANGED Offer!vars]_vars

-----------------------------------------------------------------------------
(* Liveness *)

\* Nobody but s can listen on the port of s.
Alone(s) ==
    /\ s \in Served
    /\ share[s] \notin others
    /\ \A x \in stray : x.bound => x.port # share[s]
    /\ \A t \in Bound \ {s} : share[t] # share[s]

\* A share whose port was taken by another listens on it again and again once
\* the port stays free, unless its monitor has given up: a crash that is not
\* followed by a failed spawn (process.rs:233) does not cost the share its port.
GetsItsPort ==
    \A s \in Share : <>[](Alone(s) /\ child[s] # "gone") => []<>(s \in Bound)

=============================================================================
