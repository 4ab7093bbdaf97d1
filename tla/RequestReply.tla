---------------------------- MODULE RequestReply ----------------------------
(***************************************************************************)
(* What the control socket promises to whoever sends requests over it: a   *)
(* request is performed once at most, those of one caller in the order he  *)
(* sent them; the i-th answer tells how the i-th request went; and once    *)
(* the caller is gone, one request more may be performed, and no second.   *)
(* ControlSocket implements this.                                          *)
(***************************************************************************)
EXTENDS Naturals

CONSTANTS
    Caller,
    Outcome,        \* what a request may lead to
    MaxRequests,    \* what one caller sends at most
    None            \* not performed, not answered

VARIABLES
    phase,          \* idle, open or closed
    sent,           \* requests of each caller
    outcome,        \* how those that were performed went
    answer,         \* what he has been told
    credit          \* may a request of his still be performed?

vars == <<phase, sent, outcome, answer, credit>>

Index == 1 .. MaxRequests

Unknown == [i \in Index |-> None]

\* The requests of f before i are settled, and i is not.
IsNext(f, i) ==
    /\ f[i] = None
    /\ \A j \in Index : j < i => f[j] # None

Init ==
    /\ phase = [c \in Caller |-> "idle"]
    /\ sent = [c \in Caller |-> 0]
    /\ outcome = [c \in Caller |-> Unknown]
    /\ answer = [c \in Caller |-> Unknown]
    /\ credit = [c \in Caller |-> FALSE]

Open(c) ==
    /\ phase[c] = "idle"
    /\ phase' = [phase EXCEPT ![c] = "open"]
    /\ credit' = [credit EXCEPT ![c] = TRUE]
    /\ UNCHANGED <<sent, outcome, answer>>

\* The caller cannot be served at all.
Fail(c) ==
    /\ phase[c] = "idle"
    /\ phase' = [phase EXCEPT ![c] = "closed"]
    /\ UNCHANGED <<sent, outcome, answer, credit>>

Submit(c) ==
    /\ phase[c] = "open"
    /\ sent[c] < MaxRequests
    /\ sent' = [sent EXCEPT ![c] = @ + 1]
    /\ UNCHANGED <<phase, outcome, answer, credit>>

Perform(c) ==
    /\ credit[c]
    /\ \E i \in Index, o \in Outcome :
        /\ i <= sent[c]
        /\ IsNext(outcome[c], i)
        /\ outcome' = [outcome EXCEPT ![c] = [@ EXCEPT ![i] = o]]
    /\ credit' = [credit EXCEPT ![c] = phase[c] = "open"]
    /\ UNCHANGED <<phase, sent, answer>>

Deliver(c) ==
    /\ phase[c] = "open"
    /\ \E i \in Index :
        /\ IsNext(answer[c], i)
        /\ outcome[c][i] # None
        /\ answer' = [answer EXCEPT ![c] = [@ EXCEPT ![i] = outcome[c][i]]]
    /\ UNCHANGED <<phase, sent, outcome, credit>>

\* The caller leaves, or is cut off; nothing may be left to perform.
Close(c) ==
    /\ phase[c] = "open"
    /\ phase' = [phase EXCEPT ![c] = "closed"]
    /\ credit' \in {credit, [credit EXCEPT ![c] = FALSE]}
    /\ UNCHANGED <<sent, outcome, answer>>

\* What callers that are gone have sent is not performed any more: the end of
\* a connection, or of all connections of a daemon.
Lapse ==
    /\ \E C \in SUBSET {c \in Caller : phase[c] = "closed"} :
        credit' = [c \in Caller |-> credit[c] /\ c \notin C]
    /\ UNCHANGED <<phase, sent, outcome, answer>>

Next ==
    \/ \E c \in Caller :
        \/ Open(c)
        \/ Fail(c)
        \/ Submit(c)
        \/ Perform(c)
        \/ Deliver(c)
        \/ Close(c)
    \/ Lapse

Spec == Init /\ [][Next]_vars

=============================================================================
