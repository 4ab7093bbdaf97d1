---------------------------- MODULE ControlSocket ----------------------------
(***************************************************************************)
(* The control socket of a daemon (crates/lazymount-core/src/control.rs),  *)
(* the command-line program at its other end (lazymount-cli/src/main.rs),  *)
(* and the daemons of one role that are started on a machine.              *)
(*                                                                         *)
(* Every connection is served by a task of its own, which reads one line,  *)
(* lets the daemon handle the request, writes one line and goes on.  A     *)
(* handler counts as one step here; ClientDaemon has what it does.  Empty  *)
(* lines are skipped by the code and left out.  The command-line program   *)
(* sends one request and no garbage; others may go on.                     *)
(***************************************************************************)
EXTENDS Naturals

CONSTANTS
    Daemon,         \* processes, each started once
    Caller,         \* connections
    Program,        \* those of the command-line program
    Stopper,        \* the callers that send Shutdown
    MaxRequests,    \* requests of one caller
    None

Outcome == {"Ok", "Error"}

ASSUME SocketAssumption ==
    /\ Program \subseteq Caller
    /\ Stopper \subseteq Caller
    /\ MaxRequests \in Nat \ {0}
    /\ None \notin Daemon
    /\ None \notin Outcome

VARIABLES
    daemon,         \* off, starting, binding, listening, deaf, ended
    path,           \* the daemon whose listener the socket file leads to
    conn,           \* the caller: idle, open, left, lost or failed
    peer,           \* the daemon he is connected to
    sent,           \* the requests he has written
    garbage,        \* has he written a line that is no request after them?
    got,            \* the answers he has read
    task,           \* where handle_connection stands
    taken,          \* the requests it has read
    response,       \* its local of this name
    stream,         \* the answers it has written, in order
    written,        \* how many
    outcome         \* how each request went, read by properties only

caller == <<conn, peer, sent, garbage, got>>
serving == <<task, taken, response, stream, written, outcome>>
vars == <<daemon, path, caller, serving>>

-----------------------------------------------------------------------------

Index == 1 .. MaxRequests

Unknown == [i \in Index |-> None]

Listening == {d \in Daemon : daemon[d] = "listening"}

Ended == {d \in Daemon : daemon[d] = "ended"}

\* The task of this connection can run.
Reached(c) == peer[c] \in Listening

TypeOK ==
    /\ daemon \in [Daemon -> {"off", "starting", "binding", "listening", "deaf", "ended"}]
    /\ path \in Daemon \cup {None}
    /\ conn \in [Caller -> {"idle", "open", "left", "lost", "failed"}]
    /\ peer \in [Caller -> Daemon \cup {None}]
    /\ sent \in [Caller -> 0 .. MaxRequests]
    /\ garbage \in [Caller -> BOOLEAN]
    /\ got \in [Caller -> 0 .. MaxRequests]
    /\ task \in [Caller -> {"none", "read", "handle", "write", "ended"}]
    /\ taken \in [Caller -> 0 .. MaxRequests]
    /\ response \in [Caller -> Outcome \cup {None}]
    /\ stream \in [Caller -> [Index -> Outcome \cup {None}]]
    /\ written \in [Caller -> 0 .. MaxRequests]
    /\ outcome \in [Caller -> [Index -> Outcome \cup {None}]]

Init ==
    /\ daemon = [d \in Daemon |-> "off"]
    /\ path = None
    /\ conn = [c \in Caller |-> "idle"]
    /\ peer = [c \in Caller |-> None]
    /\ sent = [c \in Caller |-> 0]
    /\ garbage = [c \in Caller |-> FALSE]
    /\ got = [c \in Caller |-> 0]
    /\ task = [c \in Caller |-> "none"]
    /\ taken = [c \in Caller |-> 0]
    /\ response = [c \in Caller |-> None]
    /\ stream = [c \in Caller |-> Unknown]
    /\ written = [c \in Caller |-> 0]
    /\ outcome = [c \in Caller |-> Unknown]

-----------------------------------------------------------------------------
(* The daemons *)

\* start_server, start_client: the control socket is bound by a task of its own.
Start(d) ==
    /\ daemon[d] = "off"
    /\ daemon' = [daemon EXCEPT ![d] = "starting"]
    /\ UNCHANGED <<path, caller, serving>>

\* bind_listener first removes the file that is there, whosever it is...
RemoveSocket(d) ==
    /\ daemon[d] = "starting"
    /\ daemon' = [daemon EXCEPT ![d] = "binding"]
    /\ path' = None
    /\ UNCHANGED <<caller, serving>>

\* ... and then binds, unless another daemon has done so meanwhile.
BindSocket(d) ==
    /\ daemon[d] = "binding"
    /\ path = None
    /\ daemon' = [daemon EXCEPT ![d] = "listening"]
    /\ path' = d
    /\ UNCHANGED <<caller, serving>>

\* Either may fail; the error is logged, and the daemon goes on without a socket.
BindFails(d) ==
    /\ daemon[d] \in {"starting", "binding"}
    /\ daemon' = [daemon EXCEPT ![d] = "deaf"]
    /\ UNCHANGED <<path, caller, serving>>

BindListener(d) == RemoveSocket(d) \/ BindSocket(d) \/ BindFails(d)

\* Ctrl+C, or any other end; the socket file stays.  Its tasks are gone.
Exit(d) ==
    /\ daemon[d] \in {"starting", "binding", "listening", "deaf"}
    /\ daemon' = [daemon EXCEPT ![d] = "ended"]
    /\ task' = [c \in Caller |-> IF peer[c] = d THEN "ended" ELSE task[c]]
    /\ UNCHANGED <<path, caller, taken, response, stream, written, outcome>>

-----------------------------------------------------------------------------
(* The callers: send_request, in its parts *)

Connect(c) ==
    /\ conn[c] = "idle"
    /\ \/ /\ path \in Listening
          /\ conn' = [conn EXCEPT ![c] = "open"]
          /\ peer' = [peer EXCEPT ![c] = path]
       \/ /\ path \notin Listening
          /\ conn' = [conn EXCEPT ![c] = "failed"]
          /\ UNCHANGED peer
    /\ UNCHANGED <<daemon, path, sent, garbage, got, serving>>

SendRequest(c) ==
    /\ conn[c] = "open"
    /\ ~garbage[c]
    /\ sent[c] < IF c \in Program THEN 1 ELSE MaxRequests
    /\ sent' = [sent EXCEPT ![c] = @ + 1]
    /\ UNCHANGED <<daemon, path, conn, peer, garbage, got, serving>>

SendGarbage(c) ==
    /\ c \notin Program
    /\ conn[c] = "open"
    /\ ~garbage[c]
    /\ garbage' = [garbage EXCEPT ![c] = TRUE]
    /\ UNCHANGED <<daemon, path, conn, peer, sent, got, serving>>

ReadAnswer(c) ==
    /\ conn[c] = "open"
    /\ got[c] < written[c]
    /\ got' = [got EXCEPT ![c] = @ + 1]
    /\ UNCHANGED <<daemon, path, conn, peer, sent, garbage, serving>>

\* He has what he wanted, or is interrupted.
Leave(c) ==
    /\ conn[c] = "open"
    /\ conn' = [conn EXCEPT ![c] = "left"]
    /\ UNCHANGED <<daemon, path, peer, sent, garbage, got, serving>>

\* End of file where an answer should be: "invalid response".
SeeEndOfFile(c) ==
    /\ conn[c] = "open"
    /\ task[c] = "ended"
    /\ got[c] = written[c]
    /\ conn' = [conn EXCEPT ![c] = "lost"]
    /\ UNCHANGED <<daemon, path, peer, sent, garbage, got, serving>>

-----------------------------------------------------------------------------
(* serve_control_socket and handle_connection *)

Accept(c) ==
    /\ Reached(c)
    /\ task[c] = "none"
    /\ task' = [task EXCEPT ![c] = "read"]
    /\ UNCHANGED <<daemon, path, caller, taken, response, stream, written, outcome>>

\* Mutants of ReadRequest: the end of file is taken for a line; the buffer still
\* holds the request before, and the two together are none.
ReadPastEnd(c) ==
    /\ Reached(c)
    /\ task[c] = "read"
    /\ taken' = [taken EXCEPT ![c] = @ + 1]
    /\ task' = [task EXCEPT ![c] = "handle"]
    /\ UNCHANGED <<daemon, path, caller, response, stream, written, outcome>>

ReadIntoFullBuffer(c) ==
    /\ Reached(c)
    /\ task[c] = "read"
    /\ taken[c] < sent[c]
    /\ \/ taken[c] = 0 /\ task' = [task EXCEPT ![c] = "handle"]
       \/ taken[c] > 0 /\ task' = [task EXCEPT ![c] = "ended"]
    /\ taken' = [taken EXCEPT ![c] = @ + 1]
    /\ UNCHANGED <<daemon, path, caller, response, stream, written, outcome>>

\* What was written before the caller left is read all the same.
ReadRequest(c) ==
    /\ Reached(c)
    /\ task[c] = "read"
    /\ taken[c] < sent[c]
    /\ taken' = [taken EXCEPT ![c] = @ + 1]
    /\ task' = [task EXCEPT ![c] = "handle"]
    /\ UNCHANGED <<daemon, path, caller, response, stream, written, outcome>>

\* Garbage, end of file, or, once the caller is gone, an error.
EndConnection(c) ==
    /\ Reached(c)
    /\ task[c] = "read"
    /\ \/ garbage[c] /\ taken[c] = sent[c]
       \/ conn[c] # "open"
    /\ task' = [task EXCEPT ![c] = "ended"]
    /\ UNCHANGED <<daemon, path, caller, taken, response, stream, written, outcome>>

\* handle_server_request or handle_client_request.  Shutdown is answered Ok,
\* and that is all.
Handle(c) ==
    /\ Reached(c)
    /\ task[c] = "handle"
    /\ \E o \in Outcome :
        /\ c \in Stopper => o = "Ok"
        /\ response' = [response EXCEPT ![c] = o]
        /\ outcome' = [outcome EXCEPT ![c] = [@ EXCEPT ![taken[c]] = o]]
    /\ task' = [task EXCEPT ![c] = "write"]
    /\ UNCHANGED <<daemon, path, caller, taken, stream, written>>

\* Mutants of WriteAnswer: a failed write is ignored; errors are not answered.
WriteOrGoOn(c) ==
    /\ Reached(c)
    /\ task[c] = "write"
    /\ task' = [task EXCEPT ![c] = "read"]
    /\ \/ /\ conn[c] = "open"
          /\ stream' = [stream EXCEPT ![c] = [@ EXCEPT ![written[c] + 1] = response[c]]]
          /\ written' = [written EXCEPT ![c] = @ + 1]
       \/ conn[c] # "open" /\ UNCHANGED <<stream, written>>
    /\ UNCHANGED <<daemon, path, caller, taken, response, outcome>>

WriteOnlyOk(c) ==
    /\ Reached(c)
    /\ task[c] = "write"
    /\ task' = [task EXCEPT ![c] = "read"]
    /\ \/ /\ response[c] = "Ok"
          /\ stream' = [stream EXCEPT ![c] = [@ EXCEPT ![written[c] + 1] = response[c]]]
          /\ written' = [written EXCEPT ![c] = @ + 1]
       \/ response[c] = "Error" /\ UNCHANGED <<stream, written>>
    /\ UNCHANGED <<daemon, path, caller, taken, response, outcome>>

\* A write to a caller who is gone fails, which ends the task.
WriteAnswer(c) ==
    /\ Reached(c)
    /\ task[c] = "write"
    /\ \/ /\ conn[c] = "open"
          /\ stream' = [stream EXCEPT ![c] = [@ EXCEPT ![written[c] + 1] = response[c]]]
          /\ written' = [written EXCEPT ![c] = @ + 1]
          /\ task' = [task EXCEPT ![c] = "read"]
       \/ /\ conn[c] # "open"
          /\ task' = [task EXCEPT ![c] = "ended"]
          /\ UNCHANGED <<stream, written>>
    /\ UNCHANGED <<daemon, path, caller, taken, response, outcome>>

-----------------------------------------------------------------------------

HandleConnection(c) ==
    \/ Accept(c)
    \/ ReadRequest(c)
    \/ EndConnection(c)
    \/ Handle(c)
    \/ WriteAnswer(c)

Next ==
    \/ \E d \in Daemon :
        \/ Start(d)
        \/ BindListener(d)
        \/ Exit(d)
    \/ \E c \in Caller :
        \/ Connect(c)
        \/ SendRequest(c)
        \/ SendGarbage(c)
        \/ ReadAnswer(c)
        \/ Leave(c)
        \/ SeeEndOfFile(c)
        \/ Accept(c)
        \/ ReadRequest(c)
        \/ EndConnection(c)
        \/ Handle(c)
        \/ WriteAnswer(c)

Spec == Init /\ [][Next]_vars

\* Tasks that are ready are run, handlers return, and a caller who waits for an
\* answer reads it.  Nobody has to connect, send, leave, start or stop.
FairSpec ==
    /\ Spec
    /\ \A d \in Daemon : WF_vars(BindListener(d))
    /\ \A c \in Caller :
        /\ WF_vars(HandleConnection(c))
        /\ WF_vars(ReadAnswer(c) \/ SeeEndOfFile(c))

-----------------------------------------------------------------------------
(* Safety *)

\* A caller who meets the end of file has written garbage, and was answered all
\* he sent before it; or the daemon has ended.  Other callers, and a daemon that
\* takes over the socket file, do not cut anyone off.
LostForCause ==
    \A c \in Caller :
        conn[c] = "lost" /\ peer[c] \notin Ended
            => garbage[c] /\ got[c] = sent[c]

\* The caller as RequestReply sees him.
Phase(c) ==
    CASE conn[c] = "idle" -> "idle"
      [] conn[c] = "open" -> "open"
      [] OTHER -> "closed"

\* A request of his may still be performed.
Credit(c) ==
    \/ conn[c] = "open"
    \/ task[c] = "handle"
    \/ task[c] \in {"none", "read"} /\ taken[c] < sent[c]

Answer(c) == [i \in Index |-> IF i <= got[c] THEN stream[c][i] ELSE None]

Promise == INSTANCE RequestReply WITH
    phase <- [c \in Caller |-> Phase(c)],
    answer <- [c \in Caller |-> Answer(c)],
    credit <- [c \in Caller |-> Credit(c)]

\* control.rs keeps the promise of RequestReply: the i-th answer read is that to
\* the i-th request, none is performed twice, and a caller who left has caused
\* one more step at most.
KeepsPromise == Promise!Spec

\* How far the task is with the request it is at.
StepsDone == [none |-> 0, read |-> 1, handle |-> 2, write |-> 3, ended |-> 4]

\* The steps of the task that are left before the i-th answer is written, and
\* those of the caller before he has read it.
BeforeWritten(c, i) ==
    IF written[c] >= i THEN 0 ELSE 3 * (i - written[c]) + 1 - StepsDone[task[c]]

BeforeRead(c, i) == IF got[c] >= i THEN 0 ELSE i - got[c]

\* A request of a caller who waits gets nearer to its answer with every step of
\* handle_connection until that is written, and with every line the caller reads.
\* Nothing else that he, other callers or other daemons do takes it back, and the
\* daemon does not end the connection before.
AnswerNears ==
    [][ \A c \in Caller, i \in Index :
          /\ sent[c] >= i /\ got[c] < i
          /\ conn[c] = "open" /\ conn'[c] # "left"
          /\ peer[c] \notin Ended'
          => /\ conn'[c] = "open"
             /\ BeforeWritten(c, i)' <= BeforeWritten(c, i)
             /\ BeforeRead(c, i)' <= BeforeRead(c, i)
             /\ HandleConnection(c) /\ written[c] < i
                  => BeforeWritten(c, i)' < BeforeWritten(c, i)
             /\ ReadAnswer(c) => BeforeRead(c, i)' < BeforeRead(c, i) ]_vars

-----------------------------------------------------------------------------
(* Liveness *)

\* Each request is answered, as long as the daemon runs and the caller waits,
\* whatever the other callers do and whoever takes over the socket file.
Answered ==
    \A c \in Caller, i \in Index :
        sent[c] >= i ~> \/ got[c] >= i
                        \/ conn[c] = "left"
                        \/ peer[c] \in Ended

\* "Stop the server daemon" (main.rs:75), "Stop the client daemon" (main.rs:91):
\* where a stop was answered Ok the daemon comes to its end.  False: Shutdown is
\* answered and not carried out.
StopStops ==
    \A c \in Stopper : got[c] > 0 ~> peer[c] \in Ended

=============================================================================
