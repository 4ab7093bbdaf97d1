------------------------ MODULE ControlSocketProofs ------------------------
(***************************************************************************)
(* Theorems about ControlSocket, for any daemons, any callers and any      *)
(* number of requests.                                                     *)
(***************************************************************************)
EXTENDS ControlSocket, TLAPS

\* Who is connected has a daemon, and only then is there a task or a request.
Connected(c) ==
    /\ conn[c] \in {"open", "left", "lost"} => peer[c] \in Daemon
    /\ conn[c] \in {"idle", "failed"} =>
         peer[c] = None /\ task[c] = "none" /\ sent[c] = 0
    /\ conn[c] = "lost" => task[c] = "ended"
    /\ peer[c] \in Ended => task[c] = "ended"

\* How far the caller and the task are, in the order of the stream.
Counts(c) ==
    /\ got[c] <= written[c]
    /\ written[c] <= taken[c]
    /\ taken[c] <= sent[c]
    /\ task[c] = "none" => taken[c] = 0
    /\ task[c] = "read" => written[c] = taken[c]
    /\ task[c] \in {"handle", "write"} => taken[c] = written[c] + 1

\* The requests that were performed are the first ones, and the stream holds
\* what became of them.
Results(c) ==
    /\ \A i \in Index :
        /\ i < taken[c] => outcome[c][i] # None
        /\ i > taken[c] => outcome[c][i] = None
        /\ i = taken[c] /\ task[c] \in {"read", "write"} => outcome[c][i] # None
        /\ i = taken[c] /\ task[c] = "handle" => outcome[c][i] = None
        /\ i <= written[c] => stream[c][i] = outcome[c][i] /\ outcome[c][i] # None
    /\ task[c] = "write" =>
        response[c] = outcome[c][taken[c]] /\ response[c] # None

\* A task that ended under a running daemon has read garbage, and answered all
\* that came before it; or its caller is gone.
Endings(c) ==
    /\ task[c] = "ended" /\ peer[c] \notin Ended /\ conn[c] = "open"
        => garbage[c] /\ written[c] = sent[c]
    /\ conn[c] = "lost" /\ peer[c] \notin Ended
        => garbage[c] /\ got[c] = sent[c]

ConnectionOK(c) == Connected(c) /\ Counts(c) /\ Results(c) /\ Endings(c)

IInv == TypeOK /\ \A c \in Caller : ConnectionOK(c)

-----------------------------------------------------------------------------
(* The invariant *)

\* A connection of which nothing changes stays as it is.
LEMMA Untouched ==
    ASSUME NEW c \in Caller, ConnectionOK(c),
           conn'[c] = conn[c], peer'[c] = peer[c], sent'[c] = sent[c],
           garbage'[c] = garbage[c], got'[c] = got[c], task'[c] = task[c],
           taken'[c] = taken[c], response'[c] = response[c],
           stream'[c] = stream[c], written'[c] = written[c],
           outcome'[c] = outcome[c],
           peer[c] \in Ended' <=> peer[c] \in Ended
    PROVE  ConnectionOK(c)'
  BY DEF ConnectionOK, Connected, Counts, Results, Endings

LEMMA InitIInv == Init => IInv
  BY SocketAssumption
  DEF SocketAssumption, Init, IInv, TypeOK, ConnectionOK, Connected, Counts,
      Results, Endings, Index, Unknown, Outcome, Ended

\* The steps of the daemons.
LEMMA DaemonSteps ==
    ASSUME IInv, NEW d \in Daemon, Start(d) \/ BindListener(d) \/ Exit(d)
    PROVE  IInv'
<1>0. TypeOK /\ \A c \in Caller : ConnectionOK(c)
  BY DEF IInv
<1>1. CASE Start(d) \/ BindListener(d)
  <2>1. TypeOK'
    BY <1>0, <1>1
    DEF Start, BindListener, RemoveSocket, BindSocket, BindFails, TypeOK, caller, serving
  <2>2. Ended' = Ended
    BY <1>0, <1>1 DEF Start, BindListener, RemoveSocket, BindSocket, BindFails, TypeOK, Ended
  <2> QED
    BY <1>0, <1>1, <2>1, <2>2, Untouched
    DEF Start, BindListener, RemoveSocket, BindSocket, BindFails, caller, serving, IInv
<1>2. CASE Exit(d)
  <2>1. TypeOK'
    BY <1>0, <1>2 DEF Exit, TypeOK, caller
  <2>2. Ended' = Ended \cup {d}
    BY <1>0, <1>2 DEF Exit, TypeOK, Ended
  <2>3. ASSUME NEW c \in Caller PROVE ConnectionOK(c)'
    <3>1. CASE peer[c] = d
      <4>1. task'[c] = "ended" /\ peer'[c] \in Ended'
        BY <1>2, <2>2, <3>1 DEF Exit, caller
      <4> QED
        BY <1>0, <1>2, <3>1, <4>1, SocketAssumption
        DEF Exit, caller, ConnectionOK, Connected, Counts, Results, Endings,
            SocketAssumption, TypeOK
    <3>2. CASE peer[c] # d
      BY <1>0, <1>2, <2>2, <3>2, Untouched DEF Exit, caller
    <3> QED
      BY <3>1, <3>2
  <2> QED
    BY <2>1, <2>3 DEF IInv
<1> QED
  BY <1>1, <1>2

\* The steps of a caller.
LEMMA CallerSteps ==
    ASSUME IInv, NEW c \in Caller,
           \/ Connect(c) \/ SendRequest(c) \/ SendGarbage(c)
           \/ ReadAnswer(c) \/ Leave(c) \/ SeeEndOfFile(c)
    PROVE  IInv'
<1>0. TypeOK /\ \A b \in Caller : ConnectionOK(b)
  BY DEF IInv
<1>a. UNCHANGED <<daemon, path, serving>> /\ Ended' = Ended
  BY DEF Connect, SendRequest, SendGarbage, ReadAnswer, Leave, SeeEndOfFile, Ended
<1>b. ASSUME NEW b \in Caller, b # c PROVE ConnectionOK(b)'
  BY <1>0, <1>a, <1>b, Untouched
  DEF Connect, SendRequest, SendGarbage, ReadAnswer, Leave, SeeEndOfFile, serving, TypeOK
<1>c. ConnectionOK(c)
  BY <1>0
<1>1. CASE Connect(c)
  <2>2. Listening \subseteq Daemon /\ Listening \cap Ended = {}
    BY DEF Listening, Ended
  <2>1. TypeOK'
    <3>1. conn' \in [Caller -> {"idle", "open", "left", "lost", "failed"}]
      BY <1>0, <1>1 DEF Connect, TypeOK
    <3>2. peer' \in [Caller -> Daemon \cup {None}]
      BY <1>0, <1>1, <2>2 DEF Connect, TypeOK
    <3> QED
      BY <1>0, <1>a, <1>1, <3>1, <3>2 DEF Connect, TypeOK, serving
  <2>3. ConnectionOK(c)'
    BY <1>0, <1>a, <1>c, <1>1, <2>2
    DEF Connect, serving, TypeOK, ConnectionOK, Connected, Counts, Results, Endings
  <2> QED
    BY <1>b, <2>1, <2>3 DEF IInv
<1>2. CASE SendRequest(c)
  <2>1. sent'[c] = sent[c] + 1 /\ sent'[c] \in 0 .. MaxRequests
    BY <1>0, <1>2, SocketAssumption DEF SendRequest, TypeOK, SocketAssumption
  <2>2. TypeOK'
    BY <1>0, <1>a, <1>2, <2>1 DEF SendRequest, TypeOK, serving
  <2>3. ConnectionOK(c)'
    BY <1>0, <1>a, <1>c, <1>2, <2>1
    DEF SendRequest, serving, TypeOK, ConnectionOK, Connected, Counts, Results, Endings
  <2> QED
    BY <1>b, <2>2, <2>3 DEF IInv
<1>3. CASE SendGarbage(c)
  <2>1. TypeOK'
    BY <1>0, <1>a, <1>3 DEF SendGarbage, TypeOK, serving
  <2>2. ConnectionOK(c)'
    BY <1>0, <1>a, <1>c, <1>3
    DEF SendGarbage, serving, TypeOK, ConnectionOK, Connected, Counts, Results, Endings
  <2> QED
    BY <1>b, <2>1, <2>2 DEF IInv
<1>4. CASE ReadAnswer(c)
  <2>1. got'[c] = got[c] + 1 /\ got'[c] <= written[c] /\ got'[c] \in 0 .. MaxRequests
    BY <1>0, <1>4, SocketAssumption DEF ReadAnswer, TypeOK, SocketAssumption
  <2>2. TypeOK'
    BY <1>0, <1>a, <1>4, <2>1 DEF ReadAnswer, TypeOK, serving
  <2>3. ConnectionOK(c)'
    BY <1>0, <1>a, <1>c, <1>4, <2>1
    DEF ReadAnswer, serving, TypeOK, ConnectionOK, Connected, Counts, Results, Endings
  <2> QED
    BY <1>b, <2>2, <2>3 DEF IInv
<1>5. CASE Leave(c)
  <2>1. TypeOK'
    BY <1>0, <1>a, <1>5 DEF Leave, TypeOK, serving
  <2>2. ConnectionOK(c)'
    BY <1>0, <1>a, <1>c, <1>5
    DEF Leave, serving, TypeOK, ConnectionOK, Connected, Counts, Results, Endings
  <2> QED
    BY <1>b, <2>1, <2>2 DEF IInv
<1>6. CASE SeeEndOfFile(c)
  <2>1. TypeOK'
    BY <1>0, <1>a, <1>6 DEF SeeEndOfFile, TypeOK, serving
  <2>2. ConnectionOK(c)'
    BY <1>0, <1>a, <1>c, <1>6
    DEF SeeEndOfFile, serving, TypeOK, ConnectionOK, Connected, Counts, Results, Endings
  <2> QED
    BY <1>b, <2>1, <2>2 DEF IInv
<1> QED
  BY <1>1, <1>2, <1>3, <1>4, <1>5, <1>6

\* The steps of a task.
LEMMA TaskSteps ==
    ASSUME IInv, NEW c \in Caller, HandleConnection(c)
    PROVE  IInv'
<1>0. TypeOK /\ \A b \in Caller : ConnectionOK(b)
  BY DEF IInv
<1>a. /\ UNCHANGED <<daemon, path, caller>>
      /\ Ended' = Ended
      /\ Reached(c)
  BY DEF HandleConnection, Accept, ReadRequest, EndConnection, Handle, WriteAnswer, Ended
<1>b. ASSUME NEW b \in Caller, b # c PROVE ConnectionOK(b)'
  BY <1>0, <1>a, <1>b, Untouched
  DEF HandleConnection, Accept, ReadRequest, EndConnection, Handle, WriteAnswer, caller, TypeOK
<1>c. ConnectionOK(c) /\ peer[c] \in Daemon /\ peer[c] \notin Ended
  BY <1>0, <1>a DEF Reached, Listening, Ended
<1>1. CASE Accept(c)
  <2>1. TypeOK'
    BY <1>0, <1>a, <1>1 DEF Accept, TypeOK, caller
  <2>2. ConnectionOK(c)'
    BY <1>0, <1>a, <1>c, <1>1, SocketAssumption
    DEF Accept, caller, TypeOK, ConnectionOK, Connected, Counts, Results, Endings,
        SocketAssumption, Index
  <2> QED
    BY <1>b, <2>1, <2>2 DEF IInv
<1>2. CASE ReadRequest(c)
  <2>1. taken'[c] = taken[c] + 1 /\ taken'[c] <= sent[c] /\ taken'[c] \in 0 .. MaxRequests
    BY <1>0, <1>2, SocketAssumption DEF ReadRequest, TypeOK, SocketAssumption
  <2>2. TypeOK'
    BY <1>0, <1>a, <1>2, <2>1 DEF ReadRequest, TypeOK, caller
  <2>3. ConnectionOK(c)'
    BY <1>0, <1>a, <1>c, <1>2, <2>1, SocketAssumption
    DEF ReadRequest, caller, TypeOK, ConnectionOK, Connected, Counts, Results, Endings,
        SocketAssumption, Index
  <2> QED
    BY <1>b, <2>2, <2>3 DEF IInv
<1>3. CASE EndConnection(c)
  <2>1. TypeOK'
    BY <1>0, <1>a, <1>3 DEF EndConnection, TypeOK, caller
  <2>2. ConnectionOK(c)'
    BY <1>0, <1>a, <1>c, <1>3, SocketAssumption
    DEF EndConnection, caller, TypeOK, ConnectionOK, Connected, Counts, Results, Endings,
        SocketAssumption
  <2> QED
    BY <1>b, <2>1, <2>2 DEF IInv
<1>4. CASE Handle(c)
  <2>1. PICK o \in Outcome :
          /\ response' = [response EXCEPT ![c] = o]
          /\ outcome' = [outcome EXCEPT ![c] = [@ EXCEPT ![taken[c]] = o]]
    BY <1>4 DEF Handle
  <2>2. taken[c] \in Index /\ o # None
    BY <1>0, <1>c, <1>4, SocketAssumption
    DEF Handle, ConnectionOK, Counts, TypeOK, Index, SocketAssumption
  <2>3. /\ outcome'[c] \in [Index -> Outcome \cup {None}]
        /\ outcome'[c][taken[c]] = o
        /\ \A i \in Index : i # taken[c] => outcome'[c][i] = outcome[c][i]
    BY <1>0, <2>1, <2>2 DEF TypeOK
  <2>4. TypeOK'
    BY <1>0, <1>a, <1>4, <2>1, <2>3 DEF Handle, TypeOK, caller
  <2>5. response'[c] = o /\ task'[c] = "write"
    BY <1>0, <1>4, <2>1 DEF Handle, TypeOK
  <2>6. ConnectionOK(c)'
    BY <1>0, <1>a, <1>c, <1>4, <2>2, <2>3, <2>5, SocketAssumption
    DEF Handle, caller, TypeOK, ConnectionOK, Connected, Counts, Results, Endings,
        SocketAssumption, Index
  <2> QED
    BY <1>b, <2>4, <2>6 DEF IInv
<1>5. CASE WriteAnswer(c)
  <2>1. CASE /\ conn[c] = "open"
             /\ stream' = [stream EXCEPT ![c] = [@ EXCEPT ![written[c] + 1] = response[c]]]
             /\ written' = [written EXCEPT ![c] = @ + 1]
             /\ task' = [task EXCEPT ![c] = "read"]
    <3>1. written[c] + 1 \in Index /\ taken[c] = written[c] + 1
      BY <1>0, <1>c, <1>5, SocketAssumption
      DEF WriteAnswer, ConnectionOK, Counts, TypeOK, Index, SocketAssumption
    <3>2. /\ stream'[c] \in [Index -> Outcome \cup {None}]
          /\ stream'[c][written[c] + 1] = response[c]
          /\ \A i \in Index : i # written[c] + 1 => stream'[c][i] = stream[c][i]
      BY <1>0, <2>1, <3>1 DEF TypeOK
    <3>3. written'[c] = written[c] + 1 /\ task'[c] = "read"
      BY <1>0, <2>1 DEF TypeOK
    <3>4. TypeOK'
      BY <1>0, <1>a, <1>5, <2>1, <3>1, <3>2, <3>3 DEF WriteAnswer, TypeOK, caller, Index
    <3>5. ConnectionOK(c)'
      BY <1>0, <1>a, <1>c, <1>5, <3>1, <3>2, <3>3, SocketAssumption
      DEF WriteAnswer, caller, TypeOK, ConnectionOK, Connected, Counts, Results, Endings,
          SocketAssumption, Index
    <3> QED
      BY <1>b, <3>4, <3>5 DEF IInv
  <2>2. CASE /\ conn[c] # "open"
             /\ task' = [task EXCEPT ![c] = "ended"]
             /\ UNCHANGED <<stream, written>>
    <3>1. TypeOK'
      BY <1>0, <1>a, <1>5, <2>2 DEF WriteAnswer, TypeOK, caller
    <3>2. ConnectionOK(c)'
      BY <1>0, <1>a, <1>c, <1>5, <2>2, SocketAssumption
      DEF WriteAnswer, caller, TypeOK, ConnectionOK, Connected, Counts, Results, Endings,
          SocketAssumption
    <3> QED
      BY <1>b, <3>1, <3>2 DEF IInv
  <2> QED
    BY <1>5, <2>1, <2>2 DEF WriteAnswer
<1> QED
  BY <1>1, <1>2, <1>3, <1>4, <1>5 DEF HandleConnection

LEMMA NextIInv == IInv /\ [Next]_vars => IInv'
<1> SUFFICES ASSUME IInv, [Next]_vars PROVE IInv'
  OBVIOUS
<1>1. CASE UNCHANGED vars
  BY <1>1, Untouched DEF vars, caller, serving, IInv, TypeOK, Ended
<1>2. CASE Next
  BY <1>2, DaemonSteps, CallerSteps, TaskSteps DEF Next, HandleConnection
<1> QED
  BY <1>1, <1>2

THEOREM Invariance == Spec => []IInv
  BY InitIInv, NextIInv, PTL DEF Spec


-----------------------------------------------------------------------------
(* The refinement of RequestReply *)

\* The abstract state, as functions on Caller.
Phases == [c \in Caller |-> Phase(c)]
Answers == [c \in Caller |-> Answer(c)]
Credits == [c \in Caller |-> Credit(c)]

\* Nothing that RequestReply sees of b changes.
Same(b) ==
    /\ conn'[b] = conn[b]
    /\ got'[b] = got[b]
    /\ stream'[b] = stream[b]
    /\ task'[b] = task[b]
    /\ taken'[b] = taken[b]
    /\ sent'[b] = sent[b]

\* Where RequestReply sees no change it stutters.
LEMMA Stutter ==
    ASSUME Phases' = Phases, Answers' = Answers, Credits' = Credits,
           UNCHANGED <<sent, outcome>>
    PROVE  UNCHANGED Promise!vars
  BY DEF Promise!vars, Phases, Answers, Credits

\* A step of one connection changes the abstract state there alone.
LEMMA ChangeAtOne ==
    ASSUME NEW c \in Caller, \A b \in Caller : b # c => Same(b)
    PROVE  /\ Phases' = [Phases EXCEPT ![c] = Phase(c)']
           /\ Answers' = [Answers EXCEPT ![c] = Answer(c)']
           /\ Credits' = [Credits EXCEPT ![c] = Credit(c)']
<1>1. ASSUME NEW b \in Caller, b # c
      PROVE  Phase(b)' = Phase(b) /\ Answer(b)' = Answer(b) /\ Credit(b)' = Credit(b)
  BY <1>1 DEF Same, Phase, Answer, Credit
<1> QED
  BY <1>1 DEF Phases, Answers, Credits

\* A caller that is neither idle nor open is closed.
LEMMA PhaseOf ==
    ASSUME NEW c \in Caller
    PROVE  /\ conn[c] = "idle" => Phase(c) = "idle"
           /\ conn[c] = "open" => Phase(c) = "open"
           /\ conn[c] \notin {"idle", "open"} => Phase(c) = "closed"
  BY DEF Phase

LEMMA Kept ==
    ASSUME NEW c \in Caller, \A b \in Caller : b # c => Same(b)
    PROVE  /\ Phase(c)' = Phase(c) => Phases' = Phases
           /\ Answer(c)' = Answer(c) => Answers' = Answers
           /\ Credit(c)' = Credit(c) => Credits' = Credits
  BY ChangeAtOne DEF Phases, Answers, Credits

LEMMA InitRefines == Init => Promise!Init
<1> SUFFICES ASSUME Init PROVE Promise!Init
  OBVIOUS
<1>1. ASSUME NEW c \in Caller
      PROVE  Phase(c) = "idle" /\ Credit(c) = FALSE /\ Answer(c) = Unknown
  <2>1. Answer(c) = Unknown
    BY SocketAssumption DEF Init, Answer, Unknown, Index, SocketAssumption
  <2> QED
    BY <2>1 DEF Init, Phase, Credit
<1> QED
  BY <1>1 DEF Init, Promise!Init, Promise!Unknown, Promise!Index, Unknown, Index

\* A daemon that ends lets the requests of callers who are gone lapse.
LEMMA DaemonRefines ==
    ASSUME IInv, NEW d \in Daemon, Start(d) \/ BindListener(d) \/ Exit(d)
    PROVE  Promise!Lapse \/ UNCHANGED Promise!vars
<1>0. TypeOK /\ \A c \in Caller : Connected(c)
  BY DEF IInv, ConnectionOK
<1>1. CASE Start(d) \/ BindListener(d)
  <2>1. ASSUME NEW c \in Caller
        PROVE  Phase(c)' = Phase(c) /\ Answer(c)' = Answer(c) /\ Credit(c)' = Credit(c)
    BY <1>1
    DEF Start, BindListener, RemoveSocket, BindSocket, BindFails, caller, serving,
        Phase, Answer, Credit
  <2>2. Phases' = Phases /\ Answers' = Answers /\ Credits' = Credits
    BY <2>1 DEF Phases, Answers, Credits
  <2>3. UNCHANGED <<sent, outcome>>
    BY <1>1 DEF Start, BindListener, RemoveSocket, BindSocket, BindFails, caller, serving
  <2> QED
    BY <2>2, <2>3, Stutter
<1>2. CASE Exit(d)
  <2> DEFINE C == {c \in Caller : Phase(c) = "closed" /\ peer[c] = d}
  <2>1. UNCHANGED <<sent, outcome>>
    BY <1>2 DEF Exit, caller
  <2>2. Phases' = Phases /\ Answers' = Answers
    <3>1. ASSUME NEW c \in Caller PROVE Phase(c)' = Phase(c) /\ Answer(c)' = Answer(c)
      BY <1>2 DEF Exit, caller, Phase, Answer
    <3> QED
      BY <3>1 DEF Phases, Answers
  <2>3. ASSUME NEW c \in Caller PROVE Credit(c)' = (Credit(c) /\ c \notin C)
    <3>1. CASE peer[c] = d
      <4>1. task'[c] = "ended" /\ conn'[c] = conn[c]
        BY <1>2, <3>1 DEF Exit, caller
      <4>2. conn[c] \in {"open", "left", "lost"}
        BY <1>0, <3>1, SocketAssumption DEF Connected, TypeOK, SocketAssumption
      <4> QED
        BY <3>1, <4>1, <4>2, PhaseOf DEF Credit
    <3>2. CASE peer[c] # d
      <4>1. task'[c] = task[c]
        BY <1>2, <3>2 DEF Exit
      <4> QED
        BY <1>2, <3>2, <4>1 DEF Exit, caller, Credit
    <3> QED
      BY <3>1, <3>2
  <2>4. Credits' = [c \in Caller |-> Credits[c] /\ c \notin C]
    BY <2>3 DEF Credits
  <2>5. C \in SUBSET {c \in Caller : Phases[c] = "closed"}
    BY DEF Phases
  <2> QED
    BY <2>1, <2>2, <2>4, <2>5 DEF Promise!Lapse, Phases, Answers, Credits
<1> QED
  BY <1>1, <1>2

\* A caller connects or cannot, submits, reads an answer, or goes.
LEMMA CallerRefines ==
    ASSUME IInv, NEW c \in Caller,
           \/ Connect(c) \/ SendRequest(c) \/ SendGarbage(c)
           \/ ReadAnswer(c) \/ Leave(c) \/ SeeEndOfFile(c)
    PROVE  \/ Promise!Open(c) \/ Promise!Fail(c) \/ Promise!Submit(c)
           \/ Promise!Deliver(c) \/ Promise!Close(c) \/ UNCHANGED Promise!vars
<1>0. TypeOK /\ ConnectionOK(c)
  BY DEF IInv
<1>a. \A b \in Caller : b # c => Same(b)
  BY <1>0 DEF Connect, SendRequest, SendGarbage, ReadAnswer, Leave, SeeEndOfFile,
              serving, TypeOK, Same
<1>b. UNCHANGED serving
  BY DEF Connect, SendRequest, SendGarbage, ReadAnswer, Leave, SeeEndOfFile
<1>c. /\ Phases' = [Phases EXCEPT ![c] = Phase(c)']
      /\ Answers' = [Answers EXCEPT ![c] = Answer(c)']
      /\ Credits' = [Credits EXCEPT ![c] = Credit(c)']
  BY <1>a, ChangeAtOne
<1>d. Phases[c] = Phase(c) /\ Answers[c] = Answer(c) /\ Credits[c] = Credit(c)
  BY DEF Phases, Answers, Credits
<1>1. CASE Connect(c)
  <2>1. /\ conn[c] = "idle" /\ task[c] = "none" /\ taken[c] = 0 /\ sent[c] = 0
        /\ UNCHANGED <<sent, outcome, task, taken>>
    BY <1>0, <1>1, <1>b DEF Connect, ConnectionOK, Connected, Counts, serving, TypeOK
  <2>2. Answer(c)' = Answer(c)
    BY <1>1, <1>b DEF Connect, Answer, serving
  <2>3. Answers' = Answers /\ Phases[c] = "idle"
    BY <1>a, <2>1, <2>2, Kept, PhaseOf, <1>d
  <2>4. CASE conn' = [conn EXCEPT ![c] = "open"]
    <3>1. conn'[c] = "open"
      BY <1>0, <2>4 DEF TypeOK
    <3>2. Phase(c)' = "open" /\ Credit(c)' = TRUE
      BY <3>1 DEF Phase, Credit
    <3> QED
      BY <1>c, <2>1, <2>3, <3>2 DEF Promise!Open, Phases, Answers, Credits
  <2>5. CASE conn' = [conn EXCEPT ![c] = "failed"]
    <3>1. conn'[c] = "failed"
      BY <1>0, <2>5 DEF TypeOK
    <3>2. Phase(c)' = "closed"
      BY <3>1 DEF Phase
    <3>3. Credit(c)' = FALSE /\ Credit(c) = FALSE
      BY <2>1, <3>1 DEF Credit
    <3>4. Credits' = Credits
      BY <1>a, <3>3, Kept
    <3> QED
      BY <1>c, <2>1, <2>3, <3>2, <3>4 DEF Promise!Fail, Phases, Answers, Credits
  <2> QED
    BY <1>1, <2>4, <2>5 DEF Connect
<1>2. CASE SendRequest(c)
  <2>1. conn[c] = "open" /\ UNCHANGED <<conn, got, stream, outcome>>
    BY <1>2, <1>b DEF SendRequest, serving
  <2>2. /\ Phase(c)' = Phase(c) /\ Phase(c) = "open"
        /\ Answer(c)' = Answer(c)
        /\ Credit(c)' = Credit(c)
    BY <2>1 DEF Phase, Answer, Credit
  <2>3. Phases' = Phases /\ Answers' = Answers /\ Credits' = Credits
    BY <1>a, <2>2, Kept
  <2>4. sent[c] < MaxRequests /\ sent' = [sent EXCEPT ![c] = @ + 1]
    BY <1>0, <1>2, SocketAssumption DEF SendRequest, TypeOK, SocketAssumption
  <2> QED
    BY <1>d, <2>1, <2>2, <2>3, <2>4 DEF Promise!Submit, Phases, Answers, Credits
<1>3. CASE SendGarbage(c)
  <2>1. UNCHANGED <<conn, got, sent, task, taken, stream, outcome>>
    BY <1>3, <1>b DEF SendGarbage, serving
  <2>2. Phase(c)' = Phase(c) /\ Answer(c)' = Answer(c) /\ Credit(c)' = Credit(c)
    BY <2>1 DEF Phase, Answer, Credit
  <2> QED
    BY <1>a, <2>1, <2>2, Kept, Stutter
<1>4. CASE ReadAnswer(c)
  <2> DEFINE i == got[c] + 1
  <2>1. /\ conn[c] = "open" /\ got'[c] = i
        /\ UNCHANGED <<conn, sent, task, taken, stream, outcome>>
    BY <1>0, <1>4, <1>b DEF ReadAnswer, serving, TypeOK
  <2>2. i \in Index /\ i <= written[c] /\ got[c] \in Nat
    BY <1>0, <1>4, SocketAssumption DEF ReadAnswer, TypeOK, SocketAssumption, Index
  <2>3. \A j \in Index : j <= i => stream[c][j] = outcome[c][j] /\ outcome[c][j] # None
    BY <1>0, <2>2 DEF ConnectionOK, Results, TypeOK, Index
  <2>4. Phases' = Phases /\ Credits' = Credits /\ Phases[c] = "open"
    <3>1. Phase(c)' = Phase(c) /\ Credit(c)' = Credit(c) /\ Phase(c) = "open"
      BY <2>1 DEF Phase, Credit
    <3> QED
      BY <1>a, <1>d, <3>1, Kept
  <2>5. Promise!IsNext(Answer(c), i)
    BY <2>2, <2>3 DEF Promise!IsNext, Promise!Index, Index, Answer
  <2>6. Answer(c)' = [Answer(c) EXCEPT ![i] = outcome[c][i]]
    <3>1. \A j \in Index : Answer(c)'[j] = IF j = i THEN outcome[c][i] ELSE Answer(c)[j]
      BY <2>1, <2>2, <2>3 DEF Answer, Index
    <3>2. Answer(c)' = [j \in Index |-> Answer(c)'[j]]
      BY DEF Answer, Index
    <3>3. Answer(c) = [j \in Index |-> Answer(c)[j]]
      BY DEF Answer
    <3> HIDE DEF i
    <3> QED
      BY <2>2, <3>1, <3>2, <3>3
  <2>7. Answers' = [Answers EXCEPT ![c] = [@ EXCEPT ![i] = outcome[c][i]]]
    BY <1>c, <1>d, <2>6
  <2>8. outcome[c][i] # None
    BY <2>2, <2>3
  <2>9. i \in Promise!Index /\ Promise!IsNext(Answers[c], i)
    BY <1>d, <2>2, <2>5 DEF Promise!Index, Index
  <2> HIDE DEF i
  <2> QED
    BY <2>1, <2>4, <2>7, <2>8, <2>9 DEF Promise!Deliver, Phases, Answers, Credits
<1>5. CASE Leave(c) \/ SeeEndOfFile(c)
  <2>1. /\ conn[c] = "open" /\ conn'[c] \in {"left", "lost"}
        /\ UNCHANGED <<got, sent, task, taken, stream, outcome>>
    BY <1>0, <1>5, <1>b DEF Leave, SeeEndOfFile, serving, TypeOK
  <2>2. Phase(c) = "open" /\ Phase(c)' = "closed"
    BY <2>1 DEF Phase
  <2>3. Answer(c)' = Answer(c)
    BY <2>1 DEF Answer
  <2>4. Credit(c) = TRUE /\ Credit(c)' \in BOOLEAN
    BY <2>1 DEF Credit
  <2>5. Answers' = Answers
    BY <1>a, <2>3, Kept
  <2>6. Credits' = [Credits EXCEPT ![c] = FALSE] \/ Credits' = Credits
    <3>1. CASE Credit(c)' = FALSE
      BY <1>c, <3>1
    <3>2. CASE Credit(c)' = TRUE
      BY <1>a, <2>4, <3>2, Kept
    <3> QED
      BY <2>4, <3>1, <3>2
  <2> QED
    BY <1>c, <1>d, <2>1, <2>2, <2>5, <2>6 DEF Promise!Close, Phases, Answers, Credits
<1> QED
  BY <1>1, <1>2, <1>3, <1>4, <1>5

\* The task performs a request, or lets what is left of a closed connection
\* lapse, or does nothing that the caller sees.
LEMMA TaskRefines ==
    ASSUME IInv, NEW c \in Caller, HandleConnection(c)
    PROVE  Promise!Perform(c) \/ Promise!Lapse \/ UNCHANGED Promise!vars
<1>0. TypeOK /\ ConnectionOK(c)
  BY DEF IInv
<1>a. /\ UNCHANGED caller
      /\ \A b \in Caller : b # c => Same(b)
  BY <1>0 DEF HandleConnection, Accept, ReadRequest, EndConnection, Handle, WriteAnswer,
              caller, TypeOK, Same
<1>b. UNCHANGED <<conn, sent, got>> /\ Phase(c)' = Phase(c) /\ Phases' = Phases
  <2>1. UNCHANGED <<conn, sent, got>>
    BY <1>a DEF caller
  <2>2. Phase(c)' = Phase(c)
    BY <2>1 DEF Phase
  <2> QED
    BY <1>a, <2>1, <2>2, Kept
<1>c. ASSUME Answer(c)' = Answer(c), Credit(c)' = Credit(c), outcome' = outcome
      PROVE  UNCHANGED Promise!vars
  BY <1>a, <1>b, <1>c, Kept, Stutter
<1>d. Phases[c] = Phase(c) /\ Answers[c] = Answer(c) /\ Credits[c] = Credit(c)
  BY DEF Phases, Answers, Credits
<1>e. task[c] # "none" => conn[c] \notin {"idle", "failed"}
  BY <1>0 DEF ConnectionOK, Connected
<1>1. CASE Accept(c) \/ ReadRequest(c)
  <2>1. Answer(c)' = Answer(c) /\ outcome' = outcome
    BY <1>1, <1>b DEF Accept, ReadRequest, Answer
  <2>2. Credit(c)' = Credit(c)
    BY <1>0, <1>1, <1>b DEF Accept, ReadRequest, Credit, TypeOK
  <2> QED
    BY <1>c, <2>1, <2>2
<1>2. CASE EndConnection(c)
  <2>1. Answer(c)' = Answer(c) /\ outcome' = outcome
    BY <1>2, <1>b DEF EndConnection, Answer
  <2>2. task[c] = "read" /\ task'[c] = "ended" /\ Answers' = Answers
    BY <1>0, <1>2, <1>a, <2>1, Kept DEF EndConnection, TypeOK
  <2>3. CASE conn[c] = "open"
    <3>1. Credit(c)' = Credit(c)
      BY <1>b, <2>3 DEF Credit
    <3> QED
      BY <1>c, <2>1, <3>1
  <2>4. CASE conn[c] # "open"
    <3>1. Phases[c] = "closed" /\ Credit(c)' = FALSE
      BY <1>b, <1>d, <1>e, <2>2, <2>4, PhaseOf DEF Credit
    <3>2. Credits' = [b \in Caller |-> Credits[b] /\ b \notin {c}]
      <4>1. ASSUME NEW b \in Caller PROVE Credit(b)' = (Credit(b) /\ b \notin {c})
        BY <1>a, <3>1 DEF Same, Credit
      <4> QED
        BY <4>1 DEF Credits
    <3>3. {c} \in SUBSET {b \in Caller : Phases[b] = "closed"}
      BY <3>1
    <3> QED
      BY <1>b, <2>1, <2>2, <3>2, <3>3 DEF Promise!Lapse, Phases, Answers, Credits
  <2> QED
    BY <2>3, <2>4
<1>3. CASE Handle(c)
  <2>1. PICK o \in Outcome :
          outcome' = [outcome EXCEPT ![c] = [@ EXCEPT ![taken[c]] = o]]
    BY <1>3 DEF Handle
  <2>2. /\ task[c] = "handle" /\ task'[c] = "write"
        /\ taken[c] \in Index /\ taken[c] <= sent[c]
    BY <1>0, <1>3, SocketAssumption
    DEF Handle, ConnectionOK, Counts, TypeOK, Index, SocketAssumption
  <2>3. Promise!IsNext(outcome[c], taken[c])
    BY <1>0, <2>2 DEF Promise!IsNext, Promise!Index, Index, ConnectionOK, Results
  <2>4. Answers' = Answers
    <3>1. Answer(c)' = Answer(c)
      BY <1>3, <1>b DEF Handle, Answer
    <3> QED
      BY <1>a, <3>1, Kept
  <2>5. Credits[c] = TRUE /\ Credit(c)' = (Phases[c] = "open")
    <3>1. Credit(c) = TRUE /\ Credit(c)' = (conn[c] = "open")
      BY <1>b, <2>2 DEF Credit
    <3>2. (Phases[c] = "open") = (conn[c] = "open")
      BY <1>d DEF Phase
    <3> QED
      BY <1>d, <3>1, <3>2
  <2>6. Credits' = [Credits EXCEPT ![c] = Phases[c] = "open"]
    BY <1>a, <2>5, ChangeAtOne
  <2>7. taken[c] \in Promise!Index
    BY <2>2 DEF Promise!Index, Index
  <2> QED
    BY <1>b, <2>1, <2>2, <2>3, <2>4, <2>5, <2>6, <2>7
    DEF Promise!Perform, Phases, Answers, Credits
<1>4. CASE WriteAnswer(c)
  <2>1. outcome' = outcome /\ taken' = taken /\ task[c] = "write"
    BY <1>4 DEF WriteAnswer
  <2>2. Answer(c)' = Answer(c)
    <3>1. \A i \in Index : i <= got[c] => stream'[c][i] = stream[c][i]
      BY <1>0, <1>4, SocketAssumption
      DEF WriteAnswer, ConnectionOK, Counts, TypeOK, Index, SocketAssumption
    <3> QED
      BY <1>b, <3>1 DEF Answer
  <2>3. Credit(c)' = Credit(c)
    BY <1>0, <1>4, <1>b, <2>1 DEF WriteAnswer, Credit, TypeOK
  <2> QED
    BY <1>c, <2>1, <2>2, <2>3
<1> QED
  BY <1>1, <1>2, <1>3, <1>4 DEF HandleConnection

LEMMA StepRefines == IInv /\ [Next]_vars => [Promise!Next]_Promise!vars
<1> SUFFICES ASSUME IInv, [Next]_vars PROVE [Promise!Next]_Promise!vars
  OBVIOUS
<1>1. CASE UNCHANGED vars
  BY <1>1 DEF vars, caller, serving, Promise!vars, Phase, Answer, Credit
<1>2. CASE \E d \in Daemon : Start(d) \/ BindListener(d) \/ Exit(d)
  BY <1>2, DaemonRefines DEF Promise!Next
<1>3. CASE \E c \in Caller : \/ Connect(c) \/ SendRequest(c) \/ SendGarbage(c)
                             \/ ReadAnswer(c) \/ Leave(c) \/ SeeEndOfFile(c)
  BY <1>3, CallerRefines DEF Promise!Next
<1>4. CASE \E c \in Caller : HandleConnection(c)
  BY <1>4, TaskRefines DEF Promise!Next
<1> QED
  BY <1>1, <1>2, <1>3, <1>4 DEF Next, HandleConnection

-----------------------------------------------------------------------------
(* The results *)

\* The type invariant: in particular no caller is answered, and no task takes a
\* request, beyond those that were sent.
THEOREM TypeCorrect == Spec => []TypeOK
<1>1. IInv => TypeOK
  BY DEF IInv
<1> QED
  BY <1>1, Invariance, PTL

\* handle_connection gives up a caller only for what he wrote himself, or with
\* its daemon.
THEOREM CutOffForCause == Spec => []LostForCause
<1>1. IInv => LostForCause
  BY DEF IInv, ConnectionOK, Endings, LostForCause
<1> QED
  BY <1>1, Invariance, PTL

\* control.rs implements RequestReply: each answer is that to the request of its
\* place, and what a caller who left had sent is performed once more at most.
THEOREM Refinement == Spec => KeepsPromise
<1>1. Spec => Promise!Init /\ [][Promise!Next]_Promise!vars
  BY InitRefines, StepRefines, Invariance, PTL DEF Spec
<1> QED
  BY <1>1 DEF KeepsPromise, Promise!Spec

-----------------------------------------------------------------------------
(* The way to an answer *)

\* A step of handle_connection moves its task, one of a caller who reads his
\* count of answers.
LEMMA Moves ==
    ASSUME TypeOK, NEW c \in Caller
    PROVE  /\ HandleConnection(c) => task'[c] # task[c]
           /\ ReadAnswer(c) => got'[c] = got[c] + 1
  BY DEF TypeOK, HandleConnection, Accept, ReadRequest, EndConnection, Handle,
         WriteAnswer, ReadAnswer

\* Whatever the callers and the daemons do, and for any number of requests: what
\* Answered needs beside it is that task and caller go on.
THEOREM NeverFurther == Spec => AnswerNears
<1> DEFINE Nearer(c, i) ==
      /\ sent[c] >= i /\ got[c] < i
      /\ conn[c] = "open" /\ conn'[c] # "left"
      /\ peer[c] \notin Ended'
      => /\ conn'[c] = "open"
         /\ BeforeWritten(c, i)' <= BeforeWritten(c, i)
         /\ BeforeRead(c, i)' <= BeforeRead(c, i)
         /\ HandleConnection(c) /\ written[c] < i
              => BeforeWritten(c, i)' < BeforeWritten(c, i)
         /\ ReadAnswer(c) => BeforeRead(c, i)' < BeforeRead(c, i)
<1>1. ASSUME IInv, IInv', Next, NEW c \in Caller, NEW i \in Index PROVE Nearer(c, i)
  <2> SUFFICES ASSUME sent[c] >= i, got[c] < i, conn[c] = "open", conn'[c] # "left",
                      peer[c] \notin Ended'
               PROVE  /\ conn'[c] = "open"
                      /\ BeforeWritten(c, i)' <= BeforeWritten(c, i)
                      /\ BeforeRead(c, i)' <= BeforeRead(c, i)
                      /\ HandleConnection(c) /\ written[c] < i
                           => BeforeWritten(c, i)' < BeforeWritten(c, i)
                      /\ ReadAnswer(c) => BeforeRead(c, i)' < BeforeRead(c, i)
    OBVIOUS
  <2>1. TypeOK /\ TypeOK' /\ ConnectionOK(c) /\ ConnectionOK(c)'
    BY <1>1 DEF IInv
  <2>2. /\ i \in Nat /\ sent[c] \in Nat
        /\ got[c] \in Nat /\ got'[c] \in Nat /\ written[c] \in Nat /\ written'[c] \in Nat
        /\ task[c] \in {"none", "read", "handle", "write", "ended"}
        /\ task'[c] \in {"none", "read", "handle", "write", "ended"}
    BY <2>1, SocketAssumption DEF TypeOK, Index, SocketAssumption
  <2>3. BeforeRead(c, i) = i - got[c] /\ (got'[c] >= got[c] => BeforeRead(c, i)' <= BeforeRead(c, i))
    BY <2>2 DEF BeforeRead
  <2>4. /\ BeforeWritten(c, i) =
             IF written[c] >= i THEN 0 ELSE 3 * (i - written[c]) + 1 - StepsDone[task[c]]
        /\ BeforeWritten(c, i)' =
             IF written'[c] >= i THEN 0 ELSE 3 * (i - written'[c]) + 1 - StepsDone[task'[c]]
    BY DEF BeforeWritten
  <2>5. /\ StepsDone["none"] = 0 /\ StepsDone["read"] = 1 /\ StepsDone["handle"] = 2
         /\ StepsDone["write"] = 3 /\ StepsDone["ended"] = 4
    BY DEF StepsDone
  <2>6. /\ StepsDone[task[c]] \in 0 .. 4 /\ StepsDone[task'[c]] \in 0 .. 4
        /\ BeforeWritten(c, i) \in Nat
    <3>1. StepsDone[task[c]] \in 0 .. 4 /\ StepsDone[task'[c]] \in 0 .. 4
      BY <2>2, <2>5
    <3>2. CASE written[c] >= i
      BY <2>4, <3>1, <3>2
    <3>3. CASE written[c] < i
      <4>1. BeforeWritten(c, i) = 3 * (i - written[c]) + 1 - StepsDone[task[c]]
        BY <2>2, <2>4, <3>3
      <4> QED
        BY <2>2, <3>1, <3>3, <4>1
    <3> QED
      BY <2>2, <3>1, <3>2, <3>3
  <2>7. CASE /\ conn'[c] = conn[c] /\ got'[c] = got[c]
             /\ written'[c] = written[c] /\ task'[c] = task[c]
    <3>1. ~HandleConnection(c) /\ ~ReadAnswer(c)
      BY <2>1, <2>2, <2>7, Moves
    <3>2. BeforeWritten(c, i)' = BeforeWritten(c, i)
      BY <2>4, <2>7
    <3> QED
      BY <2>2, <2>3, <2>6, <2>7, <3>1, <3>2
  <2>8. ASSUME NEW d \in Daemon, Start(d) \/ BindListener(d) \/ Exit(d)
        PROVE  /\ conn'[c] = conn[c] /\ got'[c] = got[c]
               /\ written'[c] = written[c] /\ task'[c] = task[c]
    <3>1. CASE Start(d) \/ BindListener(d)
      BY <3>1 DEF Start, BindListener, RemoveSocket, BindSocket, BindFails, caller, serving
    <3>2. CASE Exit(d)
      <4>1. d \in Ended' /\ peer[c] # d
        BY <2>1, <3>2 DEF Exit, TypeOK, Ended
      <4> QED
        BY <2>1, <3>2, <4>1 DEF Exit, caller, TypeOK
    <3> QED
      BY <2>8, <3>1, <3>2
  <2>9. ASSUME NEW b \in Caller, b # c,
               \/ Connect(b) \/ SendRequest(b) \/ SendGarbage(b)
               \/ ReadAnswer(b) \/ Leave(b) \/ SeeEndOfFile(b)
               \/ HandleConnection(b)
        PROVE  /\ conn'[c] = conn[c] /\ got'[c] = got[c]
               /\ written'[c] = written[c] /\ task'[c] = task[c]
    BY <2>1, <2>9
    DEF TypeOK, Connect, SendRequest, SendGarbage, ReadAnswer, Leave, SeeEndOfFile,
        HandleConnection, Accept, ReadRequest, EndConnection, Handle, WriteAnswer,
        caller, serving
  <2>10. CASE Connect(c) \/ SendRequest(c) \/ SendGarbage(c)
    BY <2>7, <2>10 DEF Connect, SendRequest, SendGarbage, serving
  <2>11. CASE ReadAnswer(c)
    <3>1. /\ got'[c] = got[c] + 1
          /\ conn'[c] = "open" /\ written'[c] = written[c] /\ task'[c] = task[c]
      BY <2>1, <2>11 DEF ReadAnswer, TypeOK, serving
    <3>2. ~HandleConnection(c)
      BY <2>1, <3>1, Moves
    <3>3. BeforeRead(c, i)' < BeforeRead(c, i)
      BY <2>2, <2>3, <3>1 DEF BeforeRead
    <3>4. BeforeWritten(c, i)' = BeforeWritten(c, i)
      BY <2>4, <3>1
    <3> QED
      BY <2>2, <2>3, <2>6, <3>1, <3>2, <3>3, <3>4
  <2>12. ~Leave(c)
    BY <2>1 DEF Leave, TypeOK
  <2>13. ~SeeEndOfFile(c)
    <3> SUFFICES ASSUME SeeEndOfFile(c) PROVE FALSE
      OBVIOUS
    <3>1. task[c] = "ended" /\ got[c] = written[c] /\ Ended' = Ended
      BY DEF SeeEndOfFile, serving, Ended
    <3>2. written[c] = sent[c]
      BY <2>1, <3>1 DEF ConnectionOK, Endings
    <3> QED
      BY <2>2, <3>1, <3>2
  <2>14. CASE HandleConnection(c)
    <3>1. conn'[c] = "open" /\ got'[c] = got[c] /\ ~ReadAnswer(c)
      BY <2>2, <2>14, Moves, <2>1
      DEF HandleConnection, Accept, ReadRequest, EndConnection, Handle, WriteAnswer, caller
    <3>2. /\ written'[c] >= written[c]
          /\ written[c] < i => \/ task[c] = "none" /\ task'[c] = "read"
                                    /\ written'[c] = written[c]
                               \/ task[c] = "read" /\ task'[c] = "handle"
                                    /\ written'[c] = written[c]
                               \/ task[c] = "handle" /\ task'[c] = "write"
                                    /\ written'[c] = written[c]
                               \/ task[c] = "write" /\ task'[c] = "read"
                                    /\ written'[c] = written[c] + 1
      <4>1. CASE Accept(c) \/ ReadRequest(c) \/ Handle(c)
        BY <2>1, <2>2, <4>1 DEF Accept, ReadRequest, Handle, TypeOK
      <4>2. CASE EndConnection(c)
        <5>1. written'[c] = written[c] /\ task[c] = "read" /\ taken[c] = sent[c]
          BY <4>2 DEF EndConnection
        <5>2. written[c] = sent[c]
          BY <2>1, <5>1 DEF ConnectionOK, Counts
        <5> QED
          BY <2>2, <5>1, <5>2
      <4>3. CASE WriteAnswer(c)
        BY <2>1, <2>2, <4>3 DEF WriteAnswer, TypeOK
      <4> QED
        BY <2>14, <4>1, <4>2, <4>3 DEF HandleConnection
    <3>3. CASE written[c] >= i
      BY <2>2, <2>3, <2>4, <3>1, <3>2, <3>3
    <3>4. CASE written[c] < i
      <4>1. BeforeWritten(c, i) = 3 * (i - written[c]) + 1 - StepsDone[task[c]]
        BY <2>2, <2>4, <3>4
      <4>2. CASE task[c] \in {"none", "read", "handle"}
        <5>1. written'[c] = written[c] /\ StepsDone[task'[c]] = StepsDone[task[c]] + 1
          BY <2>5, <3>2, <3>4, <4>2
        <5>2. BeforeWritten(c, i)' = 3 * (i - written[c]) + 1 - StepsDone[task'[c]]
          BY <2>2, <2>4, <3>4, <5>1
        <5>3. BeforeWritten(c, i)' < BeforeWritten(c, i)
          BY <2>2, <2>6, <4>1, <5>1, <5>2
        <5> QED
          BY <2>2, <2>3, <2>6, <3>1, <5>1, <5>2, <5>3
      <4>3. CASE task[c] = "write"
        <5>1. StepsDone[task[c]] = 3 /\ StepsDone[task'[c]] = 1 /\ written'[c] = written[c] + 1
          BY <2>5, <3>2, <3>4, <4>3
        <5>2. BeforeWritten(c, i)' = IF written[c] + 1 >= i THEN 0 ELSE 3 * (i - written[c] - 1)
          BY <2>2, <2>4, <5>1
        <5>3. BeforeWritten(c, i)' < BeforeWritten(c, i)
          BY <2>2, <3>4, <4>1, <5>1, <5>2
        <5> QED
          BY <2>2, <2>3, <2>6, <3>1, <5>1, <5>2, <5>3
      <4> QED
        BY <3>2, <3>4, <4>2, <4>3
    <3> QED
      BY <2>2, <3>3, <3>4
  <2>15. \/ \E d \in Daemon : Start(d) \/ BindListener(d) \/ Exit(d)
         \/ \E b \in Caller :
              \/ Connect(b) \/ SendRequest(b) \/ SendGarbage(b)
              \/ ReadAnswer(b) \/ Leave(b) \/ SeeEndOfFile(b)
              \/ HandleConnection(b)
    BY <1>1 DEF Next, HandleConnection
  <2> QED
    BY <2>7, <2>8, <2>9, <2>10, <2>11, <2>12, <2>13, <2>14, <2>15
<1>2. IInv /\ IInv' /\ [Next]_vars =>
        [\A c \in Caller, i \in Index : Nearer(c, i)]_vars
  BY <1>1
<1>3. Spec => [][\A c \in Caller, i \in Index : Nearer(c, i)]_vars
  BY <1>2, Invariance, PTL DEF Spec
<1> QED
  BY <1>3 DEF AnswerNears

=============================================================================
