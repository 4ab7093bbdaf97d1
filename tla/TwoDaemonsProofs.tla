-------------------------- MODULE TwoDaemonsProofs --------------------------
(***************************************************************************)
(* Theorems about TwoDaemons: the client and the server as they are        *)
(* implement LazyMount, so what is proved of that holds of them.           *)
(*                                                                         *)
(* The server's steps are those of LazyMount already.  A client that runs  *)
(* offers what it serves (ClientDaemonProofs), and the manifest is then    *)
(* read as that offer; one that has left its event loop may show anything  *)
(* that has the form of a manifest, for which Ordered is needed: requests  *)
(* it still serves list a name again, but on a port behind all others.     *)
(***************************************************************************)
EXTENDS TwoDaemons, ClientDaemonProofs, WellFoundedInduction

\* The ports on the manifest are behind next_port, and each is there once.
Apart(m) == \A e, f \in m : e.port = f.port => e = f

Behind(m, p) == \A e \in m : e.port < p

Ordered == Apart(manifest) /\ Behind(manifest, next_port)

-----------------------------------------------------------------------------
(* How a manifest is read *)

\* A set of numbers that is not empty has a least one.
LEMMA Least ==
    ASSUME NEW T \in SUBSET Nat, T # {}
    PROVE  \E x \in T : \A y \in T : x <= y
<1>1. PICK x \in T : \A y \in T : ~(<<y, x>> \in OpToRel(<, Nat))
  BY NatLessThanWellFounded, WFMin
<1>2. \A y \in T : ~(y < x)
  BY <1>1 DEF OpToRel
<1> QED
  BY <1>2

\* The first entry of a name that is listed is one of its entries.
LEMMA FirstIsEntry ==
    ASSUME NEW m \in SUBSET [name : Share, port : Port], NEW s \in Share,
           \E e \in m : e.name = s
    PROVE  FirstEntry(m, s) \in m /\ FirstEntry(m, s).name = s
<1> DEFINE T == {e.port : e \in {f \in m : f.name = s}}
<1>1. T # {} /\ T \in SUBSET Nat
  BY ClientAssumption DEF ClientAssumption, Port
<1>2. PICK p \in T : \A q \in T : p <= q
  BY <1>1, Least
<1>3. PICK e \in m : e.name = s /\ e.port = p
  BY <1>2
<1>4. \A f \in m : f.name = s => e.port <= f.port
  BY <1>2, <1>3
<1> QED
  BY <1>3, <1>4 DEF FirstEntry

\* What is answered has the form of a manifest.
LEMMA AnswerForm ==
    ASSUME NEW m \in SUBSET [name : Share, port : Port], Apart(m)
    PROVE  [client |-> Host,
            shares |-> [s \in Share |->
                IF \E e \in m : e.name = s THEN FirstEntry(m, s).port ELSE None]]
              \in Whole!Server!Manifest
<1> DEFINE S == [s \in Share |->
                    IF \E e \in m : e.name = s THEN FirstEntry(m, s).port ELSE None]
<1>a. None \notin Port
  BY ClientAssumption DEF ClientAssumption
<1>1. ASSUME NEW s \in Share
      PROVE  /\ S[s] \in Port \cup {None}
             /\ S[s] # None => /\ FirstEntry(m, s) \in m
                               /\ FirstEntry(m, s).name = s
                               /\ FirstEntry(m, s).port = S[s]
  <2>1. CASE \E e \in m : e.name = s
    <3>1. FirstEntry(m, s) \in m /\ FirstEntry(m, s).name = s
      BY <2>1, FirstIsEntry
    <3>2. S[s] = FirstEntry(m, s).port
      BY <2>1
    <3>3. FirstEntry(m, s).port \in Port
      BY <3>1
    <3> QED
      BY <3>1, <3>2, <3>3
  <2>2. CASE ~\E e \in m : e.name = s
    BY <2>2
  <2> QED
    BY <2>1, <2>2
<1>2. S \in [Share -> Port \cup {None}]
  BY <1>1
<1>3. ASSUME NEW a \in Share, NEW b \in Share, S[a] = S[b], S[a] # None
      PROVE  a = b
  BY <1>1, <1>3 DEF Apart
<1> QED
  BY <1>2, <1>3 DEF Whole!Server!Manifest, Port

\* Where every share is listed once, the first entry is the only one.
LEMMA OneEntry ==
    ASSUME NEW sh \in [Share -> Served \cup {None}], NEW m, Lists(m, sh), NEW s \in Share,
           \E e \in m : e.name = s
    PROVE  FirstEntry(m, s) = EntryOf(m, s)
<1>1. \A e, f \in m : e.name = s /\ f.name = s => e = f
  BY DEF Lists
<1>2. m \in SUBSET [name : Share, port : Port]
  BY ServingFacts DEF Lists, Serving
<1>3. FirstEntry(m, s) \in m /\ FirstEntry(m, s).name = s
  BY <1>2, FirstIsEntry
<1>4. EntryOf(m, s) \in m /\ EntryOf(m, s).name = s
  BY DEF EntryOf
<1> QED
  BY <1>1, <1>3, <1>4

-----------------------------------------------------------------------------
(* The invariant *)

LEMMA ClientIsItself == BothSpec => Spec
<1>1. BothInit => Init
  BY DEF BothInit
<1>2. [BothNext]_daemons => [Next]_vars
  BY DEF BothNext, ClientStarts, ClientSteps, LinkChanges, Polls, PollManifest, Tick,
         ServerEnds, Next, daemons, clientVars, vars
<1> QED
  BY <1>1, <1>2, PTL DEF BothSpec, Spec

\* Every step of the client keeps the ports of the manifest in order.
LEMMA StepOrdered == IInv /\ Ordered /\ [Next]_vars => Ordered'
<1> SUFFICES ASSUME IInv, Ordered, [Next]_vars PROVE Ordered'
  OBVIOUS
<1>a. /\ MaxPort \in Nat /\ next_port \in 0 .. (MaxPort + 1)
      /\ manifest \subseteq [name : Share, port : Port]
  BY ClientAssumption DEF ClientAssumption, IInv, Runtime, RuntimeType
<1>b. \A e \in manifest : e.port \in Nat /\ e.port < next_port
  BY <1>a DEF Ordered, Behind, Port
<1>1. CASE UNCHANGED <<manifest, next_port>>
  BY <1>1 DEF Ordered, Apart, Behind
<1>2. ASSUME NEW s, NEW o, AddShare(s, o) PROVE Ordered'
  <2>1. PICK p \in FreePorts :
          next_port' = p + 1 /\ manifest' = manifest \cup {[name |-> s, port |-> p]}
    BY <1>2 DEF AddShare, NextPort
  <2>2. p \in Nat /\ p >= next_port
    BY <1>a, <2>1 DEF FreePorts, Port
  <2>3. \A e \in manifest : e.port < p
    BY <1>a, <1>b, <2>2
  <2>4. Apart(manifest)'
    <3>1. \A e \in manifest : e.port # p
      BY <1>b, <2>2, <2>3
    <3> QED
      BY <2>1, <3>1 DEF Ordered, Apart
  <2>5. Behind(manifest, next_port)'
    BY <1>b, <2>1, <2>2, <2>3 DEF Behind
  <2> QED
    BY <2>4, <2>5 DEF Ordered
<1>3. ASSUME NEW s, AddRefused(s) PROVE Ordered'
  <2>1. manifest' = manifest
    BY <1>3 DEF AddRefused
  <2>2. next_port' \in Nat /\ next_port' >= next_port
    BY <1>a, <1>3 DEF AddRefused, FreePorts, Port, NextPort
  <2> QED
    BY <1>a, <1>b, <2>1, <2>2 DEF Ordered, Apart, Behind
<1>4. ASSUME NEW s, RemoveShare(s) PROVE Ordered'
  BY <1>4 DEF RemoveShare, Ordered, Apart, Behind
<1>5. CASE Exit
  BY <1>5 DEF Exit, Blank, Ordered, Apart, Behind
<1>6. CASE BootShares
  BY <1>1, <1>2, <1>3, <1>6 DEF BootShares, runtime
<1>7. ASSUME NEW h \in Handler, FinishAdd(h) \/ FinishRemove(h) PROVE Ordered'
  BY <1>1, <1>2, <1>3, <1>4, <1>7 DEF FinishAdd, FinishRemove, runtime
<1> QED
  BY <1>1, <1>5, <1>6, <1>7
     DEF Next, vars, Start, BootRemotes, BootList, BootConnect, Connect, ConnectRefused,
         RemoteAdd, RemoteRemove, ConnectRequest, Disconnect, PersistAdd, PersistRemove,
         OldDies, Shutdown, runtime

LEMMA OrderedInvariant == Spec => []Ordered
<1>1. Init => Ordered
  BY DEF Init, Ordered, Apart, Behind
<1> QED
  BY <1>1, StepOrdered, Invariance, PTL DEF Spec

-----------------------------------------------------------------------------
(* The refinement of LazyMount *)

\* What the client shows, before and after a step: a manifest, and while it runs
\* its offer.
LEMMA AnswerIs ==
    ASSUME IInv, IInv', Ordered, Ordered'
    PROVE  /\ Answer' \in Whole!Server!Manifest
           /\ daemon = "running" => Answer = Whole!Shown(Offers)
           /\ daemon' = "running" => Answer' = Whole!Shown(Offers')
<1>1. Answer' \in Whole!Server!Manifest
  <2>1. manifest' \in SUBSET [name : Share, port : Port] /\ Apart(manifest')
    BY DEF IInv, Runtime, RuntimeType, Ordered, Apart
  <2> QED
    BY <2>1, AnswerForm DEF Answer
<1>2. ASSUME daemon = "running" PROVE Answer = Whole!Shown(Offers)
  <2>1. Lists(manifest, shares) /\ shares \in [Share -> Served \cup {None}]
    BY <1>2 DEF IInv, Runtime, RuntimeType, Listed, Lists
  <2>2. \A s \in Share : (\E e \in manifest : e.name = s)
                            => FirstEntry(manifest, s) = EntryOf(manifest, s)
    BY <2>1, OneEntry
  <2> QED
    BY <1>2, <2>2 DEF Answer, Offers, Offered, Whole!Shown
<1>3. ASSUME daemon' = "running" PROVE Answer' = Whole!Shown(Offers')
  <2>1. Lists(manifest', shares') /\ shares' \in [Share -> Served \cup {None}]
    BY <1>3 DEF IInv, Runtime, RuntimeType, Listed, Lists
  <2>2. \A s \in Share : (\E e \in manifest' : e.name = s)
                            => FirstEntry(manifest', s) = EntryOf(manifest', s)
    BY <2>1, OneEntry
  <2> QED
    BY <1>3, <2>2 DEF Answer, Offers, Offered, Whole!Shown
<1> QED
  BY <1>1, <1>2, <1>3

\* The client of LazyMount is the one ClientDaemon implements.
LEMMA SameClient ==
    /\ Client!Begin <=> Whole!ClientSide!Begin
    /\ \A s \in Share : /\ Client!Add(s) <=> Whole!ClientSide!Add(s)
                        /\ Client!Withdraw(s) <=> Whole!ClientSide!Withdraw(s)
    /\ Client!Skip <=> Whole!ClientSide!Skip
    /\ Client!End <=> Whole!ClientSide!End
    /\ UNCHANGED Client!vars <=> UNCHANGED Whole!client
  BY DEF Client!Begin, Whole!ClientSide!Begin, Client!Add, Whole!ClientSide!Add,
         Client!Withdraw, Whole!ClientSide!Withdraw, Client!Skip, Whole!ClientSide!Skip,
         Client!End, Whole!ClientSide!End, Client!NoOffer, Whole!ClientSide!NoOffer,
         Client!vars, Whole!client

\* What is equal in both is equal in LazyMount.
LEMMA ClientStutters ==
    ASSUME UNCHANGED clientVars
    PROVE  UNCHANGED <<Answer, Whole!client>>
<1>1. Answer' = Answer
  BY DEF clientVars, runtime, Answer
<1>2. UNCHANGED Client!vars
  BY OfferStutter DEF clientVars, runtime
<1> QED
  BY <1>1, <1>2, SameClient

\* A start of the client begins a session with nothing on offer.
LEMMA StartBegins ==
    ASSUME IInv, IInv', Off, Ordered, Ordered', ClientStarts
    PROVE  Whole!ClientBegins
<1>1. Start /\ daemon = "off" /\ daemon' = "running"
  BY DEF ClientStarts, Start
<1>2. [Client!Next]_Client!vars
  BY <1>1, StepOffers DEF Next
<1>3. (daemon = "running") = FALSE /\ (daemon' = "running") = TRUE
  BY <1>1
<1>4. Client!Begin
  BY <1>2, <1>3
  DEF Client!Next, Client!Add, Client!Withdraw, Client!Skip, Client!End, Client!vars
<1>5. Answer' = Whole!Shown(Offers')
  BY <1>1, AnswerIs
<1> QED
  BY <1>4, <1>5, SameClient
  DEF ClientStarts, serverVars, Whole!ClientBegins, Whole!polling, Offers, Whole!Shown

\* The client's steps, from the start of its daemon on.
LEMMA StepChanges ==
    ASSUME IInv, IInv', Off, Ordered, Ordered', ClientSteps
    PROVE  [Whole!Next]_Whole!vars
<1>a. UNCHANGED <<Whole!history, link, mounts, Whole!polling, server_daemon>>
  BY DEF ClientSteps, serverVars, history, Whole!history, Whole!polling
<1>b. [Client!Next]_Client!vars
  BY StepOffers DEF ClientSteps
<1>1. CASE daemon = "running" /\ daemon' = "running"
  <2>1. Answer = Whole!Shown(Offers) /\ Answer' = Whole!Shown(Offers')
    BY <1>1, AnswerIs
  <2>2. (daemon = "running") = TRUE /\ (daemon' = "running") = TRUE
    BY <1>1
  <2>3. CASE UNCHANGED Client!vars
    <3>1. Offers' = Offers
      BY <2>3 DEF Client!vars, Offers
    <3> QED
      BY <1>a, <2>1, <2>3, <3>1, SameClient
      DEF Whole!vars, Whole!server, Whole!polling, Whole!Shown
  <2>4. CASE Client!Skip \/ \E s \in Share : Client!Add(s) \/ Client!Withdraw(s)
    <3>1. Whole!ClientChanges
      BY <1>a, <2>1, <2>4, SameClient DEF Whole!ClientChanges, Offers, Whole!Shown
    <3> QED
      BY <3>1 DEF Whole!Next
  <2> QED
    BY <1>b, <2>2, <2>3, <2>4 DEF Client!Next, Client!Begin, Client!End
<1>2. CASE daemon = "running" /\ daemon' # "running"
  <2>1. (daemon = "running") = TRUE /\ (daemon' = "running") = FALSE
    BY <1>2
  <2>2. Client!End
    BY <1>b, <2>1
    DEF Client!Next, Client!Begin, Client!Add, Client!Withdraw, Client!Skip, Client!vars
  <2>3. Answer' \in Whole!Server!Manifest
    BY AnswerIs
  <2>4. Whole!ClientEnds
    BY <1>a, <2>2, <2>3, SameClient DEF Whole!ClientEnds
  <2> QED
    BY <2>4 DEF Whole!Next
<1>3. CASE daemon # "running"
  <2>1. daemon' # "running"
    BY <1>3
    DEF ClientSteps, Next, Start, BootRemotes, BootList, BootConnect, BootShares,
        RemoteAdd, RemoteRemove, ConnectRequest, Disconnect, PersistAdd, PersistRemove,
        FinishAdd, FinishRemove, OldDies, Shutdown, Exit
  <2>2. UNCHANGED Whole!client
    BY <1>3, <2>1, SilentStutter, SameClient
  <2>3. CASE Answer' = Answer
    BY <1>a, <2>2, <2>3 DEF Whole!vars, Whole!server, Whole!polling
  <2>4. CASE Answer' # Answer
    <3>1. Answer' \in Whole!Server!Manifest
      BY AnswerIs
    <3>2. Whole!Server!ClientChanges(Answer')
      BY <1>a, <2>4
      DEF Whole!Server!ClientChanges, Whole!polling, Whole!Server!polling
    <3>3. Whole!ClientLingers
      BY <1>3, <1>a, <2>2, <3>1, <3>2 DEF Whole!ClientLingers
    <3> QED
      BY <3>3 DEF Whole!Next
  <2> QED
    BY <2>3, <2>4
<1> QED
  BY <1>1, <1>2, <1>3

\* client.rs and server.rs together implement LazyMount.
THEOREM TogetherImplement == BothSpec => ImplementsLazyMount
<1>1. BothInit => Whole!Init
  BY DEF BothInit
<1>2. ASSUME IInv, IInv', Off, Ordered, Ordered', [BothNext]_daemons
      PROVE  [Whole!Next]_Whole!vars
  <2>1. CASE ClientStarts
    BY <1>2, <2>1, StartBegins DEF Whole!Next
  <2>2. CASE ClientSteps
    BY <1>2, <2>2, StepChanges
  <2>3. CASE \E l \in LinkStates : LinkChanges(l)
    BY <2>3 DEF LinkChanges, Whole!Next
  <2>4. CASE Polls \/ Tick \/ ServerEnds
    BY <2>4 DEF Polls, PollManifest, Tick, ServerEnds, Whole!Next
  <2>5. CASE UNCHANGED daemons
    <3>1. UNCHANGED <<Answer, Whole!client>>
      BY <2>5, ClientStutters DEF daemons
    <3> QED
      BY <2>5, <3>1
      DEF daemons, serverVars, history, Whole!vars, Whole!server, Whole!polling,
          Whole!history
  <2> QED
    BY <1>2, <2>1, <2>2, <2>3, <2>4, <2>5 DEF BothNext
<1>3. Spec => [](IInv /\ Off /\ Ordered)
  BY Invariance, OffInvariant, OrderedInvariant, PTL
<1>4. BothSpec => Whole!Init /\ [][Whole!Next]_Whole!vars
  BY <1>1, <1>2, <1>3, ClientIsItself, PTL DEF BothSpec
<1> QED
  BY <1>4 DEF ImplementsLazyMount, Whole!Spec

-----------------------------------------------------------------------------
(* What was proved of LazyMount, for the daemons as they are *)

Facts == INSTANCE LazyMountProofs WITH
    offered <- Answer,
    session <- daemon = "running",
    offer <- Offers,
    next <- Upcoming,
    daemon <- server_daemon

LEMMA SamePeriod == Whole!Server!GracePeriod = Facts!Server!GracePeriod
  BY DEF Whole!Server!GracePeriod, Facts!Server!GracePeriod

LEMMA Bounds == Facts!LazyMountAssumption
  BY DaemonsAssumption, SamePeriod
  DEF DaemonsAssumption, Whole!LazyMountAssumption, Facts!LazyMountAssumption,
      Whole!Server!AllLinkStates, Facts!Server!AllLinkStates

\* The two instances of ServerDaemon are one...
LEMMA SameServerSteps ==
    /\ \A l : Whole!Server!LinkChanges(l) <=> Facts!Server!LinkChanges(l)
    /\ \A m : Whole!Server!ClientChanges(m) <=> Facts!Server!ClientChanges(m)
    /\ Whole!Server!Tick <=> Facts!Server!Tick
    /\ Whole!Server!PollStart <=> Facts!Server!PollStart
    /\ Whole!Server!PollManifest <=> Facts!Server!PollManifest
    /\ Whole!Server!PollGarbled <=> Facts!Server!PollGarbled
    /\ Whole!Server!PollFailed <=> Facts!Server!PollFailed
    /\ Whole!Server!Reconcile <=> Facts!Server!Reconcile
    /\ Whole!Server!Expire <=> Facts!Server!Expire
    /\ Whole!Server!Signal <=> Facts!Server!Signal
    /\ Whole!Server!Shutdown <=> Facts!Server!Shutdown
    /\ Whole!Server!Exit <=> Facts!Server!Exit
    /\ Whole!Server!Manifest = Facts!Server!Manifest
    /\ Whole!Server!Mounted = Facts!Server!Mounted
    /\ Whole!Server!Mounted' = Facts!Server!Mounted'
<1>1. /\ Whole!Server!MountKey = Facts!Server!MountKey
      /\ Whole!Server!NoMounts = Facts!Server!NoMounts
      /\ Whole!Server!Mounted = Facts!Server!Mounted
      /\ Whole!Server!Mounted' = Facts!Server!Mounted'
      /\ Whole!Server!CurrentNames = Facts!Server!CurrentNames
      /\ Whole!Server!Manifest = Facts!Server!Manifest
  BY DEF Whole!Server!MountKey, Facts!Server!MountKey, Whole!Server!NoMounts,
         Facts!Server!NoMounts, Whole!Server!Mounted, Facts!Server!Mounted,
         Whole!Server!CurrentNames, Facts!Server!CurrentNames, Whole!Server!Manifest,
         Facts!Server!Manifest
<1>2. /\ \A m, b : Whole!Server!ReconciledMounts(m, b) = Facts!Server!ReconciledMounts(m, b)
      /\ \A m : Whole!Server!Changed(m) <=> Facts!Server!Changed(m)
      /\ \A n : /\ Whole!Server!CountFailure(n) = Facts!Server!CountFailure(n)
                /\ Whole!Server!GraceIsOver(n) <=> Facts!Server!GraceIsOver(n)
      /\ Whole!Server!GoToSleep <=> Facts!Server!GoToSleep
  BY <1>1, SamePeriod
  DEF Whole!Server!ReconciledMounts, Facts!Server!ReconciledMounts,
      Whole!Server!ManifestNames, Facts!Server!ManifestNames, Whole!Server!Changed,
      Facts!Server!Changed, Whole!Server!CountFailure, Facts!Server!CountFailure,
      Whole!Server!GraceIsOver, Facts!Server!GraceIsOver, Whole!Server!GoToSleep,
      Facts!Server!GoToSleep
<1> USE DEF Whole!Server!env, Facts!Server!env, Whole!Server!polling, Facts!Server!polling
<1>3. /\ \A l : Whole!Server!LinkChanges(l) <=> Facts!Server!LinkChanges(l)
      /\ \A m : Whole!Server!ClientChanges(m) <=> Facts!Server!ClientChanges(m)
      /\ Whole!Server!Tick <=> Facts!Server!Tick
  BY DEF Whole!Server!LinkChanges, Facts!Server!LinkChanges, Whole!Server!ClientChanges,
         Facts!Server!ClientChanges, Whole!Server!Tick, Facts!Server!Tick,
         Whole!Server!Later, Facts!Server!Later
<1>4. /\ Whole!Server!PollStart <=> Facts!Server!PollStart
      /\ Whole!Server!PollManifest <=> Facts!Server!PollManifest
      /\ Whole!Server!PollGarbled <=> Facts!Server!PollGarbled
      /\ Whole!Server!PollFailed <=> Facts!Server!PollFailed
  BY <1>2
  DEF Whole!Server!PollStart, Facts!Server!PollStart, Whole!Server!PollManifest,
      Facts!Server!PollManifest, Whole!Server!PollGarbled, Facts!Server!PollGarbled,
      Whole!Server!PollFailed, Facts!Server!PollFailed,
      Whole!Server!FailuresAfterAnswer, Facts!Server!FailuresAfterAnswer
<1>5. /\ Whole!Server!Reconcile <=> Facts!Server!Reconcile
      /\ Whole!Server!Expire <=> Facts!Server!Expire
      /\ Whole!Server!Signal <=> Facts!Server!Signal
      /\ Whole!Server!Shutdown <=> Facts!Server!Shutdown
      /\ Whole!Server!Exit <=> Facts!Server!Exit
  BY <1>1, <1>2
  DEF Whole!Server!Reconcile, Facts!Server!Reconcile, Whole!Server!Expire,
      Facts!Server!Expire, Whole!Server!Signal, Facts!Server!Signal,
      Whole!Server!Shutdown, Facts!Server!Shutdown, Whole!Server!Exit, Facts!Server!Exit
<1> QED
  BY <1>1, <1>3, <1>4, <1>5

\* ... and those of LazyMount.
LEMMA SameWhole == Whole!Spec => Facts!Spec
<1>1. Whole!Init => Facts!Init
  BY DEF Whole!Init, Facts!Init, Whole!Server!Init, Facts!Server!Init,
         Whole!ClientSide!Init, Facts!ClientSide!Init, Whole!ClientSide!NoOffer,
         Facts!ClientSide!NoOffer, Whole!Shown, Facts!Shown, Whole!Server!Manifest,
         Facts!Server!Manifest, Whole!Server!NoMounts, Facts!Server!NoMounts,
         Whole!Server!MountKey, Facts!Server!MountKey, Offers, Upcoming
<1>2. Whole!Next => Facts!Next
  <2> USE DEF Offers, Upcoming, Whole!history, Facts!history, Whole!client, Facts!client,
              Whole!polling, Facts!polling, Whole!server, Facts!server
  <2>1. /\ Whole!ClientSide!Begin <=> Facts!ClientSide!Begin
        /\ \A s : /\ Whole!ClientSide!Add(s) <=> Facts!ClientSide!Add(s)
                  /\ Whole!ClientSide!Withdraw(s) <=> Facts!ClientSide!Withdraw(s)
        /\ Whole!ClientSide!Skip <=> Facts!ClientSide!Skip
        /\ Whole!ClientSide!End <=> Facts!ClientSide!End
    BY DEF Whole!ClientSide!Begin, Facts!ClientSide!Begin, Whole!ClientSide!Add,
           Facts!ClientSide!Add, Whole!ClientSide!Withdraw, Facts!ClientSide!Withdraw,
           Whole!ClientSide!Skip, Facts!ClientSide!Skip, Whole!ClientSide!End,
           Facts!ClientSide!End, Whole!ClientSide!NoOffer, Facts!ClientSide!NoOffer
  <2>2. /\ Whole!ClientBegins => Facts!ClientBegins
        /\ Whole!ClientChanges => Facts!ClientChanges
        /\ Whole!ClientEnds => Facts!ClientEnds
        /\ Whole!ClientLingers => Facts!ClientLingers
    BY <2>1, SameServerSteps
    DEF Whole!ClientBegins, Facts!ClientBegins, Whole!ClientChanges, Facts!ClientChanges,
        Whole!ClientEnds, Facts!ClientEnds, Whole!ClientLingers, Facts!ClientLingers,
        Whole!Shown, Facts!Shown
  <2>3. /\ \A l : Whole!LinkChanges(l) => Facts!LinkChanges(l)
        /\ Whole!PollManifest => Facts!PollManifest
        /\ Whole!Reconcile => Facts!Reconcile
        /\ Whole!Tick => Facts!Tick
        /\ Whole!PollOther => Facts!PollOther
        /\ Whole!ServerEnds => Facts!ServerEnds
    BY SameServerSteps
    DEF Whole!LinkChanges, Facts!LinkChanges, Whole!PollManifest, Facts!PollManifest,
        Whole!Reconcile, Facts!Reconcile, Whole!Tick, Facts!Tick, Whole!PollOther,
        Facts!PollOther, Whole!ServerEnds, Facts!ServerEnds
  <2> QED
    BY <2>2, <2>3 DEF Whole!Next, Facts!Next
<1>3. UNCHANGED Whole!vars => UNCHANGED Facts!vars
  BY DEF Whole!vars, Facts!vars, Whole!server, Facts!server, Whole!client, Facts!client,
         Whole!history, Facts!history, Whole!polling, Facts!polling, Offers, Upcoming
<1> QED
  BY <1>1, <1>2, <1>3, PTL DEF Whole!Spec, Facts!Spec

\* From the port shares.rs picks to the mount table of the server, no share is
\* taken for another while the client daemon runs.
THEOREM OwnFolders == BothSpec => []ShowsItsFolder
<1>1. ASSUME IInv, Facts!OwnFolder PROVE ShowsItsFolder
  <2> SUFFICES ASSUME daemon = "running", NEW k \in Whole!Server!Mounted \cap current,
                      NEW t \in Serving(shares), shares[t].port = mounts[k]
               PROVE  t = k[2]
    BY DEF ShowsItsFolder
  <2>1. k \in Facts!Server!Mounted \cap current /\ t \in Share /\ shares[t] # None
    BY SameServerSteps DEF Serving
  <2>2. Lists(manifest, shares)
    BY <1>1 DEF IInv, Listed, Lists
  <2>3. Offers[t] = shares[t].port
    <3>1. (\E e \in manifest : e.name = t) /\ EntryOf(manifest, t).port = shares[t].port
      BY <2>1, <2>2, Entry
    <3>2. Offered(t) = shares[t].port
      BY <3>1 DEF Offered
    <3> QED
      BY <2>1, <3>2 DEF Offers
  <2> QED
    BY <1>1, <2>1, <2>3 DEF Facts!OwnFolder
<1>2. Facts!Spec => []Facts!OwnFolder
  BY Bounds, Facts!NeverAnotherFolder
<1> QED
  BY <1>1, <1>2, TogetherImplement, SameWhole, ClientIsItself, Invariance, PTL
  DEF ImplementsLazyMount

\* What is proved of the server holds in front of client.rs as it is: its mounts
\* are apart, on the last manifest and in reach of the grace period (kept as a u32);
\* nothing is unmounted without cause; and mounts get nearer to what the manifest
\* of this client lists, or to their end while it does not answer.
THEOREM ServerKeeps ==
    BothSpec =>
        /\ [](/\ Facts!ServerFacts!OneMountPerPoint /\ Facts!ServerFacts!GraceArmed
              /\ Facts!ServerFacts!NothingForgotten /\ Facts!ServerFacts!NoStaleMounts
              /\ Facts!ServerFacts!ExpireOnlyAfterGrace)
        /\ Facts!ServerFacts!UnmountedForCause
        /\ Facts!ServerFacts!OfflineProgress /\ Facts!ServerFacts!OnlineProgress
        /\ Facts!ServerFacts!MirrorsOffers
  BY Bounds, Facts!ServerHolds, TogetherImplement, SameWhole, PTL DEF ImplementsLazyMount

=============================================================================
