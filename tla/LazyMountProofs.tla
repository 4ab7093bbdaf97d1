--------------------------- MODULE LazyMountProofs ---------------------------
(***************************************************************************)
(* Theorems about LazyMount, for every set of shares, every range of ports *)
(* and every interval and grace period.                                    *)
(*                                                                         *)
(* OwnFolder is not inductive: a mount may show a wrong folder only by way *)
(* of a port that was given out twice, and the port passes from the offer  *)
(* to the manifest, to the poll loop's reply and to the mount table.  IInv *)
(* says at each of these places that the port is its share's own.          *)
(***************************************************************************)
EXTENDS LazyMount, TLAPS

\* A port of s: given out already, so that no share gets it any more, and now
\* offered for no other share.
OwnPort(s, p) ==
    p # None => p < next /\ \A t \in Share : offer[t] = p => t = s

PortOrNone == 0 .. MaxPort \cup {None}

Manifests == [client : {Host}, shares : [Share -> PortOrNone]]

Types ==
    /\ session \in BOOLEAN
    /\ offer \in [Share -> PortOrNone]
    /\ next \in Nat
    /\ offered \in Manifests
    /\ reply \in Manifests \cup {None}
    /\ mounts \in [Server!MountKey -> PortOrNone]

OffersOwn == \A s \in Share : OwnPort(s, offer[s])

ShowsOffer == session => offered = Shown(offer)

\* A reply that is waited with was taken; its ports are its shares' own when
\* the client is still in the session it was taken in.
ReplyOwn ==
    /\ reply # None <=> poller = "reconcile"
    /\ session /\ fresh /\ reply # None =>
          \A s \in Share : OwnPort(s, reply.shares[s])

MountsOwn ==
    session => \A k \in Server!Mounted \cap current : OwnPort(k[2], mounts[k])

IInv ==
    /\ Types
    /\ OffersOwn
    /\ ShowsOffer
    /\ ReplyOwn
    /\ MountsOwn

-----------------------------------------------------------------------------

LEMMA InitIInv ==
    ASSUME LazyMountAssumption, Init
    PROVE  IInv
<1>a. MaxPort \in Nat /\ None \notin 0 .. MaxPort
  BY DEF LazyMountAssumption
<1>1. offer = [s \in Share |-> None] /\ session = FALSE /\ next = 0
  BY DEF Init, ClientSide!Init, ClientSide!NoOffer
<1>2. mounts = [k \in Server!MountKey |-> None] /\ reply = None
  BY DEF Init, Server!Init, Server!NoMounts
<1>3. Types
  BY <1>1, <1>2 DEF Init, Shown, Types, Manifests, PortOrNone
<1>4. OffersOwn
  BY <1>1 DEF OffersOwn, OwnPort
<1>5. ShowsOffer /\ ReplyOwn /\ MountsOwn
  BY <1>1, <1>2 DEF Init, Server!Init, ShowsOffer, ReplyOwn, MountsOwn
<1> QED
  BY <1>3, <1>4, <1>5 DEF IInv

\* A port stays a share's own while the client gives out others.
LEMMA OwnPortStays ==
    ASSUME LazyMountAssumption, Types, NEW s \in Share, NEW p \in PortOrNone, OwnPort(s, p),
           \/ \E u \in Share : ClientSide!Add(u) \/ ClientSide!Withdraw(u)
           \/ ClientSide!Skip
    PROVE  OwnPort(s, p)'
<1>a. MaxPort \in Nat /\ None \notin 0 .. MaxPort
  BY DEF LazyMountAssumption
<1>1. CASE ClientSide!Skip
  BY <1>1, <1>a DEF ClientSide!Skip, OwnPort, Types, PortOrNone
<1>2. ASSUME NEW u \in Share, ClientSide!Withdraw(u) PROVE OwnPort(s, p)'
  BY <1>2, <1>a DEF ClientSide!Withdraw, OwnPort, Types, PortOrNone
<1>3. ASSUME NEW u \in Share, ClientSide!Add(u) PROVE OwnPort(s, p)'
  BY <1>3, <1>a DEF ClientSide!Add, OwnPort, Types, PortOrNone
<1> QED
  BY <1>1, <1>2, <1>3

\* What the client offers after any change is its own, and typed.
LEMMA OfferChanges ==
    ASSUME LazyMountAssumption, Types, OffersOwn,
           \/ \E u \in Share : ClientSide!Add(u) \/ ClientSide!Withdraw(u)
           \/ ClientSide!Skip
    PROVE  /\ offer' \in [Share -> PortOrNone]
           /\ next' \in Nat
           /\ session /\ session'
           /\ OffersOwn'
<1>a. MaxPort \in Nat /\ None \notin 0 .. MaxPort
  BY DEF LazyMountAssumption
<1>1. CASE ClientSide!Skip
  BY <1>1, <1>a DEF ClientSide!Skip, OffersOwn, OwnPort, Types, PortOrNone
<1>2. ASSUME NEW u \in Share, ClientSide!Withdraw(u)
      PROVE  /\ offer' \in [Share -> PortOrNone]
             /\ next' \in Nat
             /\ session /\ session'
             /\ OffersOwn'
  BY <1>2, <1>a DEF ClientSide!Withdraw, OffersOwn, OwnPort, Types, PortOrNone
<1>3. ASSUME NEW u \in Share, ClientSide!Add(u)
      PROVE  /\ offer' \in [Share -> PortOrNone]
             /\ next' \in Nat
             /\ session /\ session'
             /\ OffersOwn'
  <2>1. PICK p \in next .. MaxPort :
            offer' = [offer EXCEPT ![u] = p] /\ next' = p + 1
    BY <1>3 DEF ClientSide!Add
  <2>2. p \in 0 .. MaxPort /\ p \in Nat /\ p >= next
    BY <2>1, <1>a DEF Types
  <2>3. /\ offer' \in [Share -> PortOrNone]
        /\ next' \in Nat
    BY <2>1, <2>2, <1>a DEF Types, PortOrNone
  <2>4. session /\ session'
    BY <1>3 DEF ClientSide!Add, Types
  <2>5. OffersOwn'
    <3> SUFFICES ASSUME NEW s \in Share, offer'[s] # None
                 PROVE  /\ offer'[s] < next'
                        /\ \A t \in Share : offer'[t] = offer'[s] => t = s
      BY DEF OffersOwn, OwnPort
    <3>1. CASE s = u
      <4>1. offer'[s] = p
        BY <2>1, <3>1 DEF Types
      <4>2. \A t \in Share : t # u => offer'[t] = offer[t]
        BY <2>1 DEF Types
      <4>3. \A t \in Share : offer[t] # p
        BY <2>2, <1>a DEF Types, OffersOwn, OwnPort, PortOrNone
      <4> QED
        BY <2>1, <2>2, <3>1, <4>1, <4>2, <4>3
    <3>2. CASE s # u
      <4>1. offer'[s] = offer[s] /\ offer[s] \in 0 .. MaxPort
        BY <2>1, <3>2 DEF Types, PortOrNone
      <4>2. offer[s] < next /\ \A t \in Share : offer[t] = offer[s] => t = s
        BY <4>1, <1>a DEF OffersOwn, OwnPort
      <4>3. offer'[u] = p
        BY <2>1 DEF Types
      <4>4. \A t \in Share : t # u => offer'[t] = offer[t]
        BY <2>1 DEF Types
      <4>5. p # offer[s]
        BY <2>2, <4>1, <4>2 DEF Types
      <4>6. offer'[s] < next'
        BY <2>1, <2>2, <4>1, <4>2 DEF Types
      <4> QED
        BY <4>1, <4>2, <4>3, <4>4, <4>5, <4>6
    <3> QED
      BY <3>1, <3>2
  <2> QED
    BY <2>3, <2>4, <2>5
<1> QED
  BY <1>1, <1>2, <1>3

\* The server's steps that mount nothing and take no manifest.
LEMMA OnlyUnmounting ==
    ASSUME IInv, UNCHANGED <<client, offered, history>>,
           UNCHANGED reply, poller' = "reconcile" <=> poller = "reconcile",
           mounts' \in [Server!MountKey -> PortOrNone],
           \A k \in Server!MountKey : mounts'[k] = mounts[k] \/ mounts'[k] = None
    PROVE  IInv'
<1> USE DEF IInv
<1>1. Types'
  BY DEF Types, client
<1>2. OffersOwn'
  BY DEF OffersOwn, client, OwnPort
<1>3. ShowsOffer'
  BY DEF ShowsOffer, client, Shown
<1>4. ReplyOwn'
  BY DEF ReplyOwn, client, history, OwnPort
<1>5. MountsOwn'
  <2>1. \A k \in Server!Mounted' : k \in Server!Mounted /\ mounts'[k] = mounts[k]
    BY DEF Server!Mounted
  <2> QED
    BY <2>1 DEF MountsOwn, client, history, OwnPort
<1> QED
  BY <1>1, <1>2, <1>3, <1>4, <1>5

-----------------------------------------------------------------------------

\* The client's own steps.
LEMMA ClientStep ==
    ASSUME LazyMountAssumption, IInv,
           ClientBegins \/ ClientChanges \/ ClientEnds \/ ClientLingers
    PROVE  IInv'
<1> USE DEF IInv
<1>1. CASE ClientBegins
  <2>1. UNCHANGED <<offer, next, mounts, reply, poller>> /\ session' = TRUE
    BY <1>1 DEF ClientBegins, ClientSide!Begin, polling
  <2>2. offered' = Shown(offer)' /\ fresh' = FALSE /\ current' = {}
    BY <1>1 DEF ClientBegins
  <2>3. Types'
    BY <2>1, <2>2 DEF Types, Manifests, Shown
  <2>4. OffersOwn'
    BY <2>1 DEF OffersOwn, OwnPort
  <2>5. ShowsOffer' /\ ReplyOwn' /\ MountsOwn'
    BY <2>1, <2>2 DEF ShowsOffer, ReplyOwn, MountsOwn
  <2> QED
    BY <2>3, <2>4, <2>5
<1>2. CASE ClientChanges
  <2>a. \/ \E u \in Share : ClientSide!Add(u) \/ ClientSide!Withdraw(u)
        \/ ClientSide!Skip
    BY <1>2 DEF ClientChanges
  <2>1. UNCHANGED <<mounts, reply, poller, fresh, current>>
    BY <1>2 DEF ClientChanges, polling, history
  <2>2. /\ offer' \in [Share -> PortOrNone] /\ next' \in Nat
        /\ session /\ session'
        /\ OffersOwn'
    BY <2>a, OfferChanges
  <2>3. Types'
    BY <1>2, <2>1, <2>2 DEF ClientChanges, Types, Manifests, Shown
  <2>4. ShowsOffer'
    BY <1>2 DEF ClientChanges, ShowsOffer
  <2>5. \A s \in Share, q \in PortOrNone : OwnPort(s, q) => OwnPort(s, q)'
    BY <2>a, OwnPortStays
  <2>6. ReplyOwn'
    <3> SUFFICES ASSUME fresh', reply' # None, NEW s \in Share
                 PROVE  OwnPort(s, reply.shares[s])'
      BY <2>1 DEF ReplyOwn
    <3>1. OwnPort(s, reply.shares[s]) /\ reply.shares[s] \in PortOrNone
      BY <2>1, <2>2 DEF ReplyOwn, Types, Manifests
    <3>2. PICK q \in PortOrNone : q = reply.shares[s]
      BY <3>1
    <3>3. OwnPort(s, q)'
      BY <2>5, <3>1, <3>2
    <3> QED
      BY <2>1, <3>2, <3>3 DEF OwnPort
  <2>7. MountsOwn'
    <3> SUFFICES ASSUME NEW k \in (Server!Mounted \cap current)'
                 PROVE  OwnPort(k[2], mounts[k])'
      BY DEF MountsOwn
    <3>1. k \in Server!Mounted \cap current /\ k \in Server!MountKey
      BY <2>1 DEF Server!Mounted
    <3>2. OwnPort(k[2], mounts[k]) /\ mounts[k] \in PortOrNone /\ k[2] \in Share
      BY <2>2, <3>1 DEF MountsOwn, Types, Server!MountKey
    <3>3. PICK q \in PortOrNone : q = mounts[k]
      BY <3>2
    <3>4. OwnPort(k[2], q)'
      BY <2>5, <3>2, <3>3
    <3> QED
      BY <2>1, <3>3, <3>4 DEF OwnPort
  <2> QED
    BY <2>2, <2>3, <2>4, <2>6, <2>7
<1>3. CASE ClientEnds
  <2>1. session' = FALSE /\ offer' = [s \in Share |-> None] /\ next' = 0
    BY <1>3 DEF ClientEnds, ClientSide!End, ClientSide!NoOffer
  <2>2. UNCHANGED <<mounts, reply, poller>> /\ offered' \in Manifests
    BY <1>3 DEF ClientEnds, polling, Server!Manifest, Manifests, PortOrNone
  <2>3. Types'
    BY <2>1, <2>2 DEF Types, PortOrNone
  <2>4. OffersOwn'
    BY <2>1 DEF OffersOwn, OwnPort
  <2>5. ShowsOffer' /\ ReplyOwn' /\ MountsOwn'
    BY <2>1, <2>2 DEF ShowsOffer, ReplyOwn, MountsOwn
  <2> QED
    BY <2>3, <2>4, <2>5
<1>4. CASE ClientLingers
  <2>1. UNCHANGED <<session, offer, next, mounts, reply, poller, fresh, current>>
    BY <1>4 DEF ClientLingers, Server!ClientChanges, Server!polling, client, history
  <2>2. ~session
    BY <1>4 DEF ClientLingers
  <2>3. offered' \in Manifests
    BY <1>4 DEF ClientLingers, Server!ClientChanges, Server!Manifest, Manifests, PortOrNone
  <2>4. Types' /\ OffersOwn'
    BY <2>1, <2>3 DEF Types, OffersOwn, OwnPort
  <2>5. ShowsOffer' /\ ReplyOwn' /\ MountsOwn'
    BY <2>1, <2>2 DEF ShowsOffer, ReplyOwn, MountsOwn
  <2> QED
    BY <2>4, <2>5
<1> QED
  BY <1>1, <1>2, <1>3, <1>4

\* A manifest is taken: in a session it shows what the client offers.
LEMMA ManifestStep ==
    ASSUME LazyMountAssumption, IInv, PollManifest
    PROVE  IInv'
<1> USE DEF IInv
<1>1. UNCHANGED <<session, offer, next, offered, mounts, current>>
  BY DEF PollManifest, client, Server!PollManifest, Server!env
<1>2. \/ reply' = offered /\ poller' = "reconcile"
      \/ reply' = reply /\ poller = "request" /\ poller' = "sleep"
  BY DEF PollManifest, Server!PollManifest, Server!GoToSleep
<1>3. fresh' = session
  BY DEF PollManifest
<1>4. OffersOwn' /\ ShowsOffer' /\ MountsOwn'
  BY <1>1 DEF OffersOwn, ShowsOffer, MountsOwn, OwnPort, Shown, Server!Mounted
<1>5. Types'
  BY <1>1, <1>2 DEF Types
<1>6. offered # None
  BY DEF LazyMountAssumption, Types, Manifests, PortOrNone
<1>7. ReplyOwn'
  BY <1>1, <1>2, <1>3, <1>6 DEF ReplyOwn, ShowsOffer, Shown, OffersOwn, OwnPort
<1> QED
  BY <1>4, <1>5, <1>7

\* reconcile_mounts: what was mounted stays as it was or goes, and what is new
\* comes from the reply.
LEMMA ReconcileStep ==
    ASSUME IInv, Reconcile
    PROVE  IInv'
<1> USE DEF IInv
<1>1. UNCHANGED <<session, offer, next, offered, fresh>> /\ reply' = None
  BY DEF Reconcile, client, Server!Reconcile, Server!env
<1>2. poller = "reconcile" /\ reply # None /\ poller' = "sleep"
  BY DEF Reconcile, Server!Reconcile, Server!GoToSleep, ReplyOwn
<1>3. PICK broken \in SUBSET Flaky : mounts' = Server!ReconciledMounts(reply, broken)
  BY DEF Reconcile, Server!Reconcile
<1>4. \A k \in Server!MountKey :
        \/ mounts'[k] = mounts[k] \/ mounts'[k] = None
        \/ mounts[k] = None /\ mounts'[k] = reply.shares[k[2]]
  <2> SUFFICES ASSUME NEW k \in Server!MountKey,
                      mounts'[k] # mounts[k], mounts'[k] # None
               PROVE  mounts[k] = None /\ mounts'[k] = reply.shares[k[2]]
    OBVIOUS
  <2>1. /\ k[2] \in Server!ManifestNames(reply) \ (Server!CurrentNames \cup broken)
        /\ mounts'[k] = reply.shares[k[2]]
    BY <1>3 DEF Server!ReconciledMounts
  <2>2. k \notin Server!Mounted
    BY <2>1 DEF Server!CurrentNames
  <2> QED
    BY <2>1, <2>2 DEF Server!Mounted
<1>5. reply.shares \in [Share -> PortOrNone]
  BY <1>2 DEF Types, Manifests
<1>6. Types'
  <2>1. \A k \in Server!MountKey : mounts'[k] \in PortOrNone
    BY <1>4, <1>5 DEF Types, PortOrNone, Server!MountKey
  <2>2. mounts' = [k \in Server!MountKey |-> mounts'[k]]
    BY <1>3 DEF Server!ReconciledMounts
  <2>3. mounts' \in [Server!MountKey -> PortOrNone]
    BY <2>1, <2>2
  <2> QED
    BY <1>1, <2>3 DEF Types
<1>7. OffersOwn' /\ ShowsOffer' /\ ReplyOwn'
  BY <1>1, <1>2 DEF OffersOwn, ShowsOffer, ReplyOwn, OwnPort, Shown
<1>8. MountsOwn'
  <2> SUFFICES ASSUME session', NEW k \in (Server!Mounted \cap current)'
               PROVE  OwnPort(k[2], mounts[k])'
    BY DEF MountsOwn
  <2>1. k \in Server!MountKey /\ mounts'[k] # None /\ k[2] \in Share
    BY DEF Server!Mounted, Server!MountKey
  <2>2. IF k \in Server!Mounted THEN k \in current ELSE fresh
    BY DEF Reconcile
  <2>3. OwnPort(k[2], mounts'[k])
    <3>1. CASE k \in Server!Mounted
      <4>1. mounts'[k] = mounts[k]
        BY <1>4, <2>1, <3>1 DEF Server!Mounted
      <4> QED
        BY <1>1, <2>2, <3>1, <4>1 DEF MountsOwn
    <3>2. CASE k \notin Server!Mounted
      <4>1. mounts[k] = None
        BY <2>1, <3>2 DEF Server!Mounted
      <4>2. mounts'[k] = reply.shares[k[2]]
        BY <1>4, <2>1, <4>1
      <4> QED
        BY <1>1, <1>2, <2>1, <2>2, <3>2, <4>2 DEF ReplyOwn
    <3> QED
      BY <3>1, <3>2
  <2> QED
    BY <1>1, <2>3 DEF OwnPort
<1> QED
  BY <1>6, <1>7, <1>8

-----------------------------------------------------------------------------

LEMMA StepIInv ==
    ASSUME LazyMountAssumption, IInv, [Next]_vars
    PROVE  IInv'
<1>a. mounts \in [Server!MountKey -> PortOrNone] /\ None \in PortOrNone
  BY DEF IInv, Types, PortOrNone
<1>1. CASE ClientBegins \/ ClientChanges \/ ClientEnds \/ ClientLingers
  BY <1>1, ClientStep
<1>2. ASSUME NEW l \in LinkStates, LinkChanges(l) PROVE IInv'
  BY <1>2, <1>a, OnlyUnmounting DEF LinkChanges, Server!LinkChanges, Server!polling
<1>3. CASE PollManifest
  BY <1>3, ManifestStep
<1>4. CASE Reconcile
  BY <1>4, ReconcileStep
<1>5. CASE Tick
  BY <1>5, <1>a, OnlyUnmounting DEF Tick, Server!Tick, Server!env
<1>6. CASE PollOther
  <2>1. UNCHANGED <<client, history>>
    BY <1>6 DEF PollOther
  <2>2. CASE Server!PollStart \/ Server!PollGarbled \/ Server!PollFailed
    <3>1. UNCHANGED <<offered, mounts, reply>>
      BY <2>2 DEF Server!PollStart, Server!PollGarbled, Server!PollFailed, Server!env
    <3>2. poller # "reconcile" /\ poller' # "reconcile"
      BY <2>2 DEF Server!PollStart, Server!PollGarbled, Server!PollFailed,
                  Server!GoToSleep
    <3> QED
      BY <1>a, <2>1, <3>1, <3>2, OnlyUnmounting
  <2>3. CASE Server!Expire
    <3>1. UNCHANGED <<offered, reply>> /\ mounts' = [k \in Server!MountKey |-> None]
      BY <2>3 DEF Server!Expire, Server!env, Server!NoMounts
    <3>2. poller # "reconcile" /\ poller' # "reconcile"
      BY <2>3 DEF Server!Expire, Server!GoToSleep
    <3> QED
      BY <1>a, <2>1, <3>1, <3>2, OnlyUnmounting
  <2> QED
    BY <1>6, <2>2, <2>3 DEF PollOther
<1>7. CASE ServerEnds
  <2>1. UNCHANGED <<client, history>>
    BY <1>7 DEF ServerEnds
  <2>2. UNCHANGED <<offered, reply, poller>>
    BY <1>7 DEF ServerEnds, Server!Signal, Server!Shutdown, Server!Exit, Server!env,
                Server!polling
  <2>3. \/ UNCHANGED mounts
        \/ mounts' = [k \in Server!MountKey |-> None]
        \/ \E left \in SUBSET Server!Mounted :
              mounts' = [k \in Server!MountKey |->
                            IF k \in left THEN mounts[k] ELSE None]
    BY <1>7 DEF ServerEnds, Server!Signal, Server!Shutdown, Server!Exit,
                Server!NoMounts
  <2>4. /\ mounts' \in [Server!MountKey -> PortOrNone]
        /\ \A k \in Server!MountKey : mounts'[k] = mounts[k] \/ mounts'[k] = None
    BY <1>a, <2>3
  <2> QED
    BY <2>1, <2>2, <2>4, OnlyUnmounting
<1>8. CASE UNCHANGED vars
  <2>1. UNCHANGED <<client, offered, history, reply, poller, mounts>>
    BY <1>8 DEF vars, server, polling
  <2> QED
    BY <1>a, <2>1, OnlyUnmounting
<1> QED
  BY <1>1, <1>2, <1>3, <1>4, <1>5, <1>6, <1>7, <1>8 DEF Next

THEOREM Invariance ==
    ASSUME LazyMountAssumption
    PROVE  Spec => []IInv
<1>1. Init => IInv
  BY InitIInv
<1>2. IInv /\ [Next]_vars => IInv'
  BY StepIInv
<1> QED
  BY <1>1, <1>2, PTL DEF Spec

\* A mount that was made in this session of the client never shows another
\* share's folder, whatever is polled, changed or restarted in between.
THEOREM NeverAnotherFolder ==
    ASSUME LazyMountAssumption
    PROVE  Spec => []OwnFolder
<1>1. IInv => OwnFolder
  <2> SUFFICES ASSUME IInv, session, NEW k \in Server!Mounted \cap current,
                      NEW t \in Share, offer[t] = mounts[k]
               PROVE  t = k[2]
    BY DEF OwnFolder
  <2>1. mounts[k] # None
    BY DEF Server!Mounted
  <2> QED
    BY <2>1 DEF IInv, MountsOwn, OwnPort
<1> QED
  BY <1>1, Invariance, PTL

-----------------------------------------------------------------------------

\* What the client does is what ServerDaemon allows it to do.
LEMMA ClientIsEnvironment ==
    ASSUME IInv, IInv', ClientBegins \/ ClientChanges \/ ClientEnds
    PROVE  [Server!Next]_(Server!vars)
<1>1. UNCHANGED <<link, mounts, polling, daemon>>
  BY DEF ClientBegins, ClientChanges, ClientEnds
<1>2. offered' \in Server!Manifest
  <2>1. CASE ClientEnds
    BY <2>1 DEF ClientEnds
  <2>2. CASE ClientBegins \/ ClientChanges
    <3>1. offered' = Shown(offer')
      BY <2>2 DEF ClientBegins, ClientChanges
    <3>2. offer' \in [Share -> PortOrNone] /\ OffersOwn'
      BY DEF IInv, Types
    <3> QED
      BY <3>1, <3>2 DEF Shown, Server!Manifest, OffersOwn, OwnPort, PortOrNone
  <2> QED
    BY <2>1, <2>2
<1>3. offered' = offered \/ Server!ClientChanges(offered')
  BY <1>1 DEF Server!ClientChanges, polling, Server!polling
<1>4. CASE offered' = offered
  BY <1>1, <1>4 DEF polling, Server!vars, Server!env, Server!polling
<1> QED
  BY <1>2, <1>3, <1>4 DEF Server!Next

\* The whole is made of its parts: what ServerDaemon and ShareOffer say of any
\* environment holds of the two daemons together, so the invariants proved of
\* ServerDaemon do, and those of ClientDaemon about what it offers.
THEOREM MadeOfItsParts ==
    ASSUME LazyMountAssumption
    PROVE  Spec => Server!Spec /\ ClientSide!Spec
<1>1. Init => Server!Init /\ ClientSide!Init
  BY DEF Init
<1>2. ASSUME IInv, IInv', [Next]_vars PROVE [Server!Next]_(Server!vars)
  <2>1. CASE ClientBegins \/ ClientChanges \/ ClientEnds
    BY <1>2, <2>1, ClientIsEnvironment
  <2>2. ASSUME NEW l \in LinkStates, LinkChanges(l) PROVE Server!Next
    BY <2>2 DEF LinkChanges, Server!Next
  <2>3. CASE ClientLingers \/ PollManifest \/ Reconcile \/ Tick \/ PollOther \/ ServerEnds
    BY <2>3
    DEF ClientLingers, PollManifest, Reconcile, Tick, PollOther, ServerEnds, Server!Next
  <2>4. CASE UNCHANGED vars
    BY <2>4 DEF vars, server, polling, Server!vars, Server!env, Server!polling
  <2> QED
    BY <1>2, <2>1, <2>2, <2>3, <2>4 DEF Next
<1>3. ASSUME [Next]_vars PROVE [ClientSide!Next]_(ClientSide!vars)
  <2>1. CASE ClientBegins \/ ClientChanges \/ ClientEnds
    BY <2>1 DEF ClientBegins, ClientChanges, ClientEnds, ClientSide!Next
  <2>2. CASE UNCHANGED client
    BY <2>2 DEF client, ClientSide!vars
  <2>3. CASE UNCHANGED vars
    BY <2>3 DEF vars, client, ClientSide!vars
  <2>4. ClientLingers \/ PollManifest \/ Reconcile \/ Tick \/ PollOther \/ ServerEnds
            => UNCHANGED client
    BY DEF ClientLingers, PollManifest, Reconcile, Tick, PollOther, ServerEnds
  <2>5. (\E l \in LinkStates : LinkChanges(l)) => UNCHANGED client
    BY DEF LinkChanges
  <2> QED
    BY <1>3, <2>1, <2>2, <2>3, <2>4, <2>5 DEF Next
<1> QED
  BY <1>1, <1>2, <1>3, Invariance, PTL DEF Spec, Server!Spec, ClientSide!Spec


-----------------------------------------------------------------------------
(* What was proved of the server, for the whole *)

ServerFacts == INSTANCE ServerDaemonProofs WITH Client <- {Host}, Port <- 0 .. MaxPort

LEMMA ServerBounds ==
    ASSUME LazyMountAssumption
    PROVE  ServerFacts!ServerAssumption
<1>1. Server!GracePeriod = ServerFacts!GracePeriod
  BY DEF Server!GracePeriod, ServerFacts!GracePeriod
<1> QED
  BY <1>1
  DEF LazyMountAssumption, ServerFacts!ServerAssumption, ServerFacts!Manifest,
      ServerFacts!AllLinkStates, Server!AllLinkStates

\* The two instances of ServerDaemon are one.
LEMMA SameServer == Server!Spec => ServerFacts!Spec
<1>1. Server!Init => ServerFacts!Init
  BY DEF Server!Init, ServerFacts!Init, Server!Manifest, ServerFacts!Manifest,
         Server!NoMounts, ServerFacts!NoMounts, Server!MountKey, ServerFacts!MountKey
<1>2. ServerFacts!vars = Server!vars
  BY DEF Server!vars, ServerFacts!vars, Server!env, ServerFacts!env, Server!polling,
         ServerFacts!polling
<1>3. /\ Server!Manifest = ServerFacts!Manifest
      /\ Server!NoMounts = ServerFacts!NoMounts
      /\ Server!Mounted = ServerFacts!Mounted
      /\ \A m : /\ Server!Changed(m) <=> ServerFacts!Changed(m)
                /\ \A b : Server!ReconciledMounts(m, b) = ServerFacts!ReconciledMounts(m, b)
  <2>1. Server!MountKey = ServerFacts!MountKey
    BY DEF Server!MountKey, ServerFacts!MountKey
  <2>2. Server!Mounted = ServerFacts!Mounted
    BY <2>1 DEF Server!Mounted, ServerFacts!Mounted
  <2>3. Server!CurrentNames = ServerFacts!CurrentNames
    BY <2>2 DEF Server!CurrentNames, ServerFacts!CurrentNames
  <2>4. \A m, b : Server!ReconciledMounts(m, b) = ServerFacts!ReconciledMounts(m, b)
    BY <2>1, <2>3
    DEF Server!ReconciledMounts, ServerFacts!ReconciledMounts, Server!ManifestNames,
        ServerFacts!ManifestNames
  <2>5. \A m : Server!Changed(m) <=> ServerFacts!Changed(m)
    BY DEF Server!Changed, ServerFacts!Changed
  <2>6. /\ Server!Manifest = ServerFacts!Manifest
        /\ Server!NoMounts = ServerFacts!NoMounts
    BY <2>1 DEF Server!Manifest, ServerFacts!Manifest, Server!NoMounts, ServerFacts!NoMounts
  <2> QED
    BY <2>2, <2>4, <2>5, <2>6
<1>4. /\ Server!env = ServerFacts!env
      /\ Server!polling = ServerFacts!polling
      /\ Server!GoToSleep <=> ServerFacts!GoToSleep
  BY DEF Server!env, ServerFacts!env, Server!polling, ServerFacts!polling,
         Server!GoToSleep, ServerFacts!GoToSleep
<1>5. Server!Next => ServerFacts!Next
  <2> USE <1>3, <1>4 DEF Server!env, ServerFacts!env, Server!polling, ServerFacts!polling
  <2>1. /\ \A l : Server!LinkChanges(l) => ServerFacts!LinkChanges(l)
        /\ \A m : Server!ClientChanges(m) => ServerFacts!ClientChanges(m)
        /\ Server!Tick => ServerFacts!Tick
    BY DEF Server!LinkChanges, ServerFacts!LinkChanges, Server!ClientChanges,
           ServerFacts!ClientChanges, Server!Tick, ServerFacts!Tick, Server!Later,
           ServerFacts!Later
  <2>2. /\ Server!PollStart => ServerFacts!PollStart
        /\ Server!PollManifest => ServerFacts!PollManifest
        /\ Server!PollGarbled => ServerFacts!PollGarbled
        /\ Server!PollFailed => ServerFacts!PollFailed
    BY DEF Server!PollStart, ServerFacts!PollStart, Server!PollManifest,
           ServerFacts!PollManifest, Server!PollGarbled, ServerFacts!PollGarbled,
           Server!PollFailed, ServerFacts!PollFailed, Server!FailuresAfterAnswer,
           ServerFacts!FailuresAfterAnswer, Server!CountFailure,
           ServerFacts!CountFailure, Server!GraceIsOver, ServerFacts!GraceIsOver,
           Server!GracePeriod, ServerFacts!GracePeriod
  <2>3. /\ Server!Reconcile => ServerFacts!Reconcile
        /\ Server!Expire => ServerFacts!Expire
        /\ Server!Signal => ServerFacts!Signal
        /\ Server!Shutdown => ServerFacts!Shutdown
        /\ Server!Exit => ServerFacts!Exit
    BY DEF Server!Reconcile, ServerFacts!Reconcile, Server!Expire, ServerFacts!Expire,
           Server!Signal, ServerFacts!Signal, Server!Shutdown, ServerFacts!Shutdown,
           Server!Exit, ServerFacts!Exit, Server!MountKey, ServerFacts!MountKey
  <2> QED
    BY <2>1, <2>2, <2>3 DEF Server!Next, ServerFacts!Next
<1>6. [Server!Next]_Server!vars => [ServerFacts!Next]_ServerFacts!vars
  BY <1>4, <1>5 DEF Server!vars, ServerFacts!vars, Server!env, ServerFacts!env,
                    Server!polling, ServerFacts!polling
<1> QED
  BY <1>1, <1>6, PTL DEF Server!Spec, ServerFacts!Spec

\* What ServerDaemonProofs shows of the server holds of the two daemons together,
\* whatever the client does, with the one client there is: every mount is under a
\* mount point of its own, known to the last manifest and to the grace period,
\* which is kept as a u32; nothing is unmounted without cause; and the mounts get nearer
\* to what the client offers, or to their end while it does not answer.
THEOREM ServerHolds ==
    ASSUME LazyMountAssumption
    PROVE  Spec =>
            /\ [](/\ ServerFacts!OneMountPerPoint /\ ServerFacts!GraceArmed
                  /\ ServerFacts!NothingForgotten /\ ServerFacts!NoStaleMounts
                  /\ ServerFacts!ExpireOnlyAfterGrace)
            /\ ServerFacts!UnmountedForCause
            /\ ServerFacts!OfflineProgress /\ ServerFacts!OnlineProgress
            /\ ServerFacts!MirrorsOffers
<1>1. \A c, d \in {Host} : c = d
  OBVIOUS
<1>2. ServerFacts!Spec => [](ServerFacts!OneMountPerPoint /\ ServerFacts!GraceArmed)
  BY ServerBounds, ServerFacts!OneMount, ServerFacts!Armed, PTL
<1>3. ServerFacts!Spec => [](ServerFacts!NothingForgotten /\ ServerFacts!NoStaleMounts)
  BY <1>1, ServerBounds, ServerFacts!NoneForgotten, ServerFacts!NoneStale, PTL
<1>4. ServerFacts!Spec => []ServerFacts!ExpireOnlyAfterGrace
  BY ServerBounds, ServerFacts!GraceRespected
<1>5. ServerFacts!Spec => ServerFacts!UnmountedForCause
  BY ServerBounds, ServerFacts!OnlyForCause
<1>6. ServerFacts!Spec => ServerFacts!OfflineProgress
  BY ServerBounds, ServerFacts!ExpiryNears
<1>7. ServerFacts!Spec => ServerFacts!OnlineProgress
  BY <1>1, ServerBounds, ServerFacts!AgreementNears
<1>8. ServerFacts!Spec => ServerFacts!MirrorsOffers
  BY ServerBounds, ServerFacts!Refinement
<1> QED
  BY <1>2, <1>3, <1>4, <1>5, <1>6, <1>7, <1>8, MadeOfItsParts, SameServer, PTL

=============================================================================
