------------------------ MODULE PortAllocatorProofs ------------------------
(***************************************************************************)
(* Theorems about PortAllocator, for any shares, any word, any span of the *)
(* search and any programs that compete for the ports.                     *)
(***************************************************************************)
EXTENDS PortAllocator, TLAPS

\* An orphan is listening.
Orphans == \A x \in stray : x.kind = "orphan" => x.bound

\* Until it wraps, the counter is past every port it has given out, and no port
\* is that of two.
Used ==
    ~wrapped =>
        /\ SftpStart <= next
        /\ \A s \in Served : SftpStart <= share[s] /\ share[s] < next
        /\ \A x \in stray : x.kind = "killed" => x.port < next

StraysApart ==
    ~wrapped =>
        \A s \in Served, x \in stray :
            x.kind \in {"killed", "orphan"} => x.port # share[s]

\* Shares that are served have ports of their own.
PortsApart ==
    ~wrapped => \A s, t \in Served : share[s] = share[t] => s = t

IInv == TypeOK /\ Orphans /\ Used /\ PortsApart /\ StraysApart

-----------------------------------------------------------------------------
(* The invariant *)

LEMMA Ports == None \notin Port /\ SftpStart \in Port /\ SftpStart > 0 /\ MaxPort \in Nat
  BY PortAssumption DEF PortAssumption, Port

LEMMA InitIInv == Init => IInv
<1> SUFFICES ASSUME Init PROVE IInv
  OBVIOUS
<1>1. TypeOK
  BY Ports DEF Init, TypeOK
<1>2. Served = {} /\ stray = {}
  BY DEF Init, Served
<1>3. Used
  BY <1>2, Ports DEF Init, Used, Port
<1> QED
  BY <1>1, <1>2, <1>3 DEF IInv, Orphans, PortsApart, StraysApart

\* A port that was found is in the range of the counter and held by nobody.
LEMMA Found ==
    ASSUME TypeOK, NEW p \in Port, Finds(p)
    PROVE  /\ next <= p
           /\ NextPort(p) \in Port
           /\ p # MaxPort => NextPort(p) = p + 1
           /\ p # 0 => \A x \in stray : x.bound => x.port # p
<1>1. next <= p /\ p \notin Held
  BY DEF Finds, Scan, IsAvailable
<1>2. NextPort(p) \in Port /\ (p # MaxPort => NextPort(p) = p + 1)
  BY Ports DEF NextPort, Port
<1>3. ASSUME NEW x \in stray, x.bound, p # 0 PROVE x.port # p
  BY <1>1, <1>3 DEF Held
<1> QED
  BY <1>1, <1>2, <1>3

\* A daemon that ends, and leaves only rclones behind that it had not killed.
LEMMA AllGone ==
    ASSUME TypeOK, NoShares, Orphans', running' \in BOOLEAN,
           others' \subseteq Contested, stray' \subseteq Stray,
           \A x \in stray' : x.kind # "killed"
    PROVE  IInv'
<1>1. TypeOK'
  BY Ports DEF NoShares, TypeOK
<1>2. Served' = {}
  BY DEF NoShares, Served
<1>3. Used'
  BY <1>2, Ports DEF NoShares, Used, Port
<1> QED
  BY <1>1, <1>2, <1>3 DEF IInv, PortsApart, StraysApart

\* The rclones left behind are strays, and none is marked as killed.
LEMMA AbandonedFacts ==
    ASSUME TypeOK, Orphans
    PROVE  /\ Abandoned \subseteq Stray
           /\ \A x \in Abandoned : x.kind # "killed" /\ (x.kind = "orphan" => x.bound)
<1> SUFFICES ASSUME NEW x \in Abandoned
             PROVE  x \in Stray /\ x.kind # "killed" /\ (x.kind = "orphan" => x.bound)
  OBVIOUS
<1>1. CASE x \in stray /\ x.kind # "killed"
  BY <1>1 DEF TypeOK, Orphans
<1>2. CASE \E y \in stray : x = [y EXCEPT !.kind = LeftAlone(y.bound)]
  <2>1. PICK y \in stray : x = [y EXCEPT !.kind = LeftAlone(y.bound)]
    BY <1>2
  <2>2. y \in [port : Port, kind : {"killed", "orphan", "latecomer"}, bound : BOOLEAN]
    BY DEF TypeOK, Stray
  <2>3. LeftAlone(y.bound) \in {"orphan", "latecomer"}
        /\ (LeftAlone(y.bound) = "orphan" => y.bound)
    BY DEF LeftAlone
  <2> QED
    BY <2>1, <2>2, <2>3 DEF Stray
<1>3. CASE \E s \in Served :
        x = [port |-> share[s], kind |-> LeftAlone(s \in Bound), bound |-> s \in Bound]
  <2>1. PICK s \in Served :
          x = [port |-> share[s], kind |-> LeftAlone(s \in Bound), bound |-> s \in Bound]
    BY <1>3
  <2>2. share[s] \in Port
    BY DEF TypeOK, Served
  <2>3. CASE s \in Bound
    BY <2>1, <2>2, <2>3 DEF LeftAlone, Stray
  <2>4. CASE s \notin Bound
    BY <2>1, <2>2, <2>4 DEF LeftAlone, Stray
  <2> QED
    BY <2>3, <2>4
<1> QED
  BY <1>1, <1>2, <1>3 DEF Abandoned

LEMMA NextIInv == IInv /\ [Next]_vars => IInv'
<1> SUFFICES ASSUME IInv, [Next]_vars PROVE IInv'
  OBVIOUS
<1>0. TypeOK /\ Orphans /\ Used /\ PortsApart /\ StraysApart
  BY DEF IInv
<1>1. ASSUME NEW s \in Share, AddShare(s) PROVE IInv'
  <2>1. PICK p \in Port :
          /\ Finds(p)
          /\ next' = NextPort(p)
          /\ wrapped' = (wrapped \/ p = MaxPort)
          /\ \/ /\ share' = [share EXCEPT ![s] = p]
                /\ child' = [child EXCEPT ![s] = "starting"]
             \/ UNCHANGED <<share, child>>
    BY <1>1 DEF AddShare
  <2>2. UNCHANGED <<running, stray, others>>
    BY <1>1 DEF AddShare
  <2>3. TypeOK'
    BY <1>0, <2>1, <2>2, Found DEF TypeOK
  <2>4. Orphans'
    BY <1>0, <2>2 DEF Orphans
  <2>5. CASE wrapped'
    BY <2>3, <2>4, <2>5 DEF IInv, Used, PortsApart, StraysApart
  <2>6. CASE ~wrapped'
    <3>1. ~wrapped /\ p # MaxPort /\ next' = p + 1 /\ next <= p
      BY <1>0, <2>1, <2>6, Found DEF TypeOK
    <3>2. SftpStart <= next /\ p # 0 /\ p \in Int /\ next \in Int /\ SftpStart \in Int
      BY <1>0, <3>1, Ports DEF Used, TypeOK, Port
    <3>3. \A x \in stray : x.bound => x.port # p
      BY <1>0, <2>1, <3>2, Found
    <3>4. \A t \in Served' : \/ t = s /\ share'[t] = p
                             \/ t \in Served /\ share'[t] = share[t]
      <4>1. CASE share' = [share EXCEPT ![s] = p]
        BY <1>0, <4>1 DEF Served, TypeOK
      <4>2. CASE share' = share
        BY <4>2 DEF Served
      <4> QED
        BY <2>1, <4>1, <4>2
    <3>5. \A t \in Served : share[t] \in Int /\ share[t] < next
      BY <1>0, <3>1 DEF Used, Served, TypeOK, Port
    <3>6. \A x \in stray : x.port \in Int
      BY <1>0 DEF TypeOK, Stray, Port
    <3>7. Used'
      BY <1>0, <2>2, <3>1, <3>2, <3>4, <3>5, <3>6 DEF Used
    <3>8. PortsApart'
      BY <1>0, <3>1, <3>2, <3>4, <3>5 DEF PortsApart
    <3>9. StraysApart'
      BY <1>0, <2>2, <3>1, <3>2, <3>3, <3>4, <3>5, <3>6
      DEF StraysApart, Used, Orphans
    <3> QED
      BY <2>3, <2>4, <3>7, <3>8, <3>9 DEF IInv
  <2> QED
    BY <2>5, <2>6
<1>2. ASSUME NEW s \in Share, RemoveShare(s) PROVE IInv'
  <2> DEFINE x == [port |-> share[s], kind |-> "killed", bound |-> s \in Bound]
  <2>1. /\ s \in Served /\ share' = [share EXCEPT ![s] = None]
        /\ child' = [child EXCEPT ![s] = "none"]
        /\ stray' = stray \/ stray' = stray \cup {x}
        /\ UNCHANGED <<running, next, others, wrapped>>
    BY <1>2 DEF RemoveShare, Signalled
  <2>2. x \in Stray /\ x.kind = "killed" /\ x.port = share[s]
    BY <1>0, <2>1 DEF TypeOK, Served, Stray
  <2>3. Served' = Served \ {s} /\ \A t \in Served' : share'[t] = share[t]
    BY <1>0, <2>1 DEF Served, TypeOK
  <2> HIDE DEF x
  <2>4. TypeOK'
    BY <1>0, <2>1, <2>2 DEF TypeOK
  <2>5. Orphans' /\ Used' /\ PortsApart' /\ StraysApart'
    BY <1>0, <2>1, <2>2, <2>3 DEF Orphans, Used, PortsApart, StraysApart
  <2> QED
    BY <2>4, <2>5 DEF IInv
<1>3. ASSUME NEW s \in Share, Binds(s) \/ Fails(s) \/ Monitors(s)
      PROVE  IInv'
  BY <1>0, <1>3 DEF Binds, Fails, Monitors, Restarts, RestartFails, IInv, TypeOK, Orphans,
                    Used, PortsApart, StraysApart, Served
<1>4. ASSUME NEW x \in stray, StrayBinds(x) PROVE IInv'
  <2> DEFINE y == [x EXCEPT !.bound = TRUE]
  <2>1. stray' = (stray \ {x}) \cup {y}
        /\ UNCHANGED <<running, next, share, child, others, wrapped>>
    BY <1>4 DEF StrayBinds
  <2>2. y \in Stray /\ y.kind = x.kind /\ y.port = x.port /\ y.bound
    BY <1>0 DEF TypeOK, Stray
  <2> HIDE DEF y
  <2> QED
    BY <1>0, <2>1, <2>2
    DEF IInv, TypeOK, Orphans, Used, PortsApart, StraysApart, Served
<1>5. ASSUME NEW x \in stray, StrayEnds(x) PROVE IInv'
  BY <1>0, <1>5 DEF StrayEnds, IInv, TypeOK, Orphans, Used, PortsApart, StraysApart, Served
<1>6. ASSUME NEW p \in Contested, OthersChange(p) PROVE IInv'
  BY <1>0, <1>6
  DEF OthersChange, IInv, TypeOK, Orphans, Used, PortsApart, StraysApart, Served
<1>7. ASSUME Start PROVE IInv'
  BY <1>0, <1>7 DEF Start, IInv, TypeOK, Orphans, Used, PortsApart, StraysApart, Served
<1>8. ASSUME Exit PROVE IInv'
  <2>1. Orphans' /\ stray' \subseteq Stray /\ \A x \in stray' : x.kind # "killed"
    BY <1>0, <1>8 DEF Exit, TypeOK, Orphans
  <2>2. running' \in BOOLEAN /\ others' \subseteq Contested /\ NoShares
    BY <1>0, <1>8 DEF Exit, TypeOK
  <2> QED
    BY <1>0, <2>1, <2>2, AllGone
<1>9. ASSUME Crash PROVE IInv'
  <2>1. Orphans' /\ stray' \subseteq Stray /\ \A x \in stray' : x.kind # "killed"
    BY <1>0, <1>9, AbandonedFacts DEF Crash, Orphans
  <2>2. running' \in BOOLEAN /\ others' \subseteq Contested /\ NoShares
    BY <1>0, <1>9 DEF Crash, TypeOK
  <2> QED
    BY <1>0, <2>1, <2>2, AllGone
<1>10. CASE UNCHANGED vars
  BY <1>0, <1>10 DEF vars, IInv, TypeOK, Orphans, Used, PortsApart, StraysApart, Served
<1> QED
  BY <1>1, <1>2, <1>3, <1>4, <1>5, <1>6, <1>7, <1>8, <1>9, <1>10 DEF Next

THEOREM Invariance == Spec => []IInv
  BY InitIInv, NextIInv, PTL DEF Spec

-----------------------------------------------------------------------------
(* The results *)

\* What a sum or a difference of two words is as a word.
LEMMA WordOf ==
    ASSUME MaxPort \in Nat, NEW n \in -MaxPort .. 2 * MaxPort
    PROVE  n % (MaxPort + 1) = IF n < 0 THEN n + (MaxPort + 1)
                               ELSE IF n > MaxPort THEN n - (MaxPort + 1) ELSE n
  BY Z3

\* TunnelPort is one-to-one: the tunnels of two ports never meet, wherever the
\* two ranges begin and even when the sum wraps.
LEMMA TunnelPortInjective ==
    ASSUME NEW p \in Port, NEW q \in Port, TunnelPort(p) = TunnelPort(q)
    PROVE  p = q
<1>1. /\ MaxPort \in Nat /\ TunnelStart \in 0 .. MaxPort /\ SftpStart \in 0 .. MaxPort
      /\ p \in 0 .. MaxPort /\ q \in 0 .. MaxPort
  BY PortAssumption DEF PortAssumption, Port
<1>2. /\ TunnelStart + p - SftpStart \in -MaxPort .. 2 * MaxPort
      /\ TunnelStart + q - SftpStart \in -MaxPort .. 2 * MaxPort
  BY <1>1
<1> DEFINE Word(n) == IF n < 0 THEN n + (MaxPort + 1)
                      ELSE IF n > MaxPort THEN n - (MaxPort + 1) ELSE n
<1>3. /\ TunnelPort(p) = Word(TunnelStart + p - SftpStart)
      /\ TunnelPort(q) = Word(TunnelStart + q - SftpStart)
  BY <1>1, <1>2, WordOf DEF TunnelPort
<1>4. Word(TunnelStart + p - SftpStart) = Word(TunnelStart + q - SftpStart)
  BY <1>3
<1> QED
  BY <1>1, <1>4

\* A control port that is in the gap is no tunnel port of the range.
LEMMA TunnelNotControl ==
    ASSUME NEW p \in Port, SftpStart <= p, ControlInGap
    PROVE  TunnelPort(p) # Control
<1>1. /\ MaxPort \in Nat /\ TunnelStart \in 0 .. MaxPort /\ SftpStart \in 0 .. MaxPort
      /\ p \in 0 .. MaxPort /\ Control \in 0 .. MaxPort
  BY PortAssumption DEF PortAssumption, Port
<1>2. TunnelStart + p - SftpStart \in 0 .. 2 * MaxPort
  BY <1>1
<1> QED
  BY <1>1, <1>2, WordOf DEF TunnelPort, ControlInGap

\* Counter, shares and the rclones of no share keep to their types; in
\* particular the counter stays a port when it wraps.
THEOREM TypeCorrect == Spec => []TypeOK
<1>1. IInv => TypeOK
  BY DEF IInv
<1> QED
  BY <1>1, Invariance, PTL

\* add_share gives each share a port of its own, whatever the others listen on.
THEOREM Apart == Spec => []PortsApart
<1>1. IInv => PortsApart
  BY DEF IInv
<1> QED
  BY <1>1, Invariance, PTL

\* The tunnels of the shares do not meet each other, however the ranges of
\* ports lie; and they do not meet the control port if it is configured in the
\* gap, as by default, which config.rs does not demand.
THEOREM TunnelsMeetNobody == Spec => []TunnelsApart
<1>1. IInv => TunnelsApart
  <2> SUFFICES ASSUME IInv, ~wrapped, NEW s \in Served
               PROVE  /\ ControlInGap => TunnelPort(share[s]) # Control
                      /\ \A t \in Served :
                            TunnelPort(share[s]) = TunnelPort(share[t]) => s = t
    BY DEF TunnelsApart
  <2>1. \A t \in Served : share[t] \in Port
    BY DEF IInv, TypeOK, Served
  <2>2. SftpStart <= share[s]
    BY DEF IInv, Used
  <2>3. ASSUME NEW t \in Served, TunnelPort(share[s]) = TunnelPort(share[t]) PROVE s = t
    BY <2>1, <2>3, TunnelPortInjective DEF IInv, PortsApart
  <2> QED
    BY <2>1, <2>2, <2>3, TunnelNotControl
<1> QED
  BY <1>1, Invariance, PTL

\* Neither a removed share nor one of an earlier daemon answers for a share.
THEOREM OwnFolder == Spec => []NoStrayAnswers
<1>1. IInv => NoStrayAnswers
  BY DEF IInv, TypeOK, Stray, StraysApart, NoStrayAnswers
<1> QED
  BY <1>1, Invariance, PTL

-----------------------------------------------------------------------------
(* The refinement of ShareOffer, up to the wrap *)

\* The offer of the mapping, and its counter.
Offered == [s \in Share |-> IF share[s] = None THEN None ELSE share[s] - SftpStart]

Handed == (IF wrapped THEN MaxPort + 1 ELSE next) - SftpStart

\* Steps that leave the shares and the counter alone are not seen.
LEMMA Unseen ==
    ASSUME UNCHANGED <<running, next, share, wrapped>>
    PROVE  UNCHANGED Offer!vars
  BY DEF Offer!vars

\* add_share gives out the next port but one, or any later, and uses up those
\* before it.
LEMMA AddOffers ==
    ASSUME IInv, ~wrapped, NEW s \in Share, AddShare(s)
    PROVE  Offer!Add(s) \/ Offer!Skip
<1>1. PICK p \in Port :
        /\ Finds(p)
        /\ next' = NextPort(p)
        /\ wrapped' = (wrapped \/ p = MaxPort)
        /\ \/ share' = [share EXCEPT ![s] = p]
           \/ UNCHANGED share
  BY DEF AddShare
<1>2. TypeOK /\ SftpStart <= next
  BY DEF IInv, Used
<1>3. next <= p /\ (p # MaxPort => NextPort(p) = p + 1)
  BY <1>1, <1>2, Found
<1>4. /\ p \in Int /\ next \in Int /\ SftpStart \in Int /\ MaxPort \in Int
      /\ p <= MaxPort
  BY <1>2, Ports DEF TypeOK, Port
<1>5. Handed = next - SftpStart
  BY DEF Handed
<1>6. Handed' = p + 1 - SftpStart
  <2>1. CASE p = MaxPort
    <3>1. wrapped'
      BY <1>1, <2>1, Zenon
    <3> QED
      BY <1>4, <2>1, <3>1 DEF Handed
  <2>2. CASE p # MaxPort
    <3>1. ~wrapped'
      BY <1>1, <2>2, Zenon
    <3>2. next' = p + 1
      BY <1>1, <1>3, <2>2
    <3> QED
      BY <1>4, <3>1, <3>2 DEF Handed
  <2> QED
    BY <2>1, <2>2
<1>7. running /\ running' /\ running' = running
  BY DEF AddShare
<1>8. CASE UNCHANGED share
  <2>1. Handed' \in (Handed + 1) .. ((MaxPort - SftpStart) + 1)
    BY <1>3, <1>4, <1>5, <1>6
  <2>2. Offered' = Offered
    BY <1>8 DEF Offered
  <2> QED
    BY <1>7, <2>1, <2>2 DEF Offer!Skip, Offered, Handed
<1>9. CASE share' = [share EXCEPT ![s] = p]
  <2>1. p - SftpStart \in Handed .. (MaxPort - SftpStart)
    BY <1>3, <1>4, <1>5
  <2>2. Handed' = (p - SftpStart) + 1
    BY <1>4, <1>6
  <2>3. Offered' = [Offered EXCEPT ![s] = p - SftpStart]
    <3>1. p # None
      BY Ports
    <3>2. \A t \in Share : share'[t] = IF t = s THEN p ELSE share[t]
      BY <1>2, <1>9 DEF TypeOK
    <3> QED
      BY <3>1, <3>2 DEF Offered
  <2>4. Offered[s] = None
    BY DEF Offered, AddShare
  <2> QED
    BY <1>7, <2>1, <2>2, <2>3, <2>4 DEF Offer!Add, Offered, Handed
<1> QED
  BY <1>1, <1>8, <1>9

LEMMA RemoveOffers ==
    ASSUME IInv, ~wrapped, NEW s \in Share, RemoveShare(s)
    PROVE  Offer!Withdraw(s)
<1>1. share' = [share EXCEPT ![s] = None] /\ share[s] \in Port
  BY DEF RemoveShare, Served, IInv, TypeOK
<1>2. Offered' = [Offered EXCEPT ![s] = None]
  <2>1. \A t \in Share : share'[t] = IF t = s THEN None ELSE share[t]
    BY <1>1 DEF IInv, TypeOK
  <2> QED
    BY <2>1 DEF Offered
<1>3. Offered[s] # None
  <2>1. share[s] - SftpStart \in Port
    <3>1. SftpStart <= share[s]
      BY DEF RemoveShare, IInv, Used
    <3> QED
      BY <1>1, <3>1, Ports DEF Port
  <2> QED
    BY <1>1, <2>1, Ports DEF Offered
<1>4. running /\ UNCHANGED <<running, Handed>>
  BY DEF RemoveShare, Handed
<1> QED
  BY <1>2, <1>3, <1>4 DEF Offer!Withdraw, Offered, Handed

\* When the daemon is gone, nothing is offered and no port is given out.
LEMMA EndOffers ==
    ASSUME running, running' = FALSE, NoShares
    PROVE  Offer!End
<1>1. Offered' = [s \in Share |-> None]
  BY DEF NoShares, Offered
<1>2. Handed' = 0
  BY Ports DEF NoShares, Handed, Port
<1> QED
  BY <1>1, <1>2 DEF Offer!End, Offer!NoOffer, Offered, Handed

\* find_available_port and add_share keep what ShareOffer promises, for any
\* word, span and range and whatever the other programs and the strays do: what
\* is proved of the two daemons with ShareOffer in the client's place holds of
\* the real allocation as long as its counter has not wrapped.
THEOREM Offers == Spec => OffersUntilWrap
<1> DEFINE Step == ~wrapped => Offer!Next \/ UNCHANGED Offer!vars
<1>1. Init => Offer!Init
  <2> SUFFICES ASSUME Init PROVE Offer!Init
    OBVIOUS
  <2>1. Offered = [s \in Share |-> None]
    BY DEF Init, Offered
  <2>2. Handed = 0
    BY Ports DEF Init, Handed, Port
  <2> QED
    BY <2>1, <2>2 DEF Init, Offer!Init, Offer!NoOffer, Offered, Handed
<1>2. ASSUME IInv, Next PROVE Step
  <2> SUFFICES ASSUME ~wrapped PROVE Offer!Next \/ UNCHANGED Offer!vars
    OBVIOUS
  <2>1. ASSUME NEW s \in Share, AddShare(s) PROVE Offer!Next
    BY <1>2, <2>1, AddOffers DEF Offer!Next
  <2>2. ASSUME NEW s \in Share, RemoveShare(s) PROVE Offer!Next
    BY <1>2, <2>2, RemoveOffers DEF Offer!Next
  <2>3. CASE Exit \/ Crash
    <3>1. Offer!End
      BY <2>3, EndOffers DEF Exit, Crash
    <3> QED
      BY <3>1 DEF Offer!Next
  <2>4. CASE Start
    <3>1. Offer!Begin
      BY <2>4 DEF Start, Offer!Begin
    <3> QED
      BY <3>1 DEF Offer!Next
  <2>5. ASSUME NEW s \in Share, Binds(s) \/ Fails(s) \/ Monitors(s)
        PROVE  UNCHANGED Offer!vars
    BY <2>5, Unseen DEF Binds, Fails, Monitors, Restarts, RestartFails
  <2>6. ASSUME NEW x \in stray, StrayBinds(x) \/ StrayEnds(x)
        PROVE  UNCHANGED Offer!vars
    BY <2>6, Unseen DEF StrayBinds, StrayEnds
  <2>7. ASSUME NEW p \in Contested, OthersChange(p) PROVE UNCHANGED Offer!vars
    BY <2>7, Unseen DEF OthersChange
  <2> QED
    BY <1>2, <2>1, <2>2, <2>3, <2>4, <2>5, <2>6, <2>7 DEF Next
<1>3. IInv /\ [Next]_vars => [Step]_vars
  BY <1>2
<1>4. Spec => Offer!Init /\ [][Step]_vars
  BY <1>1, <1>3, Invariance, PTL DEF Spec
<1> QED
  BY <1>4 DEF OffersUntilWrap

=============================================================================
