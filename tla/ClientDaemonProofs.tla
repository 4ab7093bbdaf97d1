------------------------- MODULE ClientDaemonProofs -------------------------
(***************************************************************************)
(* Theorems about ClientDaemon, for every set of remotes, shares and       *)
(* handlers, every port range and every set of faults.  The lock sections  *)
(* that change shares and tunnels are treated first, as steps of the       *)
(* runtime state alone; IInv adds what the two tasks between them do.      *)
(***************************************************************************)
EXTENDS ClientDaemon, TLAPS

RuntimeType ==
    /\ remotes \in [Remote -> {"unknown", "Disconnected", "Connected"}]
    /\ shares \in [Share -> Served \cup {None}]
    /\ next_port \in 0 .. (MaxPort + 1)
    /\ manifest \subseteq [name : Share, port : Port]
    /\ tunnels \in [Remote -> [ports : SUBSET Port, running : BOOLEAN] \cup {None}]
    /\ old \subseteq [remote : Remote, ports : SUBSET Port]

\* No port is handed out twice: those in use, by a share or by the mappings of
\* a chisel client, are behind next_port, and no two shares have the same.
PortsUsed ==
    /\ \A s \in Serving(shares) : shares[s].port < next_port
    /\ \A s, t \in Serving(shares) : shares[s].port = shares[t].port => s = t
    /\ \A c \in old : \A p \in c.ports : p < next_port
    /\ \A r \in Connected : \A p \in tunnels[r].ports : p < next_port

\* NoCrossExposure of every handle, whether its chisel client runs or not.
Exposure ==
    /\ \A c \in old, s \in Serving(shares) :
          shares[s].port \in c.ports => Entitled(shares[s].remotes, c.remote)
    /\ \A r \in Connected, s \in Serving(shares) :
          shares[s].port \in tunnels[r].ports => Entitled(shares[s].remotes, r)

Runtime == RuntimeType /\ PortsUsed /\ Exposure

Listed == manifest = {[name |-> s, port |-> shares[s].port] : s \in Serving(shares)}

Shown == {r \in Remote : remotes[r] = "Connected"} \subseteq Connected

-----------------------------------------------------------------------------
(* What the operators return. *)

\* The values of the two tables, and None, are told apart.
LEMMA Entries ==
    /\ \A x \in Served : x # None /\ x.port \in Port /\ x.remotes \in Offer
    /\ \A x \in [ports : SUBSET Port, running : BOOLEAN] :
          x # None /\ x.ports \subseteq Port /\ x.running \in BOOLEAN
  BY ClientAssumption DEF ClientAssumption, Served

\* A share that is served has a port and remotes.
LEMMA ServingFacts ==
    ASSUME NEW sh \in [Share -> Served \cup {None}], NEW s \in Serving(sh)
    PROVE  s \in Share /\ sh[s] \in Served /\ sh[s].port \in Port
  BY Entries DEF Serving

\* A handle has mappings.
LEMMA HandleFacts ==
    ASSUME RuntimeType, NEW r \in Connected
    PROVE  /\ r \in Remote
           /\ tunnels[r] \in [ports : SUBSET Port, running : BOOLEAN]
           /\ tunnels[r].ports \subseteq Port
  BY Entries DEF RuntimeType, Connected

\* tunnel_mappings_for_remote lists ports of shares that are for the remote.
LEMMA MappingsFacts ==
    ASSUME NEW sh \in [Share -> Served \cup {None}], NEW r \in Remote
    PROVE  /\ Mappings(sh, r) \subseteq Port
           /\ \A p \in Mappings(sh, r) : \E s \in Serving(sh) :
                 sh[s].port = p /\ Entitled(sh[s].remotes, r)
<1>1. \A s \in Serving(sh) : sh[s].port \in Port
  BY ServingFacts
<1> QED
  BY <1>1 DEF Mappings

\* update_tunnels leaves behind old processes, handles as they were but not
\* running, and handles with the mappings of the shares as they are now.
LEMMA UpdateFacts ==
    ASSUME RuntimeType, NEW sh \in [Share -> Served \cup {None}],
           NEW R \in SUBSET Connected, UpdateTunnels(R, sh)
    PROVE  /\ tunnels' \in [Remote -> [ports : SUBSET Port, running : BOOLEAN] \cup {None}]
           /\ old' \subseteq [remote : Remote, ports : SUBSET Port]
           /\ \A c \in old' : \/ c \in old
                              \/ \E r \in Connected :
                                    c.remote = r /\ c.ports = tunnels[r].ports
           /\ Connected' = Connected
           /\ \A r \in Connected :
                 \/ tunnels'[r].ports = tunnels[r].ports
                 \/ tunnels'[r].ports = Mappings(sh, r)
           /\ \A r \in Connected \ R : tunnels'[r] = tunnels[r]
           /\ \A r \in R : tunnels'[r].running => tunnels'[r].ports = Mappings(sh, r)
<1> DEFINE Handle == [ports : SUBSET Port, running : BOOLEAN]
<1>1. PICK failed \in SUBSET R :
        /\ old' = old \cup {[remote |-> r, ports |-> tunnels[r].ports] :
                              r \in {x \in R : tunnels[x].running}}
        /\ tunnels' = [r \in Remote |->
             IF r \notin R THEN tunnels[r]
             ELSE IF r \in failed THEN [ports |-> tunnels[r].ports, running |-> FALSE]
             ELSE [ports |-> Mappings(sh, r), running |-> TRUE]]
  BY DEF UpdateTunnels
<1>2. \A r \in Connected :
        r \in Remote /\ tunnels[r] \in Handle /\ tunnels[r].ports \subseteq Port
  BY HandleFacts
<1>3. \A r \in Remote : Mappings(sh, r) \subseteq Port
  BY MappingsFacts
<1>4. ASSUME NEW r \in Connected
      PROVE  /\ tunnels'[r] \in Handle
             /\ \/ tunnels'[r].ports = tunnels[r].ports
                \/ tunnels'[r].ports = Mappings(sh, r)
             /\ r \notin R => tunnels'[r] = tunnels[r]
             /\ r \in R /\ tunnels'[r].running => tunnels'[r].ports = Mappings(sh, r)
  <2>1. CASE r \notin R
    BY <1>1, <1>2, <2>1
  <2>2. CASE r \in R /\ r \in failed
    <3>1. tunnels'[r] = [ports |-> tunnels[r].ports, running |-> FALSE]
      BY <1>1, <1>2, <2>2
    <3> QED
      BY <1>2, <2>2, <3>1
  <2>3. CASE r \in R /\ r \notin failed
    <3>1. tunnels'[r] = [ports |-> Mappings(sh, r), running |-> TRUE]
      BY <1>1, <1>2, <2>3
    <3> QED
      BY <1>2, <1>3, <2>3, <3>1
  <2> QED
    BY <2>1, <2>2, <2>3
<1>5. \A r \in Remote \ Connected : tunnels[r] = None /\ tunnels'[r] = None
  BY <1>1 DEF Connected
<1>6. tunnels' \in [Remote -> Handle \cup {None}]
  <2>1. \A r \in Remote : tunnels'[r] \in Handle \cup {None}
    BY <1>4, <1>5
  <2>2. tunnels' = [r \in Remote |-> tunnels'[r]]
    BY <1>1
  <2> QED
    BY <2>1, <2>2
<1>7. Connected' = Connected
  BY <1>2, <1>4, <1>5, Entries DEF Connected
<1>8. \A c \in old' : \/ c \in old
                      \/ \E r \in Connected : c = [remote |-> r, ports |-> tunnels[r].ports]
  BY <1>1
<1>9. old' \subseteq [remote : Remote, ports : SUBSET Port]
  BY <1>2, <1>8 DEF RuntimeType
<1> QED
  BY <1>4, <1>6, <1>7, <1>8, <1>9

-----------------------------------------------------------------------------
(* The lock sections as steps of the runtime state. *)

\* A change of the shares that keeps those that stay as they are, gives a new
\* one a port that was never used, and restarts the chisel clients of R.
LEMMA SharesChange ==
    ASSUME Runtime,
           shares' \in [Share -> Served \cup {None}],
           next_port' \in 0 .. (MaxPort + 1), next_port' >= next_port,
           manifest' \subseteq [name : Share, port : Port],
           UNCHANGED remotes,
           NEW R \in SUBSET Connected, UpdateTunnels(R, shares'),
           \A s \in Serving(shares') :
              \/ s \in Serving(shares) /\ shares'[s] = shares[s]
              \/ next_port <= shares'[s].port /\ shares'[s].port < next_port',
           \A s, t \in Serving(shares') : shares'[s].port = shares'[t].port => s = t
    PROVE  Runtime' /\ Connected' = Connected
<1> USE DEF Runtime
<1>1. /\ tunnels' \in [Remote -> [ports : SUBSET Port, running : BOOLEAN] \cup {None}]
      /\ old' \subseteq [remote : Remote, ports : SUBSET Port]
      /\ \A c \in old' : \/ c \in old
                         \/ \E r \in Connected :
                               c.remote = r /\ c.ports = tunnels[r].ports
      /\ Connected' = Connected
      /\ \A r \in Connected :
            \/ tunnels'[r].ports = tunnels[r].ports
            \/ tunnels'[r].ports = Mappings(shares', r)
  BY UpdateFacts
<1>2. RuntimeType'
  BY <1>1 DEF RuntimeType
<1>3. next_port \in Nat /\ next_port' \in Nat /\ \A p \in Port : p \in Nat
  BY ClientAssumption DEF ClientAssumption, RuntimeType, Port
<1>4. \A s \in Serving(shares') : shares'[s].port \in Port
  BY ServingFacts
<1>5. \A s \in Serving(shares) : shares[s].port \in Port
  BY ServingFacts DEF RuntimeType
<1>6. \A r \in Connected : r \in Remote /\ tunnels[r].ports \subseteq Port
  BY HandleFacts
<1>7. \A r \in Connected : \A p \in Mappings(shares', r) :
         \E s \in Serving(shares') : shares'[s].port = p /\ Entitled(shares'[s].remotes, r)
  BY <1>6, MappingsFacts
<1>8. \A c \in old : c.ports \subseteq Port
  BY DEF RuntimeType
\* A share below the old next_port was there before.
<1>9. \A s \in Serving(shares') :
         shares'[s].port < next_port => s \in Serving(shares) /\ shares'[s] = shares[s]
  BY <1>3, <1>4
<1>10. \A s \in Serving(shares') : shares'[s].port < next_port'
  BY <1>3, <1>4, <1>5 DEF PortsUsed
<1>11. \A r \in Connected' : \A p \in tunnels'[r].ports : p < next_port'
  <2> SUFFICES ASSUME NEW r \in Connected, NEW p \in tunnels'[r].ports
               PROVE  p < next_port'
    BY <1>1
  <2>1. CASE tunnels'[r].ports = tunnels[r].ports
    BY <1>3, <1>6, <2>1 DEF PortsUsed
  <2>2. CASE tunnels'[r].ports = Mappings(shares', r)
    BY <1>7, <1>10, <2>2
  <2> QED
    BY <1>1, <2>1, <2>2
<1>12. \A c \in old' : \A p \in c.ports : p < next_port'
  <2> SUFFICES ASSUME NEW c \in old', NEW p \in c.ports
               PROVE  p < next_port'
    OBVIOUS
  <2>1. p < next_port /\ p \in Port
    BY <1>1, <1>6, <1>8 DEF PortsUsed
  <2> QED
    BY <1>3, <2>1
<1>13. PortsUsed'
  BY <1>10, <1>11, <1>12 DEF PortsUsed
<1>14. ASSUME NEW c \in old', NEW s \in Serving(shares'), shares'[s].port \in c.ports
       PROVE  Entitled(shares'[s].remotes, c.remote)
  <2>1. shares'[s].port < next_port
    BY <1>1, <1>14 DEF PortsUsed
  <2>2. s \in Serving(shares) /\ shares'[s] = shares[s]
    BY <1>9, <2>1
  <2> QED
    BY <1>1, <1>14, <2>2 DEF Exposure
<1>15. ASSUME NEW r \in Connected, NEW s \in Serving(shares'),
              shares'[s].port \in tunnels'[r].ports
       PROVE  Entitled(shares'[s].remotes, r)
  <2>1. CASE tunnels'[r].ports = tunnels[r].ports
    <3>1. shares'[s].port < next_port
      BY <1>15, <2>1 DEF PortsUsed
    <3> QED
      BY <1>9, <1>15, <2>1, <3>1 DEF Exposure
  <2>2. CASE tunnels'[r].ports = Mappings(shares', r)
    BY <1>7, <1>15, <2>2
  <2> QED
    BY <1>1, <2>1, <2>2
<1>16. Exposure'
  BY <1>1, <1>14, <1>15 DEF Exposure
<1> QED
  BY <1>1, <1>2, <1>13, <1>16

\* add_share keeps the ports apart, exposes nothing, and lists what it serves.
LEMMA AddShareStep ==
    ASSUME Runtime, NEW s \in Share, NEW o \in Offer, AddShare(s, o)
    PROVE  /\ Runtime'
           /\ Connected' = Connected
           /\ UNCHANGED remotes
           /\ Listed => Listed'
<1> USE DEF Runtime
<1>1. PICK p \in FreePorts :
        /\ shares[s] = None
        /\ shares' = [shares EXCEPT ![s] = [port |-> p, remotes |-> o]]
        /\ next_port' = NextPort(p)
        /\ manifest' = manifest \cup {[name |-> s, port |-> p]}
        /\ UpdateTunnels(ToUpdate(o), shares')
        /\ UNCHANGED remotes
  BY DEF AddShare
<1>2. p \in Port /\ p >= next_port
  BY <1>1 DEF FreePorts
<1>3. MaxPort \in Nat /\ next_port \in Nat /\ p \in 0 .. MaxPort
  BY <1>2, ClientAssumption DEF ClientAssumption, RuntimeType, Port
<1>4. /\ next_port' = p + 1
      /\ next_port' \in 0 .. (MaxPort + 1)
      /\ next_port' >= next_port
  BY <1>1, <1>2, <1>3 DEF NextPort
<1>5. [port |-> p, remotes |-> o] \in Served
  BY <1>2 DEF Served
<1>6. shares' \in [Share -> Served \cup {None}]
  BY <1>1, <1>5 DEF RuntimeType
<1>7. /\ shares'[s] = [port |-> p, remotes |-> o]
      /\ shares'[s].port = p
      /\ \A t \in Share \ {s} : shares'[t] = shares[t]
  BY <1>1 DEF RuntimeType
<1>8. /\ s \notin Serving(shares)
      /\ Serving(shares') = Serving(shares) \cup {s}
  BY <1>1, <1>5, <1>7, Entries DEF Serving
<1>9. \A t \in Serving(shares) :
         /\ t \in Share \ {s}
         /\ shares'[t] = shares[t]
         /\ shares[t].port \in 0 .. MaxPort
         /\ shares[t].port < next_port
  BY <1>7, <1>8, ServingFacts DEF RuntimeType, PortsUsed, Serving, Port
<1>10. \A t \in Serving(shares') :
         \/ t \in Serving(shares) /\ shares'[t] = shares[t]
         \/ next_port <= shares'[t].port /\ shares'[t].port < next_port'
  BY <1>2, <1>3, <1>4, <1>7, <1>8, <1>9
<1>11. \A t, u \in Serving(shares') : shares'[t].port = shares'[u].port => t = u
  <2> SUFFICES ASSUME NEW t \in Serving(shares'), NEW u \in Serving(shares'),
                      shares'[t].port = shares'[u].port
               PROVE  t = u
    OBVIOUS
  <2>1. CASE t \in Serving(shares) /\ u \in Serving(shares)
    BY <1>9, <2>1 DEF PortsUsed
  <2>2. CASE t = s \/ u = s
    BY <1>2, <1>3, <1>7, <1>8, <1>9, <2>2
  <2> QED
    BY <1>8, <2>1, <2>2
<1>12. manifest' \subseteq [name : Share, port : Port]
  BY <1>1, <1>2 DEF RuntimeType
<1>13. ToUpdate(o) \in SUBSET Connected
  BY DEF ToUpdate
<1>14. Runtime' /\ Connected' = Connected
  BY <1>1, <1>4, <1>6, <1>10, <1>11, <1>12, <1>13, SharesChange
<1>15. Listed => Listed'
  <2> SUFFICES ASSUME Listed PROVE Listed'
    OBVIOUS
  <2>1. {[name |-> t, port |-> shares'[t].port] : t \in Serving(shares')}
          = {[name |-> t, port |-> shares'[t].port] : t \in Serving(shares)}
              \cup {[name |-> s, port |-> shares'[s].port]}
    BY <1>8
  <2>2. {[name |-> t, port |-> shares'[t].port] : t \in Serving(shares)}
          = {[name |-> t, port |-> shares[t].port] : t \in Serving(shares)}
    BY <1>9
  <2> QED
    BY <1>1, <1>7, <2>1, <2>2 DEF Listed
<1> QED
  BY <1>1, <1>14, <1>15

\* A refused addition may use up a port, no more.
LEMMA AddRefusedStep ==
    ASSUME Runtime, NEW s \in Share, AddRefused(s)
    PROVE  /\ Runtime'
           /\ Connected' = Connected
           /\ UNCHANGED remotes
           /\ Listed => Listed'
<1>1. UNCHANGED <<remotes, shares, manifest, tunnels, old>>
  BY DEF AddRefused
<1>2. \/ next_port' = next_port
      \/ \E p \in Port : p >= next_port /\ next_port' = p + 1
  BY DEF AddRefused, FreePorts, NextPort
<1>3. next_port \in 0 .. (MaxPort + 1) /\ MaxPort \in Nat
  BY ClientAssumption DEF ClientAssumption, Runtime, RuntimeType
<1>4. next_port' \in 0 .. (MaxPort + 1) /\ next_port' >= next_port
  BY <1>2, <1>3 DEF Port
<1>5. RuntimeType'
  BY <1>1, <1>4 DEF Runtime, RuntimeType
<1>6. \A s_1 \in Serving(shares) : shares[s_1].port \in Port
  BY ServingFacts DEF Runtime, RuntimeType
<1>7. \A r \in Connected : tunnels[r].ports \subseteq Port
  BY HandleFacts DEF Runtime
<1>8. \A c \in old : c.ports \subseteq Port
  BY DEF Runtime, RuntimeType
<1>9. Connected' = Connected
  BY <1>1 DEF Connected
<1>10. \A p \in Port : p < next_port => p < next_port'
  BY <1>3, <1>4 DEF Port
<1>11. PortsUsed'
  BY <1>1, <1>6, <1>7, <1>8, <1>9, <1>10 DEF Runtime, PortsUsed
<1>12. Exposure' /\ (Listed => Listed')
  BY <1>1, <1>9 DEF Runtime, Exposure, Listed
<1> QED
  BY <1>1, <1>5, <1>9, <1>11, <1>12 DEF Runtime

\* remove_share keeps them too, and takes the share off the list.
LEMMA RemoveShareStep ==
    ASSUME Runtime, NEW s \in Share, RemoveShare(s)
    PROVE  /\ Runtime'
           /\ Connected' = Connected
           /\ UNCHANGED remotes
           /\ Listed => Listed'
<1> USE DEF Runtime
<1>1. /\ shares' = [shares EXCEPT ![s] = None]
      /\ manifest' = {e \in manifest : e.name # s}
      /\ UpdateTunnels(Connected \cap Known, shares')
      /\ UNCHANGED <<remotes, next_port>>
  BY DEF RemoveShare
<1>2. /\ shares' \in [Share -> Served \cup {None}]
      /\ shares'[s] = None
      /\ \A t \in Share \ {s} : shares'[t] = shares[t]
  BY <1>1 DEF RuntimeType
<1>3. Serving(shares') = Serving(shares) \ {s}
  BY <1>2 DEF Serving
<1>4. \A t \in Serving(shares') : t \in Serving(shares) /\ shares'[t] = shares[t]
  BY <1>2, <1>3 DEF Serving
<1>5. \A t, u \in Serving(shares') : shares'[t].port = shares'[u].port => t = u
  BY <1>4 DEF PortsUsed
<1>6. next_port' \in 0 .. (MaxPort + 1) /\ next_port' >= next_port
  BY <1>1, ClientAssumption DEF ClientAssumption, RuntimeType
<1>7. manifest' \subseteq [name : Share, port : Port]
  BY <1>1 DEF RuntimeType
<1>8. Runtime' /\ Connected' = Connected
  BY <1>1, <1>2, <1>4, <1>5, <1>6, <1>7, SharesChange
<1>9. Listed => Listed'
  <2> SUFFICES ASSUME Listed PROVE Listed'
    OBVIOUS
  <2>1. manifest' = {e \in {[name |-> t, port |-> shares[t].port] : t \in Serving(shares)} :
                        e.name # s}
    BY <1>1 DEF Listed
  <2>2. @ = {[name |-> t, port |-> shares[t].port] : t \in Serving(shares) \ {s}}
    OBVIOUS
  <2>3. @ = {[name |-> t, port |-> shares'[t].port] : t \in Serving(shares')}
    BY <1>3, <1>4
  <2> QED
    BY <2>1, <2>2, <2>3 DEF Listed
<1> QED
  BY <1>1, <1>8, <1>9

\* connect_to_remote forwards only what is for the remote.
LEMMA ConnectStep ==
    ASSUME Runtime, NEW r \in Remote, Connect(r)
    PROVE  /\ Runtime'
           /\ Connected' = Connected \cup {r}
           /\ remotes' = [remotes EXCEPT ![r] = "Connected"]
           /\ Listed => Listed'
<1> USE DEF Runtime
<1> DEFINE h == [ports |-> Mappings(shares, r), running |-> TRUE]
<1>1. /\ tunnels' = [tunnels EXCEPT ![r] = h]
      /\ remotes' = [remotes EXCEPT ![r] = "Connected"]
      /\ UNCHANGED <<shares, next_port, manifest, old>>
  BY DEF Connect
<1>2. /\ Mappings(shares, r) \subseteq Port
      /\ \A p \in Mappings(shares, r) : \E s \in Serving(shares) :
            shares[s].port = p /\ Entitled(shares[s].remotes, r)
  BY MappingsFacts DEF RuntimeType
<1>3. h \in [ports : SUBSET Port, running : BOOLEAN] /\ h # None
  BY <1>2, Entries
<1>4. tunnels'[r] = h /\ \A q \in Remote \ {r} : tunnels'[q] = tunnels[q]
  BY <1>1 DEF RuntimeType
<1>5. Connected' = Connected \cup {r}
  BY <1>3, <1>4 DEF Connected
<1>6. RuntimeType'
  BY <1>1, <1>3 DEF RuntimeType
<1>7. \A p \in tunnels'[r].ports : \E s \in Serving(shares) :
         shares[s].port = p /\ Entitled(shares[s].remotes, r)
  BY <1>2, <1>4
<1>8. \A q \in Connected' \ {r} : q \in Connected /\ tunnels'[q] = tunnels[q]
  BY <1>4, <1>5 DEF Connected
<1>9. PortsUsed'
  BY <1>1, <1>7, <1>8 DEF PortsUsed
<1>10. Exposure'
  BY <1>1, <1>7, <1>8 DEF PortsUsed, Exposure
<1>11. Listed => Listed'
  BY <1>1 DEF Listed
<1> QED
  BY <1>1, <1>5, <1>6, <1>9, <1>10, <1>11

\* disconnect_from_remote leaves at most a killed chisel client behind.
LEMMA DisconnectStep ==
    ASSUME Runtime, NEW r \in Remote, Disconnect(r)
    PROVE  /\ Runtime'
           /\ Connected' = Connected \ {r}
           /\ remotes'[r] # "Connected"
           /\ \A q \in Remote \ {r} : remotes'[q] = remotes[q]
           /\ Listed => Listed'
<1> USE DEF Runtime
<1> DEFINE c == [remote |-> r, ports |-> tunnels[r].ports]
<1>1. /\ r \in Connected
      /\ old' = IF tunnels[r].running THEN old \cup {c} ELSE old
      /\ tunnels' = [tunnels EXCEPT ![r] = None]
      /\ remotes' = IF r \in Known THEN [remotes EXCEPT ![r] = "Disconnected"]
                    ELSE remotes
      /\ UNCHANGED <<shares, next_port, manifest>>
  BY DEF Disconnect
<1>2. tunnels[r].ports \subseteq Port
  BY <1>1, HandleFacts
<1>3. tunnels'[r] = None /\ \A q \in Remote \ {r} : tunnels'[q] = tunnels[q]
  BY <1>1 DEF RuntimeType
<1>4. Connected' = Connected \ {r}
  BY <1>3 DEF Connected
<1>5. /\ remotes' \in [Remote -> {"unknown", "Disconnected", "Connected"}]
      /\ remotes'[r] # "Connected"
      /\ \A q \in Remote \ {r} : remotes'[q] = remotes[q]
  BY <1>1 DEF RuntimeType, Known
<1>6. old' \subseteq old \cup {c}
  BY <1>1
<1>7. RuntimeType'
  BY <1>1, <1>2, <1>5, <1>6 DEF RuntimeType
<1>8. \A q \in Connected' : q \in Connected /\ tunnels'[q] = tunnels[q]
  BY <1>3, <1>4 DEF Connected
<1>9. c.remote = r /\ c.ports = tunnels[r].ports
  OBVIOUS
<1> HIDE DEF c
<1>10. PortsUsed'
  BY <1>1, <1>6, <1>8, <1>9 DEF PortsUsed
<1>11. Exposure'
  BY <1>1, <1>6, <1>8, <1>9 DEF Exposure
<1>12. Listed => Listed'
  BY <1>1 DEF Listed
<1> QED
  BY <1>4, <1>5, <1>7, <1>10, <1>11, <1>12

\* The shutdown branch leaves killed chisel clients behind, and no share.
LEMMA ShutdownStep ==
    ASSUME Runtime, Shutdown
    PROVE  Runtime'
<1> USE DEF Runtime
<1>1. /\ shares' = Nothing(Share)
      /\ tunnels' = Nothing(Remote)
      /\ old' = ChiselClients
      /\ UNCHANGED <<remotes, next_port, manifest>>
  BY DEF Shutdown
<1>2. Serving(shares') = {} /\ Connected' = {}
  BY <1>1 DEF Serving, Connected, Nothing
<1>3. \A r \in Connected : r \in Remote /\ tunnels[r].ports \subseteq Port
  BY HandleFacts
<1>4. \A c \in old' : \/ c \in old
                      \/ \E r \in Connected : c = [remote |-> r, ports |-> tunnels[r].ports]
  BY <1>1 DEF ChiselClients
<1>5. RuntimeType'
  BY <1>1, <1>3, <1>4 DEF RuntimeType, Nothing
<1>6. PortsUsed'
  BY <1>1, <1>2, <1>4 DEF PortsUsed
<1>7. Exposure'
  BY <1>2 DEF Exposure
<1> QED
  BY <1>5, <1>6, <1>7

-----------------------------------------------------------------------------
(* The tasks of the daemon. *)

ProcessType ==
    /\ daemon \in {"off", "running", "stopped"}
    /\ boot \in {"remotes", "list", "connect", "shares", "ready"}
    /\ todo \subseteq Remote \cup Share
    /\ saved \in Config /\ config \in Config /\ disk \in Config
    /\ pending \in [Handler -> [op : {"add"}, name : Share, remotes : Offer]
                                \cup [op : {"remove"}, name : Share] \cup {None}]

\* What is left to load is remotes first, and then shares of the saved copy.
Loading ==
    /\ daemon = "off" => boot = "remotes"
    /\ boot \in {"list", "connect"} => todo \subseteq Remote
    /\ boot = "shares" => todo \subseteq Serving(saved.shares)

IInv ==
    /\ ProcessType
    /\ Loading
    /\ Runtime
    /\ daemon # "stopped" => Listed /\ Shown

\* Configurations stay configurations as remotes and shares are written.
LEMMA ConfigFacts ==
    ASSUME NEW c \in Config
    PROVE  /\ \A r \in Remote, v \in {"none", "manual", "auto"} :
                 [c EXCEPT !.remotes[r] = v] \in Config
           /\ \A s \in Share, o \in Offer \cup {None} :
                 [c EXCEPT !.shares[s] = o] \in Config
           /\ c.shares \in [Share -> Offer \cup {None}]
  BY DEF Config

\* Whatever becomes of the write, memory and disk hold configurations.
LEMMA SaveFacts ==
    ASSUME ProcessType, NEW c \in Config, Save(c)
    PROVE  config' \in Config /\ disk' \in Config
  BY DEF ProcessType, Save

\* An empty runtime state is a good one.
LEMMA EmptyRuntime ==
    ASSUME remotes = NoRemotes, shares = Nothing(Share), next_port = 0,
           manifest = {}, tunnels = Nothing(Remote), old = {}
    PROVE  Runtime /\ Listed /\ Shown
<1>1. RuntimeType
  BY ClientAssumption DEF ClientAssumption, RuntimeType, NoRemotes, Nothing
<1>2. Serving(shares) = {} /\ Connected = {}
  BY DEF Serving, Connected, Nothing
<1>3. {r \in Remote : remotes[r] = "Connected"} = {}
  BY DEF NoRemotes
<1> QED
  BY <1>1, <1>2, <1>3 DEF Runtime, PortsUsed, Exposure, Listed, Shown

\* Steps that leave the runtime state alone.
LEMMA SameRuntime ==
    ASSUME Runtime, UNCHANGED runtime
    PROVE  Runtime' /\ (Listed => Listed') /\ (Shown => Shown')
  BY DEF runtime, Runtime, RuntimeType, PortsUsed, Exposure, Listed, Shown, Connected

\* Steps that change no status and no entry of the handle table.
LEMMA SameShown ==
    ASSUME Shown, UNCHANGED remotes, Connected' = Connected
    PROVE  Shown'
  BY DEF Shown

\* Steps that only take Connected away, or never give it.
LEMMA LessShown ==
    ASSUME Shown, UNCHANGED tunnels,
           \A r \in Remote : remotes'[r] = "Connected" => remotes[r] = "Connected"
    PROVE  Shown'
  BY DEF Shown, Connected

\* Steps that only write the table of remotes.
LEMMA StatusStep ==
    ASSUME Runtime, UNCHANGED <<shares, next_port, manifest, tunnels, old>>,
           remotes' \in [Remote -> {"unknown", "Disconnected", "Connected"}]
    PROVE  Runtime' /\ (Listed => Listed')
  BY DEF Runtime, RuntimeType, PortsUsed, Exposure, Listed, Connected

LEMMA InitIInv == Init => IInv
<1> SUFFICES ASSUME Init PROVE IInv
  OBVIOUS
<1>1. ProcessType
  <2>1. EmptyConfig \in Config
    BY DEF EmptyConfig, Config, Nothing
  <2> QED
    BY <2>1 DEF Init, ProcessType, Nothing
<1>2. Loading
  BY DEF Init, Loading
<1>3. Runtime /\ Listed /\ Shown
  BY EmptyRuntime DEF Init
<1> QED
  BY <1>1, <1>2, <1>3 DEF IInv

\* start_client.
LEMMA BootIInv ==
    ASSUME IInv, Start \/ Boot
    PROVE  IInv'
<1> USE DEF IInv
<1>1. CASE Start
  <2>1. ProcessType' /\ Loading'
    BY <1>1 DEF Start, ProcessType, Loading
  <2>2. Runtime' /\ (Listed => Listed') /\ (Shown => Shown')
    BY <1>1, SameRuntime DEF Start
  <2> QED
    BY <1>1, <2>1, <2>2 DEF Start
<1>2. CASE BootRemotes
  <2>1. remotes' = [r \in Remote |->
           IF saved.remotes[r] = "none" THEN remotes[r] ELSE "Disconnected"]
    BY <1>2 DEF BootRemotes
  <2>2. remotes' \in [Remote -> {"unknown", "Disconnected", "Connected"}]
    BY <2>1 DEF Runtime, RuntimeType
  <2>3. ProcessType' /\ Loading'
    BY <1>2 DEF BootRemotes, ProcessType, Loading
  <2>4. Runtime' /\ (Listed => Listed')
    BY <1>2, <2>2, StatusStep DEF BootRemotes
  <2>5. Shown => Shown'
    BY <1>2, <2>1, LessShown DEF BootRemotes
  <2> QED
    BY <1>2, <2>3, <2>4, <2>5 DEF BootRemotes
<1>3. CASE BootList
  <2>1. ProcessType' /\ Loading'
    BY <1>3 DEF BootList, ProcessType, Loading
  <2>2. Runtime' /\ (Listed => Listed') /\ (Shown => Shown')
    BY <1>3, SameRuntime DEF BootList
  <2> QED
    BY <1>3, <2>1, <2>2 DEF BootList
<1>4. CASE BootConnect
  <2>1. ProcessType'
    BY <1>4 DEF BootConnect, ProcessType, Serving
  <2>2. Loading'
    BY <1>4 DEF BootConnect, Loading
  <2>3. Runtime' /\ (Listed => Listed') /\ (Shown => Shown')
    <3>1. CASE UNCHANGED runtime
      BY <3>1, SameRuntime
    <3>2. ASSUME NEW r \in todo, Connect(r)
          PROVE  Runtime' /\ (Listed => Listed') /\ (Shown => Shown')
      <4>1. r \in Remote
        BY <3>2 DEF Connect, Known
      <4>2. /\ Runtime'
            /\ Connected' = Connected \cup {r}
            /\ remotes' = [remotes EXCEPT ![r] = "Connected"]
            /\ Listed => Listed'
        BY <3>2, <4>1, ConnectStep
      <4>3. Shown => Shown'
        BY <4>2 DEF Shown, Runtime, RuntimeType
      <4> QED
        BY <4>2, <4>3
    <3> QED
      BY <1>4, <3>1, <3>2 DEF BootConnect, ConnectRefused
  <2> QED
    BY <1>4, <2>1, <2>2, <2>3 DEF BootConnect
<1>5. CASE BootShares
  <2>1. ProcessType'
    <3>1. EmptyConfig \in Config
      BY DEF EmptyConfig, Config, Nothing
    <3> QED
      BY <1>5, <3>1 DEF BootShares, ProcessType
  <2>2. Loading'
    BY <1>5 DEF BootShares, Loading
  <2>3. Runtime' /\ (Listed => Listed') /\ (Shown => Shown')
    <3>1. CASE UNCHANGED runtime
      BY <3>1, SameRuntime
    <3>2. ASSUME NEW s \in todo,
                 AddShare(s, saved.shares[s]) \/ AddRefused(s)
          PROVE  Runtime' /\ (Listed => Listed') /\ (Shown => Shown')
      <4>1. s \in Serving(saved.shares)
        BY <1>5, <3>2 DEF BootShares, Loading
      <4>2. s \in Share /\ saved.shares[s] \in Offer
        BY <4>1, ConfigFacts DEF ProcessType, Serving
      <4>3. Runtime' /\ Connected' = Connected /\ UNCHANGED remotes /\ (Listed => Listed')
        BY <3>2, <4>2, AddShareStep, AddRefusedStep
      <4> QED
        BY <4>3, SameShown
    <3> QED
      BY <1>5, <3>1, <3>2 DEF BootShares
  <2> QED
    BY <1>5, <2>1, <2>2, <2>3 DEF BootShares
<1> QED
  BY <1>1, <1>2, <1>3, <1>4, <1>5 DEF Boot

\* handle_client_request, on remotes and connections.
LEMMA RemoteIInv ==
    ASSUME IInv, NEW r \in Remote,
           RemoteAdd(r) \/ RemoteRemove(r) \/ ConnectRequest(r) \/ Disconnect(r)
    PROVE  IInv'
<1> USE DEF IInv
<1>1. CASE RemoteAdd(r)
  <2>1. config' \in Config /\ disk' \in Config
    BY <1>1, ConfigFacts, SaveFacts DEF RemoteAdd, ProcessType
  <2>2. ProcessType' /\ Loading'
    BY <1>1, <2>1 DEF RemoteAdd, ForgetAuto, ProcessType, Loading
  <2>3. remotes' = [remotes EXCEPT ![r] = "Disconnected"]
    BY <1>1 DEF RemoteAdd
  <2>4. Runtime' /\ (Listed => Listed')
    BY <1>1, <2>3, StatusStep DEF RemoteAdd, Runtime, RuntimeType
  <2>5. Shown => Shown'
    BY <1>1, <2>3, LessShown DEF RemoteAdd, Runtime, RuntimeType
  <2> QED
    BY <1>1, <2>2, <2>4, <2>5 DEF RemoteAdd
<1>2. CASE RemoteRemove(r)
  <2>1. config' \in Config /\ disk' \in Config
    BY <1>2, ConfigFacts, SaveFacts DEF RemoteRemove, ProcessType
  <2>2. ProcessType' /\ Loading'
    BY <1>2, <2>1 DEF RemoteRemove, ForgetAuto, ProcessType, Loading
  <2>3. remotes' = [remotes EXCEPT ![r] = "unknown"]
    BY <1>2 DEF RemoteRemove
  <2>4. Runtime' /\ (Listed => Listed')
    BY <1>2, <2>3, StatusStep DEF RemoteRemove, Runtime, RuntimeType
  <2>5. Shown => Shown'
    BY <1>2, <2>3, LessShown DEF RemoteRemove, Runtime, RuntimeType
  <2> QED
    BY <1>2, <2>2, <2>4, <2>5 DEF RemoteRemove
<1>3. CASE ConnectRequest(r)
  <2>1. ProcessType' /\ Loading'
    BY <1>3 DEF ConnectRequest, booting, ProcessType, Loading
  <2>2. /\ Runtime'
        /\ Connected' = Connected \cup {r}
        /\ remotes' = [remotes EXCEPT ![r] = "Connected"]
        /\ Listed => Listed'
    BY <1>3, ConnectStep DEF ConnectRequest
  <2>3. Shown => Shown'
    BY <2>2 DEF Shown, Runtime, RuntimeType
  <2> QED
    BY <1>3, <2>1, <2>2, <2>3 DEF ConnectRequest
<1>4. CASE Disconnect(r)
  <2>1. ProcessType' /\ Loading'
    BY <1>4 DEF Disconnect, booting, ProcessType, Loading
  <2>2. /\ Runtime'
        /\ Connected' = Connected \ {r}
        /\ remotes'[r] # "Connected"
        /\ \A q \in Remote \ {r} : remotes'[q] = remotes[q]
        /\ Listed => Listed'
    BY <1>4, DisconnectStep
  <2>3. Shown => Shown'
    BY <2>2 DEF Shown
  <2> QED
    BY <1>4, <2>1, <2>2, <2>3 DEF Disconnect
<1> QED
  BY <1>1, <1>2, <1>3, <1>4

\* handle_client_request, on shares.
LEMMA ShareIInv ==
    ASSUME IInv, NEW h \in Handler,
           \/ \E s \in Share, o \in Offer : PersistAdd(h, s, o)
           \/ \E s \in Share : PersistRemove(h, s)
           \/ FinishAdd(h)
           \/ FinishRemove(h)
    PROVE  IInv'
<1> USE DEF IInv
<1>1. ASSUME NEW s \in Share, NEW o \in Offer, PersistAdd(h, s, o)
      PROVE  IInv'
  <2>1. config' \in Config /\ disk' \in Config
    BY <1>1, ConfigFacts, SaveFacts DEF PersistAdd, ProcessType
  <2>2. ProcessType' /\ Loading'
    BY <1>1, <2>1 DEF PersistAdd, booting, ProcessType, Loading
  <2>3. Runtime' /\ (Listed => Listed') /\ (Shown => Shown')
    BY <1>1, SameRuntime DEF PersistAdd
  <2> QED
    BY <1>1, <2>2, <2>3 DEF PersistAdd
<1>2. ASSUME NEW s \in Share, PersistRemove(h, s)
      PROVE  IInv'
  <2>1. config' \in Config /\ disk' \in Config
    BY <1>2, ConfigFacts, SaveFacts DEF PersistRemove, ProcessType
  <2>2. ProcessType' /\ Loading'
    BY <1>2, <2>1 DEF PersistRemove, booting, ProcessType, Loading
  <2>3. Runtime' /\ (Listed => Listed') /\ (Shown => Shown')
    BY <1>2, SameRuntime DEF PersistRemove
  <2> QED
    BY <1>2, <2>2, <2>3 DEF PersistRemove
<1>3. CASE FinishAdd(h)
  <2>1. ProcessType' /\ Loading'
    BY <1>3 DEF FinishAdd, booting, ProcessType, Loading
  <2>2. pending[h].name \in Share /\ pending[h].remotes \in Offer
    BY <1>3 DEF FinishAdd, ProcessType
  <2>3. Runtime' /\ Connected' = Connected /\ UNCHANGED remotes /\ (Listed => Listed')
    BY <1>3, <2>2, AddShareStep, AddRefusedStep DEF FinishAdd
  <2> QED
    BY <1>3, <2>1, <2>3, SameShown DEF FinishAdd
<1>4. CASE FinishRemove(h)
  <2>1. ProcessType' /\ Loading'
    BY <1>4 DEF FinishRemove, booting, ProcessType, Loading
  <2>2. pending[h].name \in Share
    BY <1>4 DEF FinishRemove, ProcessType
  <2>3. Runtime' /\ (Listed => Listed') /\ (Shown => Shown')
    <3>1. CASE UNCHANGED runtime
      BY <3>1, SameRuntime
    <3>2. CASE RemoveShare(pending[h].name)
      BY <2>2, <3>2, RemoveShareStep, SameShown
    <3> QED
      BY <1>4, <3>1, <3>2 DEF FinishRemove
  <2> QED
    BY <1>4, <2>1, <2>3 DEF FinishRemove
<1> QED
  BY <1>1, <1>2, <1>3, <1>4

\* The end of processes, of the event loop and of the daemon.
LEMMA EndIInv ==
    ASSUME IInv, (\E c \in old : OldDies(c)) \/ Shutdown \/ Exit
    PROVE  IInv'
<1> USE DEF IInv
<1>1. ASSUME NEW c \in old, OldDies(c)
      PROVE  IInv'
  <2>1. ProcessType' /\ Loading'
    BY <1>1 DEF OldDies, booting, ProcessType, Loading
  <2>2. Runtime' /\ (Listed => Listed')
    BY <1>1 DEF OldDies, Runtime, RuntimeType, PortsUsed, Exposure, Listed, Connected
  <2>3. Shown => Shown'
    BY <1>1, SameShown DEF OldDies, Connected
  <2> QED
    BY <1>1, <2>1, <2>2, <2>3 DEF OldDies
<1>2. CASE Shutdown
  <2>1. ProcessType' /\ Loading'
    BY <1>2 DEF Shutdown, booting, ProcessType, Loading
  <2>2. Runtime'
    BY <1>2, ShutdownStep
  <2> QED
    BY <1>2, <2>1, <2>2 DEF Shutdown
<1>3. CASE Exit
  <2>1. EmptyConfig \in Config
    BY DEF EmptyConfig, Config, Nothing
  <2>2. ProcessType' /\ Loading'
    BY <1>3, <2>1 DEF Exit, Blank, Nothing, ProcessType, Loading
  <2>3. Runtime' /\ Listed' /\ Shown'
    <3>1. RuntimeType'
      BY <1>3, ClientAssumption
         DEF ClientAssumption, Exit, Blank, RuntimeType, NoRemotes, Nothing
    <3>2. Serving(shares') = {} /\ Connected' = {}
      BY <1>3 DEF Exit, Blank, Serving, Connected, Nothing
    <3>3. {r \in Remote : remotes'[r] = "Connected"} = {}
      BY <1>3 DEF Exit, Blank, NoRemotes
    <3> QED
      BY <1>3, <3>1, <3>2, <3>3
         DEF Exit, Blank, Runtime, PortsUsed, Exposure, Listed, Shown
  <2> QED
    BY <2>2, <2>3
<1> QED
  BY <1>1, <1>2, <1>3

LEMMA StepIInv == IInv /\ [Next]_vars => IInv'
<1> SUFFICES ASSUME IInv, [Next]_vars PROVE IInv'
  OBVIOUS
<1>1. CASE UNCHANGED vars
  BY <1>1, SameRuntime DEF vars, booting, IInv, ProcessType, Loading
<1>2. CASE Next
  BY <1>2, BootIInv, RemoteIInv, ShareIInv, EndIInv DEF Next, Boot
<1> QED
  BY <1>1, <1>2

-----------------------------------------------------------------------------
(* The theorems. *)

\* Whatever is requested, fails, is interrupted or restarted, IInv holds.
THEOREM Invariance == Spec => []IInv
  BY InitIInv, StepIInv, PTL DEF Spec

\* Every variable of the client daemon keeps to its type.
THEOREM TypeCorrect == Spec => []TypeOK
<1>1. IInv => TypeOK
  BY DEF IInv, ProcessType, Runtime, RuntimeType, TypeOK
<1> QED
  BY <1>1, Invariance, PTL

\* No chisel client, present, forgotten or dying, forwards to a remote the port
\* of a share that is not for it, for any number of remotes and shares: ports
\* are never handed out twice in the life of a daemon.
THEOREM OnlyForRemote == Spec => []NoCrossExposure
<1>1. IInv => NoCrossExposure
  BY DEF IInv, Runtime, Exposure, ChiselClients, NoCrossExposure
<1> QED
  BY <1>1, Invariance, PTL

\* The manifest of a running daemon lists exactly what it serves.
THEOREM ManifestTrue == Spec => []ManifestAgrees
<1>1. IInv => ManifestAgrees
  BY DEF IInv, Listed, ManifestAgrees
<1> QED
  BY <1>1, Invariance, PTL

\* A running daemon shows no remote as Connected without a tunnel handle.
THEOREM StatusNotOverstated == Spec => []ShownConnected
<1>1. IInv => ShownConnected
  BY DEF IInv, Shown, ShownConnected
<1> QED
  BY <1>1, Invariance, PTL

\* A name that is served keeps its port and its remotes: add_share refuses it,
\* and every other operation leaves it alone or takes it away.
THEOREM ServedKept == Spec => ServedUnchanged
<1> DEFINE Kept == \A s \in Serving(shares) : s \in Serving(shares)' => shares'[s] = shares[s]
<1>1. ASSUME RuntimeType, NEW s \in Share, NEW o, AddShare(s, o)
      PROVE  Kept
  <2>1. shares[s] = None
    BY <1>1 DEF AddShare
  <2>2. \A t \in Share \ {s} : shares'[t] = shares[t]
    BY <1>1 DEF AddShare, RuntimeType
  <2> QED
    BY <2>1, <2>2 DEF Serving
<1>2. ASSUME RuntimeType, NEW s \in Share, RemoveShare(s)
      PROVE  Kept
  <2>1. shares'[s] = None /\ \A t \in Share \ {s} : shares'[t] = shares[t]
    BY <1>2 DEF RemoveShare, RuntimeType
  <2> QED
    BY <2>1 DEF Serving
<1>3. ASSUME shares' = Nothing(Share)
      PROVE  Kept
  BY <1>3 DEF Serving, Nothing
<1>4. IInv /\ [Next]_vars => [Kept]_vars
  <2> SUFFICES ASSUME IInv, Next PROVE Kept
    OBVIOUS
  <2> USE DEF IInv, Runtime
  <2>1. CASE BootShares
    <3>1. ASSUME NEW s \in todo, AddShare(s, saved.shares[s])
          PROVE  Kept
      <4>1. s \in Share
        BY <2>1 DEF BootShares, Loading, Serving
      <4> QED
        BY <1>1, <3>1, <4>1
    <3> QED
      BY <2>1, <3>1 DEF BootShares, AddRefused, runtime
  <2>2. ASSUME NEW h \in Handler, FinishAdd(h)
        PROVE  Kept
    <3>1. pending[h].name \in Share
      BY <2>2 DEF FinishAdd, ProcessType
    <3> QED
      BY <1>1, <2>2, <3>1 DEF FinishAdd, AddRefused
  <2>3. ASSUME NEW h \in Handler, FinishRemove(h)
        PROVE  Kept
    <3>1. pending[h].name \in Share
      BY <2>3 DEF FinishRemove, ProcessType
    <3> QED
      BY <1>2, <2>3, <3>1 DEF FinishRemove, runtime
  <2>4. CASE Shutdown \/ Exit
    BY <1>3, <2>4 DEF Shutdown, Exit, Blank
  <2>5. CASE UNCHANGED shares
    BY <2>5
  <2> QED
    BY <2>1, <2>2, <2>3, <2>4, <2>5
       DEF Next, Start, BootRemotes, BootList, BootConnect, Connect, ConnectRefused,
           RemoteAdd, RemoteRemove, ConnectRequest, Disconnect, PersistAdd,
           PersistRemove, OldDies, runtime
<1>5. Spec => [][Kept]_vars
  BY <1>4, Invariance, PTL DEF Spec
<1> QED
  BY <1>5 DEF ServedUnchanged

-----------------------------------------------------------------------------
(* Tunnels in step, when no remote is removed. *)

\* As TunnelsInSync, of every handle: none is passed over, its remote being
\* registered.
Sync ==
    /\ Connected \subseteq Known
    /\ \A r \in Connected :
          tunnels[r].running => tunnels[r].ports = Mappings(shares, r)

\* Steps that leave shares and tunnels alone and forget no remote.
LEMMA SameSync ==
    ASSUME Sync, UNCHANGED <<shares, tunnels>>, Known \subseteq Known'
    PROVE  Sync'
  BY DEF Sync, Connected, Mappings, Serving

LEMMA AddShareSync ==
    ASSUME RuntimeType, RuntimeType', Sync, NEW s \in Share, NEW o, AddShare(s, o)
    PROVE  Sync'
<1> DEFINE R == ToUpdate(o)
<1>1. R \subseteq Connected /\ UpdateTunnels(R, shares') /\ remotes' = remotes
  BY DEF AddShare, ToUpdate
<1>2. /\ Connected' = Connected
      /\ \A r \in Connected \ R : tunnels'[r] = tunnels[r]
      /\ \A r \in R : tunnels'[r].running => tunnels'[r].ports = Mappings(shares', r)
  <2> HIDE DEF R
  <2> QED
    BY <1>1, UpdateFacts DEF RuntimeType
<1>3. ASSUME NEW r \in Connected \ R PROVE Mappings(shares', r) = Mappings(shares, r)
  <2>1. ~Entitled(o, r)
    BY <1>3 DEF ToUpdate, Sync
  <2>2. PICK p : shares' = [shares EXCEPT ![s] = [port |-> p, remotes |-> o]]
    BY DEF AddShare
  <2>3. shares[s] = None /\ shares'[s].remotes = o
    BY <2>2 DEF AddShare, RuntimeType
  <2>4. \A t \in Share \ {s} : shares'[t] = shares[t]
    BY <2>2 DEF RuntimeType
  <2>5. {x \in Serving(shares') : Entitled(shares'[x].remotes, r)}
            = {x \in Serving(shares) : Entitled(shares[x].remotes, r)}
    BY <2>1, <2>3, <2>4 DEF Serving
  <2>6. \A x \in {x \in Serving(shares) : Entitled(shares[x].remotes, r)} :
            shares'[x] = shares[x]
    BY <2>3, <2>4 DEF Serving
  <2> QED
    BY <2>5, <2>6 DEF Mappings
<1>4. Known' = Known
  BY <1>1 DEF Known
<1> QED
  BY <1>2, <1>3, <1>4 DEF Sync

LEMMA RemoveShareSync ==
    ASSUME RuntimeType, RuntimeType', Sync, NEW s \in Share, RemoveShare(s)
    PROVE  Sync'
<1> DEFINE R == Connected \cap Known
<1>1. R \subseteq Connected /\ UpdateTunnels(R, shares') /\ remotes' = remotes
  BY DEF RemoveShare
<1>2. /\ Connected' = Connected
      /\ \A r \in R : tunnels'[r].running => tunnels'[r].ports = Mappings(shares', r)
  <2> HIDE DEF R
  <2> QED
    BY <1>1, UpdateFacts DEF RuntimeType
<1>3. Known' = Known /\ R = Connected
  BY <1>1 DEF Known, Sync
<1> QED
  BY <1>2, <1>3 DEF Sync

LEMMA ConnectSync ==
    ASSUME RuntimeType, Sync, NEW r \in Remote, Connect(r)
    PROVE  Sync'
<1>1. /\ tunnels'[r] = [ports |-> Mappings(shares, r), running |-> TRUE]
      /\ \A x \in Remote \ {r} : tunnels'[x] = tunnels[x]
      /\ shares' = shares /\ r \in Known'
      /\ Known' = Known
  BY DEF Connect, RuntimeType, Known
<1>2. Connected' \subseteq Connected \cup {r}
  BY <1>1 DEF Connected
<1>3. Mappings(shares, r)' = Mappings(shares, r) /\ tunnels'[r].ports = Mappings(shares, r)
  BY <1>1 DEF Mappings, Serving
<1>4. \A x \in Connected : Mappings(shares, x)' = Mappings(shares, x)
  BY <1>1 DEF Mappings, Serving
<1>5. ASSUME NEW x \in Connected', x # r
      PROVE  tunnels'[x].running => tunnels'[x].ports = Mappings(shares, x)'
  BY <1>1, <1>2, <1>4, <1>5 DEF Sync, Connected
<1> QED
  BY <1>1, <1>2, <1>3, <1>5 DEF Sync

LEMMA DisconnectSync ==
    ASSUME RuntimeType, Sync, NEW r \in Remote, Disconnect(r)
    PROVE  Sync'
<1>1. /\ tunnels'[r] = None
      /\ \A x \in Remote \ {r} : tunnels'[x] = tunnels[x]
      /\ shares' = shares
  BY DEF Disconnect, RuntimeType
<1>2. Known' = Known
  BY DEF Disconnect, Known, RuntimeType
<1>3. Connected' \subseteq Connected \ {r}
  BY <1>1 DEF Connected
<1>4. \A x \in Connected' : Mappings(shares, x)' = Mappings(shares, x)
  BY <1>1 DEF Mappings, Serving
<1> QED
  BY <1>1, <1>2, <1>3, <1>4 DEF Sync, Connected

\* The steps of the boot, of requests, and of the end, one by one.
LEMMA StepSync ==
    ASSUME IInv, IInv', Sync, Removable = {}, [Next]_vars
    PROVE  Sync'
<1> USE DEF IInv, Runtime
<1>1. CASE BootRemotes
  <2>1. Known \subseteq Known'
    BY <1>1 DEF BootRemotes, Known
  <2> QED
    BY <1>1, <2>1, SameSync DEF BootRemotes
<1>2. CASE BootConnect
  <2>1. CASE UNCHANGED runtime
    BY <2>1, SameSync DEF runtime, Known
  <2>2. ASSUME NEW r \in todo, Connect(r) PROVE Sync'
    <3>1. r \in Remote
      BY <2>2 DEF Connect, Known
    <3> QED
      BY <2>2, <3>1, ConnectSync
  <2> QED
    BY <1>2, <2>1, <2>2 DEF BootConnect, ConnectRefused
<1>3. CASE BootShares
  <2>1. ASSUME NEW s \in todo, AddShare(s, saved.shares[s]) PROVE Sync'
    <3>1. s \in Share
      BY <1>3 DEF BootShares, Loading, Serving
    <3> QED
      BY <2>1, <3>1, AddShareSync
  <2>2. CASE UNCHANGED <<remotes, shares, tunnels>>
    BY <2>2, SameSync DEF Known
  <2> QED
    BY <1>3, <2>1, <2>2 DEF BootShares, AddRefused, runtime
<1>4. ASSUME NEW r \in Remote, RemoteAdd(r) PROVE Sync'
  <2>1. Known \subseteq Known'
    BY <1>4 DEF RemoteAdd, Known, RuntimeType
  <2> QED
    BY <1>4, <2>1, SameSync DEF RemoteAdd
<1>5. ASSUME NEW r \in Remote, RemoteRemove(r) PROVE Sync'
  BY <1>5 DEF RemoteRemove
<1>6. ASSUME NEW r \in Remote, ConnectRequest(r) PROVE Sync'
  BY <1>6, ConnectSync DEF ConnectRequest
<1>7. ASSUME NEW r \in Remote, Disconnect(r) PROVE Sync'
  BY <1>7, DisconnectSync
<1>8. ASSUME NEW h \in Handler, FinishAdd(h) PROVE Sync'
  <2>1. pending[h].name \in Share
    BY <1>8 DEF FinishAdd, ProcessType
  <2>2. CASE UNCHANGED <<remotes, shares, tunnels>>
    BY <2>2, SameSync DEF Known
  <2> QED
    BY <1>8, <2>1, <2>2, AddShareSync DEF FinishAdd, AddRefused
<1>9. ASSUME NEW h \in Handler, FinishRemove(h) PROVE Sync'
  <2>1. pending[h].name \in Share
    BY <1>9 DEF FinishRemove, ProcessType
  <2>2. CASE UNCHANGED runtime
    BY <2>2, SameSync DEF Known, runtime
  <2> QED
    BY <1>9, <2>1, <2>2, RemoveShareSync DEF FinishRemove
<1>10. CASE Shutdown \/ Exit
  <2>1. \A r \in Remote : tunnels'[r] = None
    BY <1>10 DEF Shutdown, Exit, Blank, Nothing
  <2> QED
    BY <2>1 DEF Sync, Connected
<1>11. CASE UNCHANGED <<remotes, shares, tunnels>>
  BY <1>11, SameSync DEF Known
<1> QED
  BY <1>1, <1>2, <1>3, <1>4, <1>5, <1>6, <1>7, <1>8, <1>9, <1>10, <1>11
     DEF Next, vars, Start, BootList, PersistAdd, PersistRemove, OldDies, runtime

\* Where no remote is removed while the daemon runs, every running tunnel
\* forwards exactly the shares for its remote, whichever updates of tunnels
\* fail.  With removals it is false: see RemoteRemove.
THEOREM InStep ==
    ASSUME Removable = {}
    PROVE  Spec => []TunnelsInSync
<1>1. Init => Sync
  BY DEF Init, Sync, Connected, Nothing
<1>2. IInv /\ IInv' /\ Sync /\ [Next]_vars => Sync'
  BY StepSync
<1>3. Sync => TunnelsInSync
  BY DEF Sync, TunnelsInSync
<1> QED
  BY <1>1, <1>2, <1>3, Invariance, PTL DEF Spec

-----------------------------------------------------------------------------
(* The refinement of ShareOffer. *)

\* A daemon that does not run has nothing.
Off ==
    daemon = "off" => shares = Nothing(Share) /\ next_port = 0 /\ manifest = {}

LEMMA OffInvariant == Spec => []Off
<1>1. Init => Off
  BY DEF Init, Off
<1>2. Off /\ [Next]_vars => Off'
  <2> SUFFICES ASSUME Off, [Next]_vars PROVE Off'
    OBVIOUS
  <2>1. CASE Exit
    BY <2>1 DEF Exit, Blank, Off
  <2>2. CASE UNCHANGED <<shares, next_port, manifest>> /\ (daemon' = "off" => daemon = "off")
    BY <2>2 DEF Off
  <2>3. CASE daemon' # "off"
    BY <2>3 DEF Off
  <2> QED
    BY <2>1, <2>2, <2>3
       DEF Next, Start, BootRemotes, BootList, BootConnect, BootShares, RemoteAdd,
           RemoteRemove, ConnectRequest, Disconnect, PersistAdd, PersistRemove,
           FinishAdd, FinishRemove, OldDies, Shutdown, vars, runtime
<1> QED
  BY <1>1, <1>2, PTL DEF Spec

\* The abstract state.
Running == daemon = "running"
Offers == [s \in Share |-> Offered(s)]
Upcoming == IF daemon = "running" THEN next_port ELSE 0

\* What a manifest that lists the shares gives for a name.
Lists(m, sh) == m = {[name |-> t, port |-> sh[t].port] : t \in Serving(sh)}

LEMMA Entry ==
    ASSUME NEW sh, NEW m, NEW s \in Share, Lists(m, sh)
    PROVE  /\ sh[s] = None => ~\E e \in m : e.name = s
           /\ sh[s] # None => /\ \E e \in m : e.name = s
                              /\ EntryOf(m, s).port = sh[s].port
<1>1. \A e \in m : \E t \in Share : sh[t] # None /\ e = [name |-> t, port |-> sh[t].port]
  BY DEF Serving, Lists
<1>2. ASSUME sh[s] # None PROVE [name |-> s, port |-> sh[s].port] \in m
  BY <1>2 DEF Serving, Lists
<1>3. ASSUME sh[s] # None PROVE \E e \in m : e.name = s
  BY <1>2, <1>3
<1>4. ASSUME sh[s] # None PROVE EntryOf(m, s).port = sh[s].port
  <2>1. EntryOf(m, s) \in m /\ EntryOf(m, s).name = s
    BY <1>3, <1>4 DEF EntryOf
  <2>2. PICK t \in Share : EntryOf(m, s) = [name |-> t, port |-> sh[t].port]
    BY <1>1, <2>1
  <2> QED
    BY <2>1, <2>2
<1>5. ASSUME sh[s] = None PROVE ~\E e \in m : e.name = s
  BY <1>1, <1>5
<1> QED
  BY <1>3, <1>4, <1>5

\* While the daemon runs it offers the shares it serves, before and after a step.
LEMMA OfferedIs ==
    ASSUME IInv, IInv', NEW s \in Share
    PROVE  /\ daemon = "running" =>
                Offered(s) = IF shares[s] # None THEN shares[s].port ELSE None
           /\ daemon' = "running" =>
                Offered(s)' = IF shares'[s] # None THEN shares'[s].port ELSE None
           /\ daemon # "running" => Offered(s) = None
           /\ daemon' # "running" => Offered(s)' = None
<1>1. ASSUME daemon = "running"
      PROVE  Offered(s) = IF shares[s] # None THEN shares[s].port ELSE None
  <2>1. Lists(manifest, shares)
    BY <1>1 DEF IInv, Listed, Lists
  <2> QED
    BY <1>1, <2>1, Entry DEF Offered
<1>2. ASSUME daemon' = "running"
      PROVE  Offered(s)' = IF shares'[s] # None THEN shares'[s].port ELSE None
  <2>1. Lists(manifest', shares')
    BY <1>2 DEF IInv, Listed, Lists
  <2> QED
    BY <1>2, <2>1, Entry DEF Offered
<1>3. daemon # "running" => Offered(s) = None
  BY DEF Offered
<1>4. daemon' # "running" => Offered(s)' = None
  BY DEF Offered
<1> QED
  BY <1>1, <1>2, <1>3, <1>4

\* The steps of ShareManager, while the daemon runs.
LEMMA OfferSteps ==
    ASSUME IInv, IInv', Running, daemon' = daemon, NEW s \in Share, NEW o \in Offer
    PROVE  /\ AddShare(s, o) => Client!Add(s)
           /\ AddRefused(s) => Client!Skip \/ UNCHANGED Client!vars
           /\ RemoveShare(s) /\ shares[s] # None => Client!Withdraw(s)
<1> DEFINE Same == \A t \in Share \ {s} : Offered(t)' = Offered(t)
<1>0. /\ RuntimeType /\ MaxPort \in Nat /\ next_port \in 0 .. (MaxPort + 1)
      /\ Offers[s] = Offered(s)
      /\ Upcoming = next_port /\ Upcoming' = next_port' /\ Running' = TRUE
      /\ daemon = "running" /\ daemon' = "running"
  BY ClientAssumption DEF ClientAssumption, IInv, Runtime, RuntimeType, Offers, Upcoming, Running
<1>a. ASSUME \A t \in Share \ {s} : shares'[t] = shares[t] PROVE Same
  BY <1>0, <1>a, OfferedIs
<1>b. ASSUME Same PROVE Offers' = [Offers EXCEPT ![s] = Offered(s)']
  BY <1>b DEF Offers
<1>1. ASSUME AddShare(s, o) PROVE Client!Add(s)
  <2>1. PICK p \in FreePorts :
          /\ shares' = [shares EXCEPT ![s] = [port |-> p, remotes |-> o]]
          /\ next_port' = NextPort(p)
    BY <1>1 DEF AddShare
  <2>2. p \in next_port .. MaxPort /\ next_port' = p + 1
    BY <1>0, <2>1 DEF FreePorts, Port, NextPort
  <2>3. shares[s] = None /\ shares'[s] = [port |-> p, remotes |-> o]
    BY <1>0, <1>1, <2>1 DEF AddShare, RuntimeType
  <2>4. [port |-> p, remotes |-> o] # None
    BY <2>1, Entries DEF FreePorts, Served
  <2>5. Offered(s) = None /\ Offered(s)' = p
    BY <1>0, <2>3, <2>4, OfferedIs
  <2>6. \A t \in Share \ {s} : shares'[t] = shares[t]
    BY <1>0, <2>1 DEF RuntimeType
  <2>7. Offers' = [Offers EXCEPT ![s] = p]
    BY <1>a, <1>b, <2>5, <2>6
  <2> QED
    BY <1>0, <2>2, <2>5, <2>7 DEF Client!Add, Offers, Upcoming, Running
<1>2. ASSUME AddRefused(s) PROVE Client!Skip \/ UNCHANGED Client!vars
  <2>1. \A t \in Share : Offered(t)' = Offered(t)
    BY <1>0, <1>2, OfferedIs DEF AddRefused
  <2>2. Offers' = Offers
    BY <2>1 DEF Offers
  <2>3. next_port' = next_port \/ next_port' \in (next_port + 1) .. (MaxPort + 1)
    BY <1>0, <1>2 DEF AddRefused, FreePorts, Port, NextPort
  <2> QED
    BY <1>0, <2>2, <2>3 DEF Client!Skip, Client!vars, Offers, Upcoming, Running
<1>3. ASSUME RemoveShare(s), shares[s] # None PROVE Client!Withdraw(s)
  <2>1. shares'[s] = None /\ \A t \in Share \ {s} : shares'[t] = shares[t]
    BY <1>0, <1>3 DEF RemoveShare, RuntimeType
  <2>2. Offered(s)' = None /\ Offered(s) = shares[s].port
    BY <1>0, <1>3, <2>1, OfferedIs
  <2>3. Offers' = [Offers EXCEPT ![s] = None]
    BY <1>a, <1>b, <2>1, <2>2
  <2>4. Offered(s) # None
    BY <1>0, <1>3, <2>2, ServingFacts, ClientAssumption
    DEF RuntimeType, Serving, ClientAssumption
  <2> QED
    BY <1>0, <1>3, <2>3, <2>4 DEF Client!Withdraw, RemoveShare, Offers, Upcoming, Running
<1> QED
  BY <1>1, <1>2, <1>3

\* Steps that neither start nor end the daemon, nor touch what it offers.
LEMMA OfferStutter ==
    ASSUME UNCHANGED <<daemon, next_port, manifest>>
    PROVE  UNCHANGED Client!vars
<1>1. \A s \in Share : Offered(s)' = Offered(s)
  BY DEF Offered
<1>2. Offers' = Offers
  BY <1>1 DEF Offers
<1> QED
  BY <1>2 DEF Client!vars, Offers

\* Nothing is offered, before and after, when the daemon does not run.
LEMMA SilentStutter ==
    ASSUME daemon # "running", daemon' # "running"
    PROVE  UNCHANGED Client!vars
<1>1. \A s \in Share : Offered(s)' = None /\ Offered(s) = None
  BY DEF Offered
<1>2. Offers' = Offers
  BY <1>1 DEF Offers
<1>3. (daemon = "running") = FALSE /\ (daemon' = "running") = FALSE
  OBVIOUS
<1> QED
  BY <1>2, <1>3 DEF Client!vars, Offers

LEMMA InitOffers == Init => Client!Init
<1> SUFFICES ASSUME Init PROVE Client!Init
  OBVIOUS
<1>1. daemon = "off" /\ (daemon = "running") = FALSE
  BY DEF Init
<1>2. \A s \in Share : Offered(s) = None
  BY <1>1 DEF Offered
<1> QED
  BY <1>1, <1>2 DEF Client!Init, Client!NoOffer

LEMMA StepOffers == IInv /\ IInv' /\ Off /\ [Next]_vars => [Client!Next]_Client!vars
<1> SUFFICES ASSUME IInv, IInv', Off, [Next]_vars PROVE [Client!Next]_Client!vars
  OBVIOUS
<1> USE DEF Running
<1>1. CASE Start
  <2>1. daemon = "off" /\ daemon' = "running" /\ UNCHANGED <<next_port, manifest>>
    BY <1>1 DEF Start, runtime
  <2>2. manifest = {} /\ next_port = 0
    BY <2>1 DEF Off
  <2>3. \A s \in Share : Offered(s)' = Offered(s)
    BY <2>1, <2>2 DEF Offered
  <2>4. Offers' = Offers
    BY <2>3 DEF Offers
  <2>5. (daemon = "running") = FALSE /\ (daemon' = "running") = TRUE /\ Upcoming' = Upcoming
    BY <2>1, <2>2 DEF Upcoming
  <2> QED
    BY <2>4, <2>5 DEF Client!Next, Client!Begin, Offers, Upcoming
<1>2. CASE daemon = "running" /\ (Shutdown \/ Exit)
  <2>1. daemon' # "running" /\ (daemon = "running") = TRUE /\ (daemon' = "running") = FALSE
    BY <1>2 DEF Shutdown, Exit
  <2>2. \A s \in Share : Offered(s)' = None
    BY <2>1 DEF Offered
  <2>3. Offers' = [s \in Share |-> None] /\ Upcoming' = 0
    BY <2>1, <2>2 DEF Offers, Upcoming
  <2> QED
    BY <2>1, <2>3 DEF Client!Next, Client!End, Client!NoOffer, Offers, Upcoming
<1>3. CASE Running /\ BootShares
  <2>1. CASE \E s \in todo : AddShare(s, saved.shares[s]) \/ AddRefused(s)
    <3>1. PICK s \in todo : AddShare(s, saved.shares[s]) \/ AddRefused(s)
      BY <2>1
    <3>2. s \in Share /\ saved.shares[s] \in Offer
      BY <1>3, ConfigFacts DEF BootShares, IInv, Loading, ProcessType, Serving
    <3>3. daemon' = daemon
      BY <1>3 DEF BootShares
    <3> QED
      BY <1>3, <3>1, <3>2, <3>3, OfferSteps DEF Client!Next
  <2>2. CASE UNCHANGED runtime
    BY <1>3, <2>2, OfferStutter DEF BootShares, runtime
  <2> QED
    BY <1>3, <2>1, <2>2 DEF BootShares
<1>4. ASSUME NEW h \in Handler, Running, FinishAdd(h)
      PROVE  [Client!Next]_Client!vars
  <2>1. pending[h].name \in Share /\ pending[h].remotes \in Offer
    BY <1>4 DEF FinishAdd, IInv, ProcessType
  <2> QED
    BY <1>4, <2>1, OfferSteps DEF FinishAdd, Client!Next
<1>5. ASSUME NEW h \in Handler, Running, FinishRemove(h)
      PROVE  [Client!Next]_Client!vars
  <2>1. pending[h].name \in Share /\ daemon' = daemon
    BY <1>5 DEF FinishRemove, IInv, ProcessType
  <2>2. CASE UNCHANGED runtime
    BY <2>1, <2>2, OfferStutter DEF runtime
  <2>3. CASE shares[pending[h].name] # None /\ RemoveShare(pending[h].name)
    <3>1. {} \in Offer
      BY DEF Offer
    <3> QED
      BY <1>5, <2>1, <2>3, <3>1, OfferSteps DEF Client!Next
  <2> QED
    BY <1>5, <2>2, <2>3 DEF FinishRemove
<1>6. CASE daemon # "running" /\ ~Start
  <2>1. daemon' # "running"
    BY <1>6
       DEF Next, vars, BootRemotes, BootList, BootConnect, BootShares, RemoteAdd,
           RemoteRemove, ConnectRequest, Disconnect, PersistAdd, PersistRemove,
           FinishAdd, FinishRemove, OldDies, Shutdown, Exit
  <2> QED
    BY <1>6, <2>1, SilentStutter
<1>7. CASE UNCHANGED <<daemon, next_port, manifest>>
  BY <1>7, OfferStutter
<1> QED
  BY <1>1, <1>2, <1>3, <1>4, <1>5, <1>6, <1>7
     DEF Next, vars, BootRemotes, BootList, BootConnect, Connect, ConnectRefused,
         RemoteAdd, RemoteRemove, ConnectRequest, Disconnect, PersistAdd,
         PersistRemove, OldDies, runtime

\* client.rs and shares.rs implement ShareOffer: each start of the daemon is a
\* session, in which no port is given out twice and no share moves.
THEOREM Refinement == Spec => KeepsOffer
<1>1. Spec => Client!Init /\ [][Client!Next]_Client!vars
  BY InitOffers, StepOffers, OffInvariant, Invariance, PTL DEF Spec
<1> QED
  BY <1>1 DEF KeepsOffer, Client!Spec

-----------------------------------------------------------------------------
(* What a chisel client forwards from its start on *)

\* The chisel clients a step leaves running it has found, or started with the
\* mappings of the shares it leaves.
FoundOrFresh ==
    \A c \in ChiselClients' :
        \/ c \in ChiselClients
        \/ c.remote \in Remote /\ c.ports = Mappings(shares', c.remote)

\* A chisel client that runs was killed before, or is that of a handle.
LEMMA ClientsAre ==
    /\ \A c \in ChiselClients :
          \/ c \in old
          \/ \E r \in Connected :
                tunnels[r].running /\ c = [remote |-> r, ports |-> tunnels[r].ports]
    /\ \A r \in Connected :
          tunnels[r].running => [remote |-> r, ports |-> tunnels[r].ports] \in ChiselClients
    /\ old \subseteq ChiselClients
  BY DEF ChiselClients

\* update_tunnels kills clients and starts new ones with the new mappings.
LEMMA UpdateStarts ==
    ASSUME RuntimeType, shares' \in [Share -> Served \cup {None}],
           NEW R \in SUBSET Connected, UpdateTunnels(R, shares')
    PROVE  FoundOrFresh
<1> SUFFICES ASSUME NEW c \in ChiselClients'
             PROVE  \/ c \in ChiselClients
                    \/ c.remote \in Remote /\ c.ports = Mappings(shares', c.remote)
  BY DEF FoundOrFresh
<1>1. /\ Connected' = Connected
      /\ \A r \in Connected \ R : tunnels'[r] = tunnels[r]
      /\ \A r \in R : tunnels'[r].running => tunnels'[r].ports = Mappings(shares', r)
  BY UpdateFacts
<1>2. old' = old \cup {[remote |-> r, ports |-> tunnels[r].ports] :
                        r \in {x \in R : tunnels[x].running}}
  BY DEF UpdateTunnels
<1>3. CASE c \in old'
  BY <1>2, <1>3, ClientsAre
<1>4. CASE c \notin old'
  <2>1. PICK r \in Connected :
          tunnels'[r].running /\ c = [remote |-> r, ports |-> tunnels'[r].ports]
    BY <1>1, <1>4 DEF ChiselClients
  <2>2. r \in Remote /\ c.remote = r /\ c.ports = tunnels'[r].ports
    BY <2>1 DEF Connected
  <2> QED
    BY <1>1, <2>1, <2>2, ClientsAre
<1> QED
  BY <1>3, <1>4

\* The lock sections that change shares or tunnels.
LEMMA AddStarts ==
    ASSUME RuntimeType, RuntimeType', NEW s \in Share, NEW o, AddShare(s, o)
    PROVE  FoundOrFresh
<1>1. ToUpdate(o) \in SUBSET Connected
  BY DEF ToUpdate
<1>2. UpdateTunnels(ToUpdate(o), shares') /\ shares' \in [Share -> Served \cup {None}]
  BY DEF AddShare, RuntimeType
<1> QED
  BY <1>1, <1>2, UpdateStarts

LEMMA RemoveStarts ==
    ASSUME RuntimeType, RuntimeType', NEW s \in Share, RemoveShare(s)
    PROVE  FoundOrFresh
<1>1. UpdateTunnels(Connected \cap Known, shares') /\ shares' \in [Share -> Served \cup {None}]
  BY DEF RemoveShare, RuntimeType
<1> QED
  BY <1>1, UpdateStarts

LEMMA ConnectStarts ==
    ASSUME RuntimeType, NEW r \in Remote, Connect(r)
    PROVE  FoundOrFresh
<1>1. /\ r \notin Connected
      /\ tunnels' = [tunnels EXCEPT ![r] = [ports |-> Mappings(shares, r), running |-> TRUE]]
      /\ UNCHANGED <<shares, old>>
  BY DEF Connect
<1>2. /\ tunnels'[r] = [ports |-> Mappings(shares', r), running |-> TRUE]
      /\ \A q \in Remote \ {r} : tunnels'[q] = tunnels[q]
  BY <1>1 DEF RuntimeType
<1> SUFFICES ASSUME NEW c \in ChiselClients', c \notin old'
             PROVE  \/ c \in ChiselClients
                    \/ c.remote \in Remote /\ c.ports = Mappings(shares', c.remote)
  BY <1>1, ClientsAre DEF FoundOrFresh
<1>3. PICK q \in Connected' :
        tunnels'[q].running /\ c = [remote |-> q, ports |-> tunnels'[q].ports]
  BY DEF ChiselClients
<1>4. q \in Remote /\ tunnels'[q] # None
  BY <1>3 DEF Connected
<1>5. CASE q = r
  BY <1>2, <1>3, <1>4, <1>5
<1>6. CASE q # r
  <2>1. q \in Connected /\ tunnels'[q] = tunnels[q]
    BY <1>2, <1>4, <1>6 DEF Connected
  <2> QED
    BY <1>3, <2>1, ClientsAre
<1> QED
  BY <1>5, <1>6

\* disconnect_from_remote, the shutdown branch, the end of a client or of the
\* daemon start none.
LEMMA DisconnectStarts ==
    ASSUME RuntimeType, NEW r \in Remote, Disconnect(r)
    PROVE  FoundOrFresh
<1>1. /\ r \in Connected
      /\ old' = IF tunnels[r].running
                THEN old \cup {[remote |-> r, ports |-> tunnels[r].ports]} ELSE old
      /\ tunnels'[r] = None
      /\ \A q \in Remote \ {r} : tunnels'[q] = tunnels[q]
  BY DEF Disconnect, RuntimeType
<1>2. old' \subseteq ChiselClients
  BY <1>1, ClientsAre
<1>3. ASSUME NEW c \in ChiselClients', c \notin old' PROVE c \in ChiselClients
  <2>1. PICK q \in Connected' :
          tunnels'[q].running /\ c = [remote |-> q, ports |-> tunnels'[q].ports]
    BY <1>3 DEF ChiselClients
  <2>2. q \in Connected /\ tunnels'[q] = tunnels[q]
    BY <1>1, <2>1 DEF Connected
  <2> QED
    BY <2>1, <2>2, ClientsAre
<1> QED
  BY <1>2, <1>3 DEF FoundOrFresh

LEMMA EndStarts ==
    ASSUME \/ tunnels' = Nothing(Remote) /\ old' \subseteq ChiselClients
           \/ tunnels' = tunnels /\ old' \subseteq old
    PROVE  FoundOrFresh
<1>1. CASE tunnels' = Nothing(Remote) /\ old' \subseteq ChiselClients
  <2>1. Connected' = {}
    BY <1>1 DEF Connected, Nothing
  <2>2. ChiselClients' = old'
    BY <2>1 DEF ChiselClients
  <2> QED
    BY <1>1, <2>2 DEF FoundOrFresh
<1>2. CASE tunnels' = tunnels /\ old' \subseteq old
  <2>1. ChiselClients' \subseteq ChiselClients
    BY <1>2 DEF ChiselClients, Connected
  <2> QED
    BY <2>1 DEF FoundOrFresh
<1> QED
  BY <1>1, <1>2

LEMMA StepStarts == IInv /\ IInv' /\ [Next]_vars => FoundOrFresh
<1> SUFFICES ASSUME IInv, IInv', [Next]_vars PROVE FoundOrFresh
  OBVIOUS
<1>0. RuntimeType /\ RuntimeType'
  BY DEF IInv, Runtime
<1> USE DEF IInv, Runtime
<1>1. CASE BootShares
  <2>1. ASSUME NEW s \in todo, AddShare(s, saved.shares[s]) PROVE FoundOrFresh
    <3>1. s \in Share
      BY <1>1, <2>1 DEF BootShares, Loading, Serving
    <3> QED
      BY <1>0, <2>1, <3>1, AddStarts
  <2> QED
    BY <1>1, <2>1, EndStarts DEF BootShares, AddRefused, runtime
<1>2. CASE BootConnect
  <2>1. ASSUME NEW r \in todo, Connect(r) PROVE FoundOrFresh
    <3>1. r \in Remote
      BY <2>1 DEF Connect, Known
    <3> QED
      BY <1>0, <2>1, <3>1, ConnectStarts
  <2> QED
    BY <1>2, <2>1, EndStarts DEF BootConnect, ConnectRefused, runtime
<1>3. ASSUME NEW h \in Handler, FinishAdd(h) PROVE FoundOrFresh
  <2>1. pending[h].name \in Share
    BY <1>3 DEF FinishAdd, ProcessType
  <2> QED
    BY <1>0, <1>3, <2>1, AddStarts, EndStarts DEF FinishAdd, AddRefused
<1>4. ASSUME NEW h \in Handler, FinishRemove(h) PROVE FoundOrFresh
  <2>1. pending[h].name \in Share
    BY <1>4 DEF FinishRemove, ProcessType
  <2> QED
    BY <1>0, <1>4, <2>1, RemoveStarts, EndStarts DEF FinishRemove, runtime
<1>5. ASSUME NEW r \in Remote, ConnectRequest(r) \/ Disconnect(r) PROVE FoundOrFresh
  BY <1>0, <1>5, ConnectStarts, DisconnectStarts DEF ConnectRequest
<1>6. CASE Shutdown \/ Exit \/ (\E c \in old : OldDies(c))
  <2>1. CASE Shutdown \/ Exit
    <3>1. tunnels' = Nothing(Remote)
      BY <2>1 DEF Shutdown, Exit, Blank
    <3>2. old' \subseteq ChiselClients
      BY <2>1 DEF Shutdown, Exit, Blank
    <3> QED
      BY <3>1, <3>2, EndStarts
  <2>2. ASSUME NEW c \in old, OldDies(c) PROVE FoundOrFresh
    <3>1. tunnels' = tunnels /\ old' \subseteq old
      BY <2>2 DEF OldDies
    <3> QED
      BY <3>1, EndStarts
  <2> QED
    BY <1>6, <2>1, <2>2
<1>7. CASE UNCHANGED <<tunnels, old>>
  BY <1>7, EndStarts
<1> QED
  BY <1>1, <1>2, <1>3, <1>4, <1>5, <1>6, <1>7
     DEF Next, vars, Start, BootRemotes, BootList, RemoteAdd, RemoteRemove, PersistAdd,
         PersistRemove, runtime

\* Forwards that lead to no share are never made, only left behind: with any
\* faults, and whichever remotes are removed while they are connected.
THEOREM OnlyLeftBehind == Spec => NoNewForwards
<1> DEFINE Fewer ==
      \A p \in Port :
          (\A s \in Serving(shares) : shares[s].port # p)'
              => Forwarders(p)' \subseteq Forwarders(p)
<1>1. IInv /\ IInv' /\ [Next]_vars => [Fewer]_vars
  <2> SUFFICES ASSUME IInv, IInv', [Next]_vars, NEW p \in Port,
                      \A s \in Serving(shares') : shares'[s].port # p,
                      NEW c \in ChiselClients', p \in c.ports
               PROVE  c \in ChiselClients
    BY DEF Forwarders
  <2>1. CASE c.remote \in Remote /\ c.ports = Mappings(shares', c.remote)
    <3>1. shares' \in [Share -> Served \cup {None}]
      BY DEF IInv, Runtime, RuntimeType
    <3> QED
      BY <2>1, <3>1, MappingsFacts
  <2> QED
    BY <2>1, StepStarts DEF FoundOrFresh
<1>2. Spec => [][Fewer]_vars
  BY <1>1, Invariance, PTL DEF Spec
<1> QED
  BY <1>2 DEF NoNewForwards

=============================================================================
