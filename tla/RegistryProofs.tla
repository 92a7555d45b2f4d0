--------------------------- MODULE RegistryProofs ---------------------------
(***************************************************************************)
(* Proofs about the tracker and its servers together, for any number of    *)
(* servers, ids and datagrams under way.                                   *)
(***************************************************************************)
EXTENDS Registry, TrackerProofs

(* Sending adds at most the one datagram.                                  *)
LEMMA SendAdds ==
    ASSUME NEW others, NEW m, Send(others, m)
    PROVE  net' \subseteq others \cup {m}
<1>1. QED BY DEF Send

\* Taking a datagram leaves a subset.
LEMMA TakenShrinks ==
    ASSUME NEW m, Taken(m)
    PROVE  net' \subseteq net
<1>1. QED BY DEF Taken

(* A datagram is determined by its command, its server and its id.         *)
LEMMA MessageForms ==
    ASSUME NEW m \in Message
    PROVE  /\ m.addr \in Addr /\ m.id \in Id \cup {0}
           /\ m.cmd = "RUN" => m = RunMsg(m.addr, m.id) /\ m.id \in Id
           /\ m.cmd = "ID" => m = IdMsg(m.addr, m.id)
<1>1. CASE m \in [cmd : {"ID"}, addr : Addr, id : Id \cup {0}]
  BY <1>1 DEF IdMsg
<1>2. CASE m \in [cmd : {"RUN"}, addr : Addr, id : Id]
  BY <1>2 DEF RunMsg
<1>3. QED BY <1>1, <1>2 DEF Message

\* What a datagram is follows from its command.
LEMMA MessageTypes ==
    ASSUME NEW a \in Addr
    PROVE  /\ \A i \in Id \cup {0} : IdMsg(a, i) \in Message
           /\ \A i \in Id : RunMsg(a, i) \in Message
<1>1. QED BY DEF Message, IdMsg, RunMsg

-----------------------------------------------------------------------------
(* Every step of the composition is a step of the tracker or invisible to  *)
(* it: it carries over what TrackerProofs shows.                           *)
LEMMA StepIsTrackerStep ==
    ASSUME net \subseteq Message, [RegistryNext]_vars
    PROVE  [TrackerNext]_trackerVars
<1>1. ASSUME NEW s \in Server, StartServer(s) PROVE UNCHANGED trackerVars
  BY <1>1 DEF StartServer
<1>2. CASE StartTimeServer
  BY <1>2 DEF StartTimeServer
<1>3. ASSUME NEW a \in Addr, Exit(a) \/ Announce(a) PROVE UNCHANGED trackerVars
  BY <1>3 DEF Exit, Announce
<1>4. ASSUME NEW s \in Server, NEW i \in Reserved, ClientRun(s, i)
      PROVE  UNCHANGED trackerVars
  BY <1>4 DEF ClientRun
<1>5. ASSUME NEW i \in Id, Get(i) \/ GrowOld(i) PROVE TrackerNext
  BY <1>5 DEF Get, GrowOld, TrackerNext
<1>6. ASSUME NEW m \in net, DeliverRun(m) \/ Lose(m) PROVE UNCHANGED trackerVars
  BY <1>6 DEF DeliverRun, Lose
<1>7. ASSUME NEW m \in net, DeliverIdUpdate(m) PROVE TrackerNext
  <2>1. m.addr \in Addr /\ m.id \in Id
    BY <1>7, MessageForms DEF DeliverIdUpdate
  <2>2. QED BY <1>7, <2>1 DEF DeliverIdUpdate, TrackerNext
<1>8. ASSUME NEW m \in net, DeliverIdRequest(m) PROVE TrackerNext
  <2>1. m.addr \in Addr
    BY MessageForms
  <2>2. QED BY <1>8, <2>1 DEF DeliverIdRequest, TrackerNext
<1>9. CASE UNCHANGED vars
  BY <1>9 DEF vars, trackerVars
<1>10. QED
  BY <1>1, <1>2, <1>3, <1>4, <1>5, <1>6, <1>7, <1>8, <1>9 DEF RegistryNext

\* The state has its types at the start.
LEMMA InitTypeOK == RegistryInit => TypeOK
<1> SUFFICES ASSUME RegistryInit PROVE TypeOK
  OBVIOUS
<1>1. TrackerTypeOK
  BY TrackerInitInv DEF RegistryInit, TrackerInv
<1>2. QED BY <1>1 DEF RegistryInit, TypeOK

\* Every step keeps the types.
LEMMA NextTypeOK ==
    ASSUME TypeOK, TrackerInv, [RegistryNext]_vars
    PROVE  TypeOK' /\ TrackerInv'
<1>n. net \subseteq Message
  BY DEF TypeOK
<1>t. TrackerInv'
  BY <1>n, StepIsTrackerStep, TrackerNextInv
<1>u. TrackerTypeOK'
  BY <1>t DEF TrackerInv
<1> USE DEF counters
<1>1. ASSUME NEW s \in Server, StartServer(s) PROVE TypeOK'
  <2>1. startId[s] \in Id \cup {0}
    BY StartIdAssumption, IdAssumption DEF Reserved, Id
  <2>2. QED BY <1>1, <1>u, <2>1 DEF StartServer, TypeOK
<1>2. CASE StartTimeServer
  BY <1>2, <1>u, <1>t DEF StartTimeServer, TypeOK
<1>3. ASSUME NEW a \in Addr, Exit(a) PROVE TypeOK'
  BY <1>3, <1>u DEF Exit, TypeOK
<1>4. ASSUME NEW a \in Addr, Announce(a) PROVE TypeOK'
  <2>1. CurrentId(a) \in Id \cup {0}
    BY AddrAssumption, TimeServerIdAssumption DEF TypeOK, CurrentId
  <2>2. net' \subseteq Message
    BY <1>4, <1>n, <2>1, SendAdds, MessageTypes DEF Announce
  <2>3. QED BY <1>4, <1>u, <2>2 DEF Announce, TypeOK
<1>5. ASSUME NEW s \in Server, NEW i \in Reserved, ClientRun(s, i) PROVE TypeOK'
  <2>1. s \in Addr /\ i \in Id
    BY AddrAssumption, IdAssumption DEF Reserved, Id
  <2>2. net' \subseteq Message
    BY <1>5, <1>n, <2>1, SendAdds, MessageTypes DEF ClientRun
  <2>3. QED BY <1>5, <1>u, <2>2 DEF ClientRun, TypeOK
<1>6. ASSUME NEW m \in net, DeliverRun(m) PROVE TypeOK'
  <2>1. m.id \in Id
    BY <1>6, <1>n, MessageForms DEF DeliverRun
  <2>2. net' \subseteq Message
    BY <1>6, <1>n, TakenShrinks DEF DeliverRun
  <2>3. QED BY <1>6, <1>u, <2>1, <2>2 DEF DeliverRun, TypeOK
<1>7. ASSUME NEW m \in net, DeliverIdUpdate(m) PROVE TypeOK'
  <2>1. net' \subseteq Message
    BY <1>7, <1>n, TakenShrinks DEF DeliverIdUpdate
  <2>2. QED BY <1>7, <1>u, <2>1 DEF DeliverIdUpdate, TypeOK
<1>8. ASSUME NEW m \in net, DeliverIdRequest(m) PROVE TypeOK'
  <2>1. m.addr \in Addr
    BY <1>n, MessageForms
  <2>2. Granted(m.addr) \in Id
    BY <1>8, <2>1, GrantedIsId DEF DeliverIdRequest, OnIdRequest, TypeOK
  <2>3. net' \subseteq net \cup {RunMsg(m.addr, Granted(m.addr))}
    BY <1>8, SendAdds DEF DeliverIdRequest
  <2>4. net' \subseteq Message
    BY <1>n, <2>1, <2>2, <2>3, MessageTypes
  <2>5. QED BY <1>8, <1>u, <2>4 DEF DeliverIdRequest, TypeOK
<1>9. ASSUME NEW m \in net, Lose(m) PROVE TypeOK'
  BY <1>9, <1>u DEF Lose, TypeOK
<1>10. ASSUME NEW i \in Id, Get(i) \/ GrowOld(i) PROVE TypeOK'
  BY <1>10, <1>u DEF Get, GrowOld, TypeOK
<1>11. CASE UNCHANGED vars
  BY <1>11, <1>u, <1>t DEF vars, TypeOK
<1>12. QED
  BY <1>t, <1>1, <1>2, <1>3, <1>4, <1>5, <1>6, <1>7, <1>8, <1>9, <1>10, <1>11
     DEF RegistryNext

-----------------------------------------------------------------------------
(* Why ids stay unique.  An address claims an id that the tracker hands    *)
(* out when anything anywhere still ties it to that id: the server's own   *)
(* state, a datagram under way in either direction, or the tracker's map.  *)
(* A late or repeated datagram can only bring back a tie its address       *)
(* already has, so that it is enough to follow the claims.                 *)

Claims(a, n) ==
    \/ a \in Server /\ id[a] = n
    \/ IdMsg(a, n) \in net
    \/ RunMsg(a, n) \in net
    \/ clusters[n] = a

ClaimsIssued ==
    \A n \in Id \ Reserved, a \in Addr :
        Claims(a, n) => n < next \/ (n = TIME_SERVER_ID /\ a = TimeServer)

ClaimsSole ==
    \A n \in Id \ Reserved, a, b \in Addr : Claims(a, n) /\ Claims(b, n) => a = b

RegistryInv == TypeOK /\ TrackerInv /\ ClaimsIssued /\ ClaimsSole

(* Where a step's claims come from: only the tracker's answer to "ID 0"    *)
(* makes a new one, for the next number and for one address.               *)
LEMMA ClaimOrigin ==
    ASSUME TypeOK, TrackerInv, [RegistryNext]_vars
    PROVE  \E from \in Addr : \A n \in Id \ Reserved, a \in Addr :
               Claims(a, n)' => \/ Claims(a, n)
                                \/ n = TIME_SERVER_ID /\ a = TimeServer
                                \/ n = next /\ a = from /\ next' = next + 1
<1> DEFINE Origin(from) ==
             \A n \in Id \ Reserved, a \in Addr :
               Claims(a, n)' => \/ Claims(a, n)
                                \/ n = TIME_SERVER_ID /\ a = TimeServer
                                \/ n = next /\ a = from /\ next' = next + 1
           Same == \A n \in Id \ Reserved, a \in Addr :
               Claims(a, n)' => \/ Claims(a, n)
                                \/ n = TIME_SERVER_ID /\ a = TimeServer
<1>n. net \subseteq Message /\ id \in [Server -> Id \cup {0}]
      /\ clusters \in [Id -> Addr \cup {NoAddr}]
  BY DEF TypeOK, TrackerTypeOK
<1>s. Same => Origin(TimeServer) /\ TimeServer \in Addr
  BY AddrAssumption
<1>f. \A a, b, i, j : IdMsg(a, i) # RunMsg(b, j)
  BY DEF IdMsg, RunMsg
<1>g. \A a, b, i, j : /\ IdMsg(a, i) = IdMsg(b, j) => a = b /\ i = j
                      /\ RunMsg(a, i) = RunMsg(b, j) => a = b /\ i = j
  BY DEF IdMsg, RunMsg
<1> USE DEF trackerVars
<1>1. ASSUME NEW s \in Server, StartServer(s) PROVE Same
  <2>1. startId[s] \notin Id \ Reserved
    BY StartIdAssumption, IdAssumption DEF Reserved, Id
  <2>2. QED BY <1>1, <1>n, <2>1 DEF StartServer, Claims
<1>2. CASE StartTimeServer \/ (\E a \in Addr : Exit(a)) \/ UNCHANGED vars
  <2>1. Same
    BY <1>2 DEF StartTimeServer, Exit, vars, Claims
  <2>2. QED BY <1>s, <2>1
<1>3. ASSUME NEW b \in Addr, Announce(b) PROVE Same
  <2>1. net' \subseteq net \cup {IdMsg(b, CurrentId(b))} /\ UNCHANGED <<id, clusters>>
    BY <1>3, SendAdds DEF Announce
  <2>2. ASSUME NEW n \in Id \ Reserved, NEW a \in Addr, IdMsg(a, n) = IdMsg(b, CurrentId(b))
        PROVE  Claims(a, n) \/ (n = TIME_SERVER_ID /\ a = TimeServer)
    BY <2>2, <1>g, AddrAssumption DEF Claims, CurrentId
  <2>3. QED BY <1>f, <2>1, <2>2 DEF Claims
<1>4. ASSUME NEW s \in Server, NEW i \in Reserved, ClientRun(s, i) PROVE Same
  <2>1. net' \subseteq net \cup {RunMsg(s, i)} /\ UNCHANGED <<id, clusters>>
    BY <1>4, SendAdds DEF ClientRun
  <2>2. QED BY <1>f, <1>g, <2>1 DEF Claims
<1>5. ASSUME NEW m \in net, DeliverRun(m) PROVE Same
  <2>1. net' \subseteq net /\ clusters' = clusters /\ m = RunMsg(m.addr, m.id)
    BY <1>5, <1>n, TakenShrinks, MessageForms DEF DeliverRun
  <2>2. \A a \in Server : id'[a] = id[a] \/ (a = m.addr /\ id'[a] = m.id)
    BY <1>5, <1>n DEF DeliverRun
  <2>3. QED BY <2>1, <2>2 DEF Claims
<1>6. ASSUME NEW m \in net, DeliverIdUpdate(m) PROVE Same
  <2>1. net' \subseteq net /\ id' = id /\ m = IdMsg(m.addr, m.id)
    BY <1>6, <1>n, TakenShrinks, MessageForms DEF DeliverIdUpdate
  <2>2. \A i \in Id : clusters'[i] \in {clusters[i], NoAddr} \/ (i = m.id /\ clusters'[i] = m.addr)
    BY <1>6, <1>n DEF DeliverIdUpdate, OnIdUpdate
  <2>3. QED BY <2>1, <2>2, NoAddrAssumption DEF Claims
<1>7. ASSUME NEW m \in net, DeliverIdRequest(m)
      PROVE  m.addr \in Addr /\ Origin(m.addr)
  <2> DEFINE g == Granted(m.addr)
  <2>1. m.addr \in Addr
    BY <1>n, MessageForms
  <2>2. net' \subseteq net \cup {RunMsg(m.addr, g)} /\ id' = id
    BY <1>7, SendAdds DEF DeliverIdRequest
  <2>3. \A i \in Id : clusters'[i] = clusters[i] \/ (i = g /\ clusters'[i] = m.addr)
    BY <1>7, <1>n DEF DeliverIdRequest, OnIdRequest
  <2>4. (g \in Id /\ clusters[g] = m.addr) \/ (g = next /\ next' = next + 1)
    BY <1>7, FindByValueSpec DEF DeliverIdRequest, OnIdRequest, Granted
  <2>5. ASSUME NEW n \in Id \ Reserved, NEW a \in Addr, Claims(a, n)'
        PROVE  Claims(a, n) \/ (n = g /\ a = m.addr)
    BY <1>f, <1>g, <2>2, <2>3, <2>5 DEF Claims
  <2>6. QED BY <2>1, <2>4, <2>5 DEF Claims
<1>8. ASSUME NEW m \in net, Lose(m) PROVE Same
  BY <1>8 DEF Lose, Claims
<1>9. ASSUME NEW i \in Id, Get(i) \/ GrowOld(i) PROVE Same
  <2>1. net' = net /\ id' = id /\ \A j \in Id : clusters'[j] \in {clusters[j], NoAddr}
    BY <1>9, <1>n DEF Get, GrowOld, OnGet, Expire
  <2>2. QED BY <2>1, NoAddrAssumption DEF Claims
<1>10. QED
  BY <1>s, <1>1, <1>2, <1>3, <1>4, <1>5, <1>6, <1>7, <1>8, <1>9 DEF RegistryNext

\* Nobody claims an id at the start.
LEMMA InitRegistryInv == RegistryInit => RegistryInv
<1> SUFFICES ASSUME RegistryInit PROVE RegistryInv
  OBVIOUS
<1>1. TypeOK /\ TrackerInv
  BY InitTypeOK, TrackerInitInv DEF RegistryInit
<1>2. \A n \in Id \ Reserved, a \in Addr : ~Claims(a, n)
  <2> SUFFICES ASSUME NEW n \in Id \ Reserved, NEW a \in Addr PROVE ~Claims(a, n)
    OBVIOUS
  <2>1. n # 0
    BY IdAssumption DEF Id
  <2>2. clusters[n] # a
    BY NoAddrAssumption DEF RegistryInit, TrackerInit
  <2>3. QED BY <2>1, <2>2 DEF RegistryInit, Claims
<1>3. QED BY <1>1, <1>2 DEF RegistryInv, ClaimsIssued, ClaimsSole

\* The tracker's counter never goes down.
LEMMA NextGrows ==
    ASSUME TypeOK, TrackerInv, [RegistryNext]_vars
    PROVE  next' >= next /\ next' \in Nat /\ next \in Nat /\ next <= MaxIssued + 1
<1>1. [TrackerNext]_trackerVars
  BY StepIsTrackerStep DEF TypeOK
<1>2. next \in Nat /\ next <= MaxIssued + 1
  BY IdAssumption DEF TypeOK, TrackerTypeOK
<1>3. next' = next \/ next' = next + 1
  BY <1>1 DEF TrackerNext, OnIdUpdate, OnIdRequest, OnGet, Expire, trackerVars
<1>4. QED BY <1>2, <1>3

\* Every step keeps claims on ids undisputed.
LEMMA NextRegistryInv == RegistryInv /\ [RegistryNext]_vars => RegistryInv'
<1> SUFFICES ASSUME RegistryInv, [RegistryNext]_vars PROVE RegistryInv'
  OBVIOUS
<1>1. TypeOK /\ TrackerInv /\ TypeOK' /\ TrackerInv'
  BY NextTypeOK DEF RegistryInv
<1>2. PICK from \in Addr : \A n \in Id \ Reserved, a \in Addr :
               Claims(a, n)' => \/ Claims(a, n)
                                \/ n = TIME_SERVER_ID /\ a = TimeServer
                                \/ n = next /\ a = from /\ next' = next + 1
  BY <1>1, ClaimOrigin
<1>3. next' >= next /\ next' \in Nat /\ next \in Nat /\ next <= MaxIssued + 1
  BY <1>1, NextGrows
<1>4. ClaimsIssued'
  <2> SUFFICES ASSUME NEW n \in Id \ Reserved, NEW a \in Addr, Claims(a, n)'
               PROVE  n < next' \/ (n = TIME_SERVER_ID /\ a = TimeServer)
    BY DEF ClaimsIssued
  <2>1. n \in Nat
    BY DEF Id
  <2>2. CASE Claims(a, n)
    BY <1>3, <2>1, <2>2 DEF RegistryInv, ClaimsIssued
  <2>3. CASE n = next /\ a = from /\ next' = next + 1
    BY <1>3, <2>3
  <2>4. QED BY <1>2, <2>2, <2>3
<1>5. ClaimsSole'
  <2> SUFFICES ASSUME NEW n \in Id \ Reserved, NEW a \in Addr, NEW b \in Addr,
                      Claims(a, n)', Claims(b, n)'
               PROVE  a = b
    BY DEF ClaimsSole
  <2>1. n \in Nat /\ MaxIssued \in Nat
    BY IdAssumption DEF Id
  <2>2. CASE n = TIME_SERVER_ID
    <3>1. \A c \in Addr : Claims(c, n) => c = TimeServer
      BY <1>3, <2>1, <2>2, TimeServerIdAssumption DEF RegistryInv, ClaimsIssued
    <3>2. ~(n = next /\ next' = next + 1)
      BY <1>1, <1>3, <2>1, <2>2, TimeServerIdAssumption DEF TypeOK, TrackerTypeOK
    <3>3. QED BY <1>2, <3>1, <3>2
  <2>3. CASE n = next /\ n # TIME_SERVER_ID
    <3>1. \A c \in Addr : ~Claims(c, n)
      BY <1>3, <2>3 DEF RegistryInv, ClaimsIssued
    <3>2. QED BY <1>2, <2>3, <3>1
  <2>4. CASE n # next /\ n # TIME_SERVER_ID
    BY <1>2, <2>4 DEF RegistryInv, ClaimsSole
  <2>5. QED BY <2>2, <2>3, <2>4
<1>6. QED BY <1>1, <1>4, <1>5 DEF RegistryInv

\* The inductive invariant of tracker, servers and datagrams.
LEMMA SpecRegistryInv == RegistrySpec => []RegistryInv
<1>1. QED BY InitRegistryInv, NextRegistryInv, PTL DEF RegistrySpec

(* Every variable of the composition keeps its type.                       *)
THEOREM RegistryTypeCorrect == RegistrySpec => []TypeOK
<1>1. RegistryInv => TypeOK
  BY DEF RegistryInv
<1>2. QED BY <1>1, SpecRegistryInv, PTL

(* No two servers run under the same id unless the user reserved it for    *)
(* both, however many servers there are and whatever UDP does with their   *)
(* datagrams, as long as the tracker itself does not restart.              *)
THEOREM RegistryUniqueIds == RegistrySpec => []UniqueIds
<1>1. RegistryInv => UniqueIds
  <2> SUFFICES ASSUME RegistryInv, NEW s \in Server, NEW t \in Server,
                      s # t, id[s] = id[t], id[s] \notin Reserved \cup {0}
               PROVE  FALSE
    BY DEF UniqueIds
  <2>1. id[s] \in Id \ Reserved /\ s \in Addr /\ t \in Addr
    BY AddrAssumption DEF RegistryInv, TypeOK
  <2>2. Claims(s, id[s]) /\ Claims(t, id[s])
    BY DEF Claims
  <2>3. QED BY <2>1, <2>2 DEF RegistryInv, ClaimsSole
<1>2. QED BY <1>1, SpecRegistryInv, PTL

(* An id the tracker handed out never comes to mean another server.        *)
THEOREM RegistryNeverRebinds == RegistrySpec => IssuedNeverRebound
<1>1. ASSUME RegistryInv, RegistryInv', [RegistryNext]_vars, NEW i \in Id \ Reserved,
             clusters[i] # NoAddr, clusters'[i] # NoAddr
      PROVE  clusters'[i] = clusters[i]
  <2>1. /\ TypeOK /\ TrackerInv /\ i \in Nat
        /\ next' \in Nat /\ next' <= MaxIssued + 1
        /\ next \in Nat /\ next <= MaxIssued + 1 /\ MaxIssued \in Nat
    BY <1>1, IdAssumption DEF RegistryInv, TypeOK, TrackerTypeOK, Id
  <2>2. PICK a \in Addr, b \in Addr : a = clusters[i] /\ b = clusters'[i]
    BY <1>1 DEF RegistryInv, TypeOK, TrackerTypeOK
  <2>3. Claims(a, i) /\ Claims(b, i)'
    BY <2>2 DEF Claims
  <2>4. i < next \/ (i = TIME_SERVER_ID /\ a = TimeServer)
    BY <1>1, <2>3 DEF RegistryInv, ClaimsIssued
  <2>5. \/ Claims(b, i)
        \/ i = TIME_SERVER_ID /\ b = TimeServer
        \/ i = next /\ next' = next + 1
    BY <1>1, <2>1, <2>3, ClaimOrigin
  <2>6. CASE Claims(b, i)
    BY <1>1, <2>2, <2>3, <2>6 DEF RegistryInv, ClaimsSole
  <2>7. CASE i = TIME_SERVER_ID /\ b = TimeServer
    BY <2>1, <2>2, <2>4, <2>7, TimeServerIdAssumption
  <2>8. CASE i = next /\ next' = next + 1
    BY <2>1, <2>4, <2>8, TimeServerIdAssumption
  <2>9. QED BY <2>5, <2>6, <2>7, <2>8
<1>2. RegistryInv /\ RegistryInv' /\ [RegistryNext]_vars =>
        [KeepsIssued]_vars
  BY <1>1 DEF KeepsIssued
<1>3. QED BY <1>2, SpecRegistryInv, PTL DEF RegistrySpec, IssuedNeverRebound

(* The composition implements the tracker on its own, so that what is      *)
(* proved of the tracker against any environment holds in it.              *)
THEOREM RegistryImplementsTracker == RegistrySpec => TrackerSpec
<1>1. RegistryInit => TrackerInit
  BY DEF RegistryInit
<1>2. RegistryInv /\ [RegistryNext]_vars => [TrackerNext]_trackerVars
  BY StepIsTrackerStep DEF RegistryInv, TypeOK
<1>3. QED BY <1>1, <1>2, SpecRegistryInv, PTL DEF RegistrySpec, TrackerSpec

(* A server is on record under one id at most.                             *)
THEOREM RegistryAddrUnique == RegistrySpec => []AddrUnique
<1>1. QED BY RegistryImplementsTracker, TrackerAddrUnique
(* Whatever the servers, the time server and the client send it, the       *)
(* tracker forgets an id only when it is old and not reserved, or when its *)
(* server moves to another (tracker.cpp, the GET and ID commands).         *)
THEOREM RegistryKeepsRegistrations == RegistrySpec => OnlyOldForgotten
<1>1. QED BY RegistryImplementsTracker, TrackerKeepsRegistrations
=============================================================================
