---------------------------- MODULE TrackerProofs ----------------------------
(***************************************************************************)
(* Proofs about utils/tracker.cpp on its own: whatever datagrams reach it, *)
(* from whichever sockets, in whatever order and however often.            *)
(***************************************************************************)
EXTENDS Tracker, TLAPS

(* findByValue returns an id registered for the address, and 0 only when   *)
(* there is none.                                                          *)
LEMMA FindByValueSpec ==
    ASSUME NEW addr
    PROVE  \/ FindByValue(addr) = 0 /\ \A i \in Id : clusters[i] # addr
           \/ FindByValue(addr) \in Id /\ clusters[FindByValue(addr)] = addr
<1>1. CASE \E i \in Id : clusters[i] = addr
  BY <1>1 DEF FindByValue
<1>2. CASE ~\E i \in Id : clusters[i] = addr
  BY <1>2 DEF FindByValue
<1>3. QED BY <1>1, <1>2

TrackerInv == TrackerTypeOK /\ AddrUnique

\* The tracker starts with nothing on record.
LEMMA TrackerInitInv == TrackerInit => TrackerInv
<1> SUFFICES ASSUME TrackerInit PROVE TrackerInv
  OBVIOUS
<1>1. TrackerTypeOK
  BY IdAssumption DEF TrackerInit, TrackerTypeOK, Id
<1>2. AddrUnique
  BY DEF TrackerInit, AddrUnique
<1>3. QED BY <1>1, <1>2 DEF TrackerInv

(* What "ID 0" is answered with is an id.                                  *)
LEMMA GrantedIsId ==
    ASSUME TrackerTypeOK, NEW from \in Addr, Granted(from) <= MaxIssued
    PROVE  Granted(from) \in Id
<1>1. CASE FindByValue(from) = 0
  BY <1>1, IdAssumption DEF Granted, TrackerTypeOK, Id
<1>2. CASE FindByValue(from) # 0
  BY <1>2, FindByValueSpec DEF Granted
<1>3. QED BY <1>1, <1>2

\* OnIdUpdate erases the sender's entry before it adds the new one.
LEMMA UpdateInv ==
    ASSUME TrackerInv, NEW from \in Addr, NEW newId \in Id, OnIdUpdate(from, newId)
    PROVE  TrackerInv'
<1>1. TrackerTypeOK'
  BY NoAddrAssumption DEF TrackerInv, TrackerTypeOK, OnIdUpdate
<1>2. AddrUnique'
  <2> SUFFICES ASSUME NEW i \in Id, NEW j \in Id,
                      clusters'[i] = clusters'[j], clusters'[i] # NoAddr
               PROVE  i = j
    BY DEF AddrUnique
  <2> DEFINE old == FindByValue(from)
  <2>1. \A k \in Id : clusters'[k] = IF k = newId THEN from
                                     ELSE IF k = old THEN NoAddr ELSE clusters[k]
    BY DEF OnIdUpdate
  <2>2. \A k \in Id : (k # newId /\ clusters'[k] # NoAddr) => clusters'[k] # from
    <3> SUFFICES ASSUME NEW k \in Id, k # newId, clusters'[k] # NoAddr, clusters'[k] = from
                 PROVE  FALSE
      OBVIOUS
    <3>1. k # old /\ clusters[k] = from
      BY <2>1
    <3>2. old \in Id /\ clusters[old] = from
      BY <3>1, FindByValueSpec
    <3>3. QED BY <3>1, <3>2, NoAddrAssumption DEF TrackerInv, AddrUnique
  <2>3. QED BY <2>1, <2>2 DEF TrackerInv, AddrUnique
<1>3. QED BY <1>1, <1>2 DEF TrackerInv

\* OnIdRequest adds an entry only for a sender that has none.
LEMMA RequestInv ==
    ASSUME TrackerInv, NEW from \in Addr, OnIdRequest(from)
    PROVE  TrackerInv'
<1> DEFINE g == Granted(from)
<1>1. g \in Id /\ clusters' = [clusters EXCEPT ![g] = from]
  BY GrantedIsId DEF OnIdRequest, TrackerInv
<1>2. TrackerTypeOK'
  <2>1. next' \in RESERVED_CLUSTER_ID + 1 .. MaxIssued + 1
    BY IdAssumption DEF OnIdRequest, TrackerInv, TrackerTypeOK, Granted
  <2>2. QED BY <1>1, <2>1 DEF OnIdRequest, TrackerInv, TrackerTypeOK
<1>3. \A k \in Id : k # g => clusters[k] # from
  <2>1. CASE FindByValue(from) = 0
    BY <2>1, FindByValueSpec, IdAssumption DEF Id
  <2>2. CASE FindByValue(from) # 0
    <3>1. FindByValue(from) = g /\ clusters[g] = from
      BY <2>2, FindByValueSpec DEF Granted
    <3>2. QED BY <1>1, <3>1, NoAddrAssumption DEF TrackerInv, AddrUnique
  <2>3. QED BY <2>1, <2>2
<1>4. AddrUnique'
  BY <1>1, <1>3, <1>2 DEF AddrUnique, TrackerInv, TrackerTypeOK
<1>5. QED BY <1>2, <1>4 DEF TrackerInv

\* Every handler keeps addresses unique.
LEMMA TrackerNextInv == TrackerInv /\ [TrackerNext]_trackerVars => TrackerInv'
<1> SUFFICES ASSUME TrackerInv, [TrackerNext]_trackerVars PROVE TrackerInv'
  OBVIOUS
<1>1. ASSUME NEW from \in Addr, NEW newId \in Id, OnIdUpdate(from, newId)
      PROVE  TrackerInv'
  BY <1>1, UpdateInv
<1>2. ASSUME NEW from \in Addr, OnIdRequest(from) PROVE TrackerInv'
  BY <1>2, RequestInv
<1>3. ASSUME NEW what \in Id, OnGet(what) PROVE TrackerInv'
  BY <1>3 DEF OnGet, TrackerInv, TrackerTypeOK, AddrUnique
<1>4. ASSUME NEW i \in Id, Expire(i) PROVE TrackerInv'
  BY <1>4 DEF Expire, TrackerInv, TrackerTypeOK, AddrUnique
<1>5. CASE UNCHANGED trackerVars
  BY <1>5 DEF trackerVars, TrackerInv, TrackerTypeOK, AddrUnique
<1>6. QED BY <1>1, <1>2, <1>3, <1>4, <1>5 DEF TrackerNext

\* Types and AddrUnique hold together in every behaviour.
LEMMA TrackerSpecInv == TrackerSpec => []TrackerInv
<1>1. QED BY TrackerInitInv, TrackerNextInv, PTL DEF TrackerSpec

(* No server is ever on record under two ids, so findByValue's answer does *)
(* not depend on the order in which it walks the map.                      *)
THEOREM TrackerAddrUnique == TrackerSpec => []AddrUnique
<1>1. TrackerInv => AddrUnique
  BY DEF TrackerInv
<1>2. QED BY <1>1, TrackerSpecInv, PTL

(* One step forgets an id only for one of the two reasons the code has: it *)
(* is purged by a GET, or its server registered under another id.          *)
LEMMA StepForgets ==
    ASSUME TrackerInv, TrackerNext, NEW i \in Id,
           clusters[i] # NoAddr, clusters'[i] = NoAddr
    PROVE  \/ i \notin Reserved /\ i \notin fresh
           \/ \E j \in Id : clusters'[j] = clusters[i]
<1>1. ASSUME NEW from \in Addr, NEW newId \in Id, OnIdUpdate(from, newId)
      PROVE  \E j \in Id : clusters'[j] = clusters[i]
  <2>1. i # newId /\ i = FindByValue(from)
    BY <1>1, NoAddrAssumption DEF OnIdUpdate
  <2>2. clusters[i] = from
    BY <2>1, IdAssumption, FindByValueSpec DEF Id
  <2>3. clusters'[newId] = from
    BY <1>1 DEF OnIdUpdate
  <2>4. QED BY <2>2, <2>3
<1>2. ASSUME NEW from \in Addr, OnIdRequest(from) PROVE FALSE
  BY <1>2, NoAddrAssumption DEF OnIdRequest, TrackerInv, TrackerTypeOK
<1>3. ASSUME NEW what \in Id, OnGet(what)
      PROVE  i \notin Reserved /\ i \notin fresh
  BY <1>3, IdAssumption DEF OnGet, TrackerInv, TrackerTypeOK, Reserved, Id
<1>4. ASSUME NEW what \in Id, Expire(what) PROVE FALSE
  BY <1>4 DEF Expire
<1>5. QED BY <1>1, <1>2, <1>3, <1>4 DEF TrackerNext

(* A fresh registration, and a reserved id however old, is never dropped   *)
(* while its server goes unregistered.                                     *)
THEOREM TrackerKeepsRegistrations == TrackerSpec => OnlyOldForgotten
<1>1. TrackerInv /\ [TrackerNext]_trackerVars =>
        [ForgetsOnlyOld]_trackerVars
  BY StepForgets DEF ForgetsOnlyOld
<1>2. QED BY <1>1, TrackerSpecInv, PTL DEF TrackerSpec, OnlyOldForgotten
=============================================================================
