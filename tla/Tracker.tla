------------------------------- MODULE Tracker -------------------------------
(***************************************************************************)
(* utils/tracker.cpp: the process that maps ClusterIDs to the IP:port of   *)
(* the server thread running under that id.  One action per command that   *)
(* changes its state; ACK, LIST and unknown commands change nothing.       *)
(*                                                                         *)
(* The map is a function on all ids (NoAddr where the code has no entry).  *)
(* A timestamp in updateTime matters only through isOld, so it is kept as  *)
(* the set of ids that are fresh; Expire(i) is the passing of              *)
(* ENV_UPDATE_TIME since the latest update of i.  As in the code, erasing  *)
(* an id from clusters leaves its timestamp behind.                        *)
(***************************************************************************)
EXTENDS Naturals

CONSTANTS Addr,                  \* IP:port of the server sockets
          NoAddr,                \* no entry in the map
          RESERVED_CLUSTER_ID,   \* ids up to this one are never handed out
          MaxId,                 \* bound of the model: the largest ClusterID
          MaxIssued              \* bound of the model: the last id handed out

ASSUME NoAddrAssumption == NoAddr \notin Addr
ASSUME IdAssumption ==
    /\ RESERVED_CLUSTER_ID \in Nat /\ MaxIssued \in Nat /\ MaxId \in Nat
    /\ RESERVED_CLUSTER_ID < MaxIssued /\ MaxIssued <= MaxId

Id == 1 .. MaxId
Reserved == 1 .. RESERVED_CLUSTER_ID

VARIABLES clusters,   \* ClusterID -> IP:port
          fresh,      \* the ids whose updateTime is recent
          next        \* the next id to hand out

trackerVars == <<clusters, fresh, next>>

TrackerInit ==
    /\ clusters = [i \in Id |-> NoAddr]
    /\ fresh = {}
    /\ next = RESERVED_CLUSTER_ID + 1

\* findByValue: the id registered for an address, 0 when there is none
FindByValue(addr) ==
    IF \E i \in Id : clusters[i] = addr
      THEN CHOOSE i \in Id : clusters[i] = addr
      ELSE 0

-----------------------------------------------------------------------------
\* Mutation (AddrUnique): the sender's previous entry is not erased.
OnIdUpdateKeepOld(from, newId) ==
    /\ clusters' = [clusters EXCEPT ![newId] = from]
    /\ fresh' = fresh \cup {newId}
    /\ UNCHANGED next

\* "ID newId": the sender says under which id it runs.  Its previous entry
\* goes, and so does whatever entry newId had.  There is no reply.
OnIdUpdate(from, newId) ==
    /\ clusters' = [i \in Id |-> IF i = newId THEN from
                                 ELSE IF i = FindByValue(from) THEN NoAddr
                                 ELSE clusters[i]]
    /\ fresh' = fresh \cup {newId}
    /\ UNCHANGED next

\* The id in the "RUN id" reply to "ID 0": the one on record, or a new one.
Granted(from) == IF FindByValue(from) = 0 THEN next ELSE FindByValue(from)

\* Mutation (UniqueIds): the same number is handed out again.
OnIdRequestNoIncrement(from) ==
    /\ Granted(from) <= MaxIssued
    /\ clusters' = [clusters EXCEPT ![Granted(from)] = from]
    /\ next' = next
    /\ fresh' = fresh \cup {Granted(from)}

\* Mutation (TrackerTypeOK): a number is used up although one is on record.
OnIdRequestWasteful(from) ==
    /\ Granted(from) <= MaxIssued
    /\ clusters' = [clusters EXCEPT ![Granted(from)] = from]
    /\ next' = next + 1
    /\ fresh' = fresh \cup {Granted(from)}

\* "ID 0": the sender wants an id.
OnIdRequest(from) ==
    /\ Granted(from) <= MaxIssued
    /\ clusters' = [clusters EXCEPT ![Granted(from)] = from]
    /\ next' = IF FindByValue(from) = 0 THEN next + 1 ELSE next
    /\ fresh' = fresh \cup {Granted(from)}

\* Mutation (OnlyOldForgotten): reserved ids are purged like any other.
OnGetAny(what) ==
    /\ clusters[what] # NoAddr /\ what \notin fresh
    /\ clusters' = [clusters EXCEPT ![what] = NoAddr]
    /\ UNCHANGED <<fresh, next>>

\* "GET what" purges an entry that was not updated for ENV_UPDATE_TIME, unless
\* the id is reserved.  A GET of any other id only looks it up.
OnGet(what) ==
    /\ clusters[what] # NoAddr /\ what \notin fresh
    /\ what > RESERVED_CLUSTER_ID
    /\ clusters' = [clusters EXCEPT ![what] = NoAddr]
    /\ UNCHANGED <<fresh, next>>

Expire(i) ==
    /\ i \in fresh
    /\ fresh' = fresh \ {i}
    /\ UNCHANGED <<clusters, next>>

\* Any socket may send any id: what the tracker does on its own.
TrackerNext ==
    \/ \E from \in Addr, newId \in Id : OnIdUpdate(from, newId)
    \/ \E from \in Addr : OnIdRequest(from)
    \/ \E what \in Id : OnGet(what) \/ Expire(what)

TrackerSpec == TrackerInit /\ [][TrackerNext]_trackerVars

-----------------------------------------------------------------------------
(* The tracker's members have their types.                                 *)
TrackerTypeOK ==
    /\ clusters \in [Id -> Addr \cup {NoAddr}]
    /\ fresh \subseteq Id
    /\ next \in RESERVED_CLUSTER_ID + 1 .. MaxIssued + 1

(* A server has at most one id on record: findByValue, which returns the   *)
(* first match of a hash map's arbitrary order, has one answer, and a      *)
(* client's GET never finds the same server under two ids.                 *)
AddrUnique ==
    \A i, j \in Id : (clusters[i] = clusters[j] /\ clusters[i] # NoAddr) => i = j

\* What a step of the tracker may forget.
ForgetsOnlyOld ==
    \A i \in Id : (clusters[i] # NoAddr /\ clusters'[i] = NoAddr)
        => \/ i \notin Reserved /\ i \notin fresh
           \/ \E j \in Id : clusters'[j] = clusters[i]

(* The tracker forgets an id only when its server is registered under      *)
(* another one in the same step, or when the id is not reserved and was    *)
(* not updated for ENV_UPDATE_TIME ("IO clusters are special ... we should *)
(* not delete them", tracker.cpp:112).                                     *)
OnlyOldForgotten == [][ForgetsOnlyOld]_trackerVars
=============================================================================
