------------------------------- MODULE VectorMap -------------------------------
(***************************************************************************)
(* What an index promises its clients while the process lives: a map from  *)
(* string ids to vectors.  One request at a time writes or removes objects;*)
(* each of its writes takes effect at some moment between the request and  *)
(* its answer, and a request answered with success has had its effect in   *)
(* full.  Nothing else ever changes the map.                               *)
(***************************************************************************)
CONSTANTS
  Keys,         \* string ids
  Values,       \* vectors
  Absent        \* the value of a key that is not there, not in Values

VARIABLES
  store,        \* the map
  request       \* what the request in progress writes, of the keys it is about

mapVars == <<store, request>>

Writes == UNION {[K -> Values \cup {Absent}] : K \in SUBSET Keys}

NoRequest == [k \in {} |-> Absent]

MapInit ==
  /\ store = [k \in Keys |-> Absent]
  /\ request = NoRequest

Request(w) ==
  /\ request = NoRequest
  /\ request' = w
  /\ UNCHANGED store

TakeEffect(K) ==
  /\ K \subseteq DOMAIN request
  /\ store' = [k \in Keys |-> IF k \in K THEN request[k] ELSE store[k]]
  /\ UNCHANGED request

Respond ==
  /\ \A k \in DOMAIN request : store[k] = request[k]
  /\ request' = NoRequest
  /\ UNCHANGED store

MapNext ==
  \/ \E w \in Writes : Request(w)
  \/ \E K \in SUBSET DOMAIN request : TakeEffect(K)
  \/ Respond

MapSpec == MapInit /\ [][MapNext]_mapVars
===============================================================================
