---------------------------- MODULE NodeRegistry ----------------------------
(***************************************************************************)
(* The registry of storage nodes kept by the metadata server: NodeManager  *)
(* (metadata-server/src/node_manager.cpp) with the handlers that call it   *)
(* (REGISTER_NODE, KEEP_ALIVE, UPDATE_SPACE, REQUEST_UPLOAD, LIST_NODES in *)
(* protocol_handler.cpp) and its keep-alive thread.                        *)
(*                                                                         *)
(* Every connection has a thread of its own, a worker.  An action is one   *)
(* scope of nodesMutex, or one sample of the clock taken outside of it, so *)
(* every interleaving of the threads the mutex allows is a behaviour.      *)
(***************************************************************************)
EXTENDS Integers, FiniteSets

CONSTANTS
    Workers,      \* connection threads
    Ids,          \* the ids GenerateNodeId may draw
    Addresses,    \* ip:port of the storage nodes
    Spaces,       \* free space a node may report, in chunks
    Counts,       \* how many nodes REQUEST_UPLOAD may ask for
    MaxNodes,     \* MAX_NODES
    NodeTimeout,  \* NODE_TIMEOUT_SEC
    MaxTime       \* bound of the clock

ASSUME RegistryAssumption ==
    /\ IsFiniteSet(Workers) /\ Workers # {}
    /\ Spaces \subseteq Nat
    /\ Counts \subseteq Nat
    /\ MaxNodes \in Nat \ {0}
    /\ NodeTimeout \in Nat
    /\ MaxTime \in Nat

VARIABLES
    now,      \* steady_clock, in seconds
    nodes,    \* NodeManager::nodes, a function from the registered ids
    worker,   \* what each connection thread is in the middle of
    checker   \* the keep-alive thread

vars == <<now, nodes, worker, checker>>

Node == [addr : Addresses, space : Spaces, lastSeen : Nat, isActive : BOOLEAN]

Idle      == [pc |-> "idle"]
Counted   == [pc : {"counted"}, addr : Addresses, space : Spaces]
Drawn     == [pc : {"drawn"}, addr : Addresses, space : Spaces, id : Ids, since : Nat]
Filtering == [pc : {"filtering"}, need : Nat, count : Nat, at : Nat]
Listing   == [pc : {"listing"}, at : Nat]
Offered   == [pc : {"offered"}, offer : SUBSET Ids]

WorkerState == {Idle} \cup Counted \cup Drawn \cup Filtering \cup Listing \cup Offered

Asleep   == [pc |-> "asleep"]
Sweeping == [pc : {"sweeping"}, at : Nat]

ChunkSpace == 1   \* the CHUNK_SIZE of HandleRequestUpload, as one unit of space

----------------------------------------------------------------------------

Init ==
    /\ now = 0
    /\ nodes = [id \in {} |-> {}]
    /\ worker = [w \in Workers |-> Idle]
    /\ checker = Asleep

Become(w, state) == worker' = [worker EXCEPT ![w] = state]

(* The next four are slips, changes the code could suffer; they serve to   *)
(* test the properties at the end of the module.                           *)
CheckCapacityOffByOne(w, a, s) ==
    /\ worker[w] = Idle
    /\ Cardinality(DOMAIN nodes) <= MaxNodes
    /\ Become(w, [pc |-> "counted", addr |-> a, space |-> s])
    /\ UNCHANGED <<now, nodes, checker>>

LastSeenWithoutFlag(w, id) ==
    /\ worker[w] = Idle
    /\ id \in DOMAIN nodes
    /\ nodes' = [nodes EXCEPT ![id].lastSeen = now]
    /\ UNCHANGED <<now, worker, checker>>

SpaceMinusOneChunk(w, id, s) ==
    /\ worker[w] = Idle
    /\ id \in DOMAIN nodes
    /\ nodes' = [nodes EXCEPT ![id].space = s - ChunkSpace]
    /\ UNCHANGED <<now, worker, checker>>

HealthCheckOnlyLooks ==
    /\ checker.pc = "sweeping"
    /\ checker' = Asleep
    /\ UNCHANGED <<now, nodes, worker>>

(* REGISTER_NODE, first lock scope: the limit is tested, nothing is taken. *)
CheckCapacity(w, a, s) ==
    /\ worker[w] = Idle
    /\ Cardinality(DOMAIN nodes) < MaxNodes
    /\ Become(w, [pc |-> "counted", addr |-> a, space |-> s])
    /\ UNCHANGED <<now, nodes, checker>>

(* Second lock scope: ids are drawn until one is not in the map.  The      *)
(* record is filled in from here on, its lastSeen read from the clock.     *)
DrawId(w, id) ==
    /\ worker[w].pc = "counted"
    /\ id \in Ids \ DOMAIN nodes
    /\ Become(w, [pc |-> "drawn", addr |-> worker[w].addr,
                  space |-> worker[w].space, id |-> id, since |-> now])
    /\ UNCHANGED <<now, nodes, checker>>

(* Third lock scope: nodes[newNodeId] = node, whatever the map holds now.  *)
InsertNode(w, seen) ==
    /\ worker[w].pc = "drawn"
    /\ seen \in worker[w].since .. now
    /\ nodes' = [id \in DOMAIN nodes \cup {worker[w].id} |->
                    IF id = worker[w].id
                    THEN [addr |-> worker[w].addr, space |-> worker[w].space,
                          lastSeen |-> seen, isActive |-> TRUE]
                    ELSE nodes[id]]
    /\ Become(w, Idle)
    /\ UNCHANGED <<now, checker>>

(* KEEP_ALIVE; an unknown id changes nothing and is answered OK as well.   *)
UpdateNodeLastSeen(w, id) ==
    /\ worker[w] = Idle
    /\ id \in DOMAIN nodes
    /\ nodes' = [nodes EXCEPT ![id].lastSeen = now, ![id].isActive = TRUE]
    /\ UNCHANGED <<now, worker, checker>>

(* UPDATE_SPACE; lastSeen is left alone.                                   *)
UpdateNodeSpace(w, id, s) ==
    /\ worker[w] = Idle
    /\ id \in DOMAIN nodes
    /\ nodes' = [nodes EXCEPT ![id].space = s]
    /\ UNCHANGED <<now, worker, checker>>

(* REQUEST_UPLOAD and LIST_NODES sample the clock before they lock.        *)
RequestUpload(w, n) ==
    /\ worker[w] = Idle
    /\ Become(w, [pc |-> "filtering", need |-> ChunkSpace, count |-> n, at |-> now])
    /\ UNCHANGED <<now, nodes, checker>>

ListNodes(w) ==
    /\ worker[w] = Idle
    /\ Become(w, [pc |-> "listing", at |-> now])
    /\ UNCHANGED <<now, nodes, checker>>

Silent(id, at) == at - nodes[id].lastSeen > NodeTimeout

Alive(at) == {id \in DOMAIN nodes : nodes[id].isActive /\ ~Silent(id, at)}

Available(at, need) == {id \in Alive(at) : nodes[id].space >= need}

(* The first n of a sort by free space, largest first, ties in any order.  *)
IsFirst(n, offer, avail) ==
    /\ offer \subseteq avail
    /\ Cardinality(offer) = IF Cardinality(avail) > n THEN n ELSE Cardinality(avail)
    /\ \A in \in offer, out \in avail \ offer : nodes[in].space >= nodes[out].space

GetAvailableNodes(w, offer) ==
    /\ worker[w].pc = "filtering"
    /\ IsFirst(worker[w].count, offer, Available(worker[w].at, worker[w].need))
    /\ Become(w, [pc |-> "offered", offer |-> offer])
    /\ UNCHANGED <<now, nodes, checker>>

GetAllActiveNodes(w) ==
    /\ worker[w].pc = "listing"
    /\ Become(w, [pc |-> "offered", offer |-> Alive(worker[w].at)])
    /\ UNCHANGED <<now, nodes, checker>>

(* The response is written from the copies and the connection is closed.   *)
Respond(w) ==
    /\ worker[w].pc = "offered"
    /\ Become(w, Idle)
    /\ UNCHANGED <<now, nodes, checker>>

(* The keep-alive thread: CheckNodeHealth samples the clock, then locks.   *)
WakeUp ==
    /\ checker = Asleep
    /\ checker' = [pc |-> "sweeping", at |-> now]
    /\ UNCHANGED <<now, nodes, worker>>

CheckNodeHealth ==
    /\ checker.pc = "sweeping"
    /\ nodes' = [id \in DOMAIN nodes |->
                    IF Silent(id, checker.at)
                    THEN [nodes[id] EXCEPT !.isActive = FALSE]
                    ELSE nodes[id]]
    /\ checker' = Asleep
    /\ UNCHANGED <<now, worker>>

Tick ==
    /\ now < MaxTime
    /\ now' = now + 1
    /\ UNCHANGED <<nodes, worker, checker>>

Register(w) ==
    \/ \E a \in Addresses, s \in Spaces : CheckCapacity(w, a, s)
    \/ \E id \in Ids : DrawId(w, id)
    \/ \E seen \in 0 .. now : InsertNode(w, seen)

Refresh(w) ==
    \E id \in Ids :
        \/ UpdateNodeLastSeen(w, id)
        \/ \E s \in Spaces : UpdateNodeSpace(w, id, s)

Choose(w) ==
    \/ \E n \in Counts : RequestUpload(w, n)
    \/ ListNodes(w)
    \/ \E offer \in SUBSET DOMAIN nodes : GetAvailableNodes(w, offer)
    \/ GetAllActiveNodes(w)
    \/ Respond(w)

Next ==
    \/ \E w \in Workers : Register(w) \/ Refresh(w) \/ Choose(w)
    \/ WakeUp
    \/ CheckNodeHealth
    \/ Tick

Spec == Init /\ [][Next]_vars

(* The clock advances and the keep-alive thread is never starved; nothing  *)
(* is assumed of the connections, which depend on their peers.             *)
Fairness == WF_vars(Tick) /\ WF_vars(WakeUp) /\ WF_vars(CheckNodeHealth)

FairSpec == Spec /\ Fairness

----------------------------------------------------------------------------

(* The types of the four variables.                                        *)
TypeOK ==
    /\ now \in Nat
    /\ DOMAIN nodes \subseteq Ids
    /\ nodes \in [DOMAIN nodes -> Node]
    /\ worker \in [Workers -> WorkerState]
    /\ checker \in {Asleep} \cup Sweeping

(* RegisterNode tests MAX_NODES in one lock scope and inserts in another.  *)
(* The registry passes the limit by at most one node per other connection  *)
(* that was between the two.                                               *)
RegistryBounded ==
    Cardinality(DOMAIN nodes) <= MaxNodes - 1 + Cardinality(Workers)

(* A node carries the inactive flag only while it really is silent: the    *)
(* sweep of CheckNodeHealth works from a clock sample taken before the     *)
(* lock, and a KEEP_ALIVE or a registration that slips in between is never *)
(* lost to it.                                                             *)
InactiveMeansSilent ==
    \A id \in DOMAIN nodes : ~nodes[id].isActive => Silent(id, now)

ActiveSince(id, t) ==
    id \in DOMAIN nodes /\ nodes[id].isActive /\ nodes[id].lastSeen = t

(* A node that stops sending KEEP_ALIVE loses its active flag: the keep-   *)
(* alive thread marks every contact time that has run out, unless a newer  *)
(* contact replaced it.                                                    *)
SilentNodeDeactivated ==
    \A id \in Ids, t \in 0 .. MaxTime - NodeTimeout - 1 :
        ActiveSince(id, t) ~> ~ActiveSince(id, t)

(* What the comment at node_manager.cpp:73 says the first lock scope is    *)
(* for: no more than MAX_NODES nodes.                                      *)
NodeLimit == Cardinality(DOMAIN nodes) <= MaxNodes

(* What the comment at node_manager.cpp:84 says the second lock scope is   *)
(* for: the id a registration is about to insert is nobody else's.         *)
DrawnIdIsUnused ==
    \A w \in Workers : worker[w].pc = "drawn" => worker[w].id \notin DOMAIN nodes
=============================================================================
