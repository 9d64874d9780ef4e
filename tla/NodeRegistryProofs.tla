------------------------- MODULE NodeRegistryProofs -------------------------
(***************************************************************************)
(* Proofs about NodeRegistry, for every number of connections, every limit *)
(* and every timeout.                                                      *)
(***************************************************************************)
EXTENDS NodeRegistry, FiniteSetTheorems, TLAPS

(* The registrations between the test of MAX_NODES and the insertion.      *)
InFlight == {w \in Workers : worker[w].pc \in {"counted", "drawn"}}

(* Clock samples are taken before they are used.                           *)
SamplesArePast == checker.pc = "sweeping" => checker.at <= now

(* What RegistryBounded needs to be inductive: a registration past the     *)
(* test already counts.                                                    *)
SlotsBounded ==
    /\ IsFiniteSet(DOMAIN nodes)
    /\ Cardinality(DOMAIN nodes) + Cardinality(InFlight)
            <= MaxNodes - 1 + Cardinality(Workers)

USE RegistryAssumption

----------------------------------------------------------------------------

(* The initial state is well typed.                                        *)
LEMMA InitTypeOK == Init => TypeOK
  BY DEF Init, TypeOK, Asleep, Idle, WorkerState

(* Moving one connection to a well-typed state keeps them all well typed.  *)
LEMMA BecomeType ==
    ASSUME TypeOK, NEW w \in Workers, NEW state \in WorkerState, Become(w, state)
    PROVE  worker' \in [Workers -> WorkerState]
  BY DEF TypeOK, Become

(* Every step keeps the types.                                             *)
LEMMA NextTypeOK == TypeOK /\ [Next]_vars => TypeOK'
<1> SUFFICES ASSUME TypeOK, [Next]_vars PROVE TypeOK'
  OBVIOUS
<1>1. ASSUME NEW w \in Workers, NEW a \in Addresses, NEW s \in Spaces,
             CheckCapacity(w, a, s)
      PROVE  TypeOK'
  <2>1. [pc |-> "counted", addr |-> a, space |-> s] \in WorkerState
    BY DEF WorkerState, Counted
  <2> QED
    BY <1>1, <2>1, BecomeType DEF CheckCapacity, TypeOK
<1>2. ASSUME NEW w \in Workers, NEW id \in Ids, DrawId(w, id)
      PROVE  TypeOK'
  <2>1. worker[w] \in Counted
    BY <1>2 DEF DrawId, TypeOK, WorkerState, Idle, Drawn, Filtering, Listing, Offered
  <2>2. [pc |-> "drawn", addr |-> worker[w].addr,
         space |-> worker[w].space, id |-> id, since |-> now] \in WorkerState
    BY <2>1 DEF WorkerState, Counted, Drawn, TypeOK
  <2> QED
    BY <1>2, <2>2, BecomeType DEF DrawId, TypeOK
<1>3. ASSUME NEW w \in Workers, NEW seen \in 0 .. now, InsertNode(w, seen)
      PROVE  TypeOK'
  <2>1. worker[w] \in Drawn
    BY <1>3 DEF InsertNode, TypeOK, WorkerState, Idle, Counted, Filtering, Listing, Offered
  <2>2. [addr |-> worker[w].addr, space |-> worker[w].space,
         lastSeen |-> seen, isActive |-> TRUE] \in Node
    BY <2>1 DEF Drawn, Node, TypeOK
  <2>3. /\ DOMAIN nodes' \subseteq Ids
        /\ nodes' \in [DOMAIN nodes' -> Node]
    BY <1>3, <2>1, <2>2 DEF InsertNode, TypeOK, Drawn
  <2>4. Idle \in WorkerState
    BY DEF WorkerState
  <2> QED
    BY <1>3, <2>3, <2>4, BecomeType DEF InsertNode, TypeOK
<1>4. ASSUME NEW w \in Workers, NEW id \in Ids, UpdateNodeLastSeen(w, id)
      PROVE  TypeOK'
  BY <1>4 DEF UpdateNodeLastSeen, TypeOK, Node
<1>5. ASSUME NEW w \in Workers, NEW id \in Ids, NEW s \in Spaces,
             UpdateNodeSpace(w, id, s)
      PROVE  TypeOK'
  BY <1>5 DEF UpdateNodeSpace, TypeOK, Node
<1>6. ASSUME NEW w \in Workers, Choose(w)
      PROVE  TypeOK'
  <2>1. ASSUME NEW n \in Counts, RequestUpload(w, n)
        PROVE  worker' \in [Workers -> WorkerState]
    <3>1. [pc |-> "filtering", need |-> ChunkSpace, count |-> n, at |-> now] \in WorkerState
      BY DEF WorkerState, Filtering, ChunkSpace, TypeOK
    <3> QED
      BY <2>1, <3>1, BecomeType DEF RequestUpload
  <2>2. ASSUME ListNodes(w)
        PROVE  worker' \in [Workers -> WorkerState]
    <3>1. [pc |-> "listing", at |-> now] \in WorkerState
      BY DEF WorkerState, Listing, TypeOK
    <3> QED
      BY <2>2, <3>1, BecomeType DEF ListNodes
  <2>3. ASSUME NEW offer \in SUBSET DOMAIN nodes, GetAvailableNodes(w, offer)
        PROVE  worker' \in [Workers -> WorkerState]
    <3>1. [pc |-> "offered", offer |-> offer] \in WorkerState
      BY DEF WorkerState, Offered, TypeOK
    <3> QED
      BY <2>3, <3>1, BecomeType DEF GetAvailableNodes
  <2>4. ASSUME GetAllActiveNodes(w)
        PROVE  worker' \in [Workers -> WorkerState]
    <3>1. [pc |-> "offered", offer |-> Alive(worker[w].at)] \in WorkerState
      BY DEF WorkerState, Offered, TypeOK, Alive
    <3> QED
      BY <2>4, <3>1, BecomeType DEF GetAllActiveNodes
  <2>5. ASSUME Respond(w)
        PROVE  worker' \in [Workers -> WorkerState]
    <3>1. Idle \in WorkerState
      BY DEF WorkerState
    <3> QED
      BY <2>5, <3>1, BecomeType DEF Respond
  <2>6. UNCHANGED <<now, nodes, checker>>
    BY <1>6 DEF Choose, RequestUpload, ListNodes, GetAvailableNodes, GetAllActiveNodes, Respond
  <2>7. worker' \in [Workers -> WorkerState]
    BY <1>6, <2>1, <2>2, <2>3, <2>4, <2>5 DEF Choose
  <2> QED
    BY <2>6, <2>7 DEF TypeOK
<1>7. CASE WakeUp
  BY <1>7 DEF WakeUp, TypeOK, Sweeping
<1>8. CASE CheckNodeHealth
  BY <1>8 DEF CheckNodeHealth, TypeOK, Node
<1>9. CASE Tick
  BY <1>9 DEF Tick, TypeOK
<1>10. CASE UNCHANGED vars
  BY <1>10 DEF vars, TypeOK
<1> QED
  BY <1>1, <1>2, <1>3, <1>4, <1>5, <1>6, <1>7, <1>8, <1>9, <1>10
  DEF Next, Register, Refresh

(* Type correctness, for every value of the constants.                     *)
THEOREM TypeCorrect == Spec => []TypeOK
<1>1. Init => TypeOK
  BY InitTypeOK
<1>2. TypeOK /\ [Next]_vars => TypeOK'
  BY NextTypeOK
<1> QED
  BY <1>1, <1>2, PTL DEF Spec

----------------------------------------------------------------------------

(* A sweep's clock sample is never ahead of the clock.                     *)
LEMMA NextSamplesArePast == TypeOK /\ SamplesArePast /\ [Next]_vars => SamplesArePast'
<1> SUFFICES ASSUME TypeOK, SamplesArePast, [Next]_vars PROVE SamplesArePast'
  OBVIOUS
<1>1. CASE WakeUp
  BY <1>1 DEF WakeUp, SamplesArePast, TypeOK
<1>2. CASE CheckNodeHealth
  BY <1>2 DEF CheckNodeHealth, SamplesArePast, Asleep
<1>3. CASE Tick
  BY <1>3 DEF Tick, SamplesArePast, TypeOK, Asleep, Sweeping
<1>4. ASSUME NEW w \in Workers, Register(w) \/ Refresh(w) \/ Choose(w)
      PROVE  UNCHANGED <<now, checker>>
  BY <1>4 DEF Register, Refresh, Choose, CheckCapacity, DrawId, InsertNode,
              UpdateNodeLastSeen, UpdateNodeSpace, RequestUpload, ListNodes,
              GetAvailableNodes, GetAllActiveNodes, Respond
<1> QED
  BY <1>1, <1>2, <1>3, <1>4 DEF Next, vars, SamplesArePast

(* One step cannot leave an active node flagged inactive.                  *)
LEMMA NextInactiveMeansSilent ==
    TypeOK /\ SamplesArePast /\ InactiveMeansSilent /\ [Next]_vars => InactiveMeansSilent'
<1> SUFFICES ASSUME TypeOK, SamplesArePast, InactiveMeansSilent, [Next]_vars
             PROVE  InactiveMeansSilent'
  OBVIOUS
<1>1. ASSUME NEW w \in Workers, NEW seen \in 0 .. now, InsertNode(w, seen)
      PROVE  InactiveMeansSilent'
  BY <1>1 DEF InsertNode, InactiveMeansSilent, Silent
<1>2. ASSUME NEW w \in Workers, NEW id \in Ids, UpdateNodeLastSeen(w, id)
      PROVE  InactiveMeansSilent'
  BY <1>2 DEF UpdateNodeLastSeen, InactiveMeansSilent, Silent, TypeOK, Node
<1>3. ASSUME NEW w \in Workers, NEW id \in Ids, NEW s \in Spaces,
             UpdateNodeSpace(w, id, s)
      PROVE  InactiveMeansSilent'
  BY <1>3 DEF UpdateNodeSpace, InactiveMeansSilent, Silent, TypeOK, Node
<1>4. CASE CheckNodeHealth
  <2>1. checker \in Sweeping /\ checker.at <= now
    BY <1>4 DEF CheckNodeHealth, TypeOK, Asleep, SamplesArePast, Sweeping
  <2> SUFFICES ASSUME NEW id \in DOMAIN nodes, ~nodes'[id].isActive
               PROVE  now - nodes'[id].lastSeen > NodeTimeout
    BY <1>4 DEF CheckNodeHealth, InactiveMeansSilent, Silent
  <2>2. nodes[id] \in Node /\ nodes'[id].lastSeen = nodes[id].lastSeen
    BY <1>4 DEF CheckNodeHealth, TypeOK, Node
  <2>3. CASE Silent(id, checker.at)
    BY <2>1, <2>2, <2>3 DEF Silent, Node, Sweeping, TypeOK
  <2>4. CASE ~Silent(id, checker.at)
    BY <1>4, <2>2, <2>4 DEF CheckNodeHealth, InactiveMeansSilent, Silent
  <2> QED
    BY <2>3, <2>4
<1>5. CASE Tick
  BY <1>5 DEF Tick, InactiveMeansSilent, Silent, TypeOK, Node
<1>6. CASE UNCHANGED <<now, nodes>>
  BY <1>6 DEF InactiveMeansSilent, Silent
<1>7. CASE WakeUp
  BY <1>6, <1>7 DEF WakeUp
<1>8. ASSUME NEW w \in Workers, Choose(w) PROVE InactiveMeansSilent'
  BY <1>6, <1>8 DEF Choose, RequestUpload, ListNodes, GetAvailableNodes,
                    GetAllActiveNodes, Respond
<1>9. ASSUME NEW w \in Workers, NEW a \in Addresses, NEW s \in Spaces,
             CheckCapacity(w, a, s)
      PROVE  InactiveMeansSilent'
  BY <1>6, <1>9 DEF CheckCapacity
<1>10. ASSUME NEW w \in Workers, NEW id \in Ids, DrawId(w, id)
       PROVE  InactiveMeansSilent'
  BY <1>6, <1>10 DEF DrawId
<1> QED
  BY <1>1, <1>2, <1>3, <1>4, <1>5, <1>6, <1>7, <1>8, <1>9, <1>10
  DEF Next, Register, Refresh, vars

(* The inactive flag is never wrong: a contact that races the sweep of the *)
(* keep-alive thread is never lost.                                        *)
THEOREM NoContactLost == Spec => []InactiveMeansSilent
<1>1. Init => SamplesArePast /\ InactiveMeansSilent
  BY DEF Init, SamplesArePast, InactiveMeansSilent, Asleep
<1>2. TypeOK /\ SamplesArePast /\ [Next]_vars => SamplesArePast'
  BY NextSamplesArePast
<1>3. TypeOK /\ SamplesArePast /\ InactiveMeansSilent /\ [Next]_vars => InactiveMeansSilent'
  BY NextInactiveMeansSilent
<1> QED
  BY <1>1, <1>2, <1>3, TypeCorrect, PTL DEF Spec
----------------------------------------------------------------------------

(* A set of connections is finite and not larger than all of them.         *)
LEMMA ConnectionsFinite ==
    ASSUME NEW S \in SUBSET Workers
    PROVE  IsFiniteSet(S) /\ Cardinality(S) \in Nat /\ Cardinality(S) <= Cardinality(Workers)
  BY FS_Subset, FS_CardinalityType

(* At the start no node and no registration takes a slot.                  *)
LEMMA InitSlotsBounded == Init => SlotsBounded
<1> SUFFICES ASSUME Init PROVE SlotsBounded
  OBVIOUS
<1>1. DOMAIN nodes = {} /\ InFlight = {}
  BY DEF Init, InFlight, Idle
<1>2. Cardinality(Workers) \in Nat
  BY ConnectionsFinite
<1> QED
  BY <1>1, <1>2, FS_EmptySet DEF SlotsBounded

(* A step of one connection to a state outside of a registration does not  *)
(* take a slot.                                                            *)
LEMMA NoNewFlight ==
    ASSUME TypeOK, NEW w \in Workers, NEW state, Become(w, state),
           state.pc \notin {"counted", "drawn"}
    PROVE  InFlight' = InFlight \ {w}
  BY DEF Become, InFlight, TypeOK

(* Every step keeps the registry and the registrations in flight below the *)
(* limit plus one slot per other connection.                               *)
LEMMA NextSlotsBounded == TypeOK /\ SlotsBounded /\ [Next]_vars => SlotsBounded'
<1> SUFFICES ASSUME TypeOK, SlotsBounded, [Next]_vars PROVE SlotsBounded'
  OBVIOUS
<1> DEFINE Used == Cardinality(DOMAIN nodes)
<1>a. /\ IsFiniteSet(DOMAIN nodes) /\ Used \in Nat
      /\ IsFiniteSet(InFlight) /\ Cardinality(InFlight) \in Nat
      /\ Cardinality(Workers) \in Nat
      /\ Used + Cardinality(InFlight) <= MaxNodes - 1 + Cardinality(Workers)
  BY ConnectionsFinite, FS_CardinalityType DEF SlotsBounded, InFlight
<1>1. ASSUME NEW w \in Workers, NEW a \in Addresses, NEW s \in Spaces,
             CheckCapacity(w, a, s)
      PROVE  SlotsBounded'
  <2>1. Used <= MaxNodes - 1
    BY <1>1, <1>a DEF CheckCapacity
  <2>2. InFlight' \in SUBSET Workers
    BY DEF InFlight
  <2>3. Cardinality(InFlight') \in Nat /\ Cardinality(InFlight') <= Cardinality(Workers)
    BY <2>2, ConnectionsFinite
  <2>4. nodes' = nodes
    BY <1>1 DEF CheckCapacity
  <2> QED
    BY <1>a, <2>1, <2>3, <2>4 DEF SlotsBounded
<1>2. ASSUME NEW w \in Workers, NEW id \in Ids, DrawId(w, id)
      PROVE  SlotsBounded'
  <2>1. InFlight' = InFlight /\ nodes' = nodes
    BY <1>2 DEF DrawId, Become, InFlight, TypeOK
  <2> QED
    BY <2>1 DEF SlotsBounded
<1>3. ASSUME NEW w \in Workers, NEW seen \in 0 .. now, InsertNode(w, seen)
      PROVE  SlotsBounded'
  <2>1. DOMAIN nodes' = DOMAIN nodes \cup {worker[w].id}
    BY <1>3 DEF InsertNode
  <2>2. IsFiniteSet(DOMAIN nodes') /\ Cardinality(DOMAIN nodes') <= Used + 1
        /\ Cardinality(DOMAIN nodes') \in Nat
    <3>1. /\ IsFiniteSet(DOMAIN nodes')
          /\ Cardinality(DOMAIN nodes') =
                IF worker[w].id \in DOMAIN nodes THEN Used ELSE Used + 1
      BY <1>a, <2>1, FS_AddElement
    <3> QED
      BY <1>a, <3>1
  <2>3. w \in InFlight
    BY <1>3 DEF InsertNode, InFlight
  <2>4. InFlight' = InFlight \ {w}
    BY <1>3, NoNewFlight DEF InsertNode, Idle
  <2>5. Cardinality(InFlight') = Cardinality(InFlight) - 1
    BY <1>a, <2>3, <2>4, FS_RemoveElement
  <2> QED
    BY <1>a, <2>2, <2>5 DEF SlotsBounded
<1>4. CASE DOMAIN nodes' = DOMAIN nodes /\ worker' = worker
  BY <1>4 DEF SlotsBounded, InFlight
<1>5. ASSUME NEW w \in Workers, Refresh(w) PROVE SlotsBounded'
  BY <1>4, <1>5 DEF Refresh, UpdateNodeLastSeen, UpdateNodeSpace, TypeOK
<1>6. ASSUME NEW w \in Workers, Choose(w) PROVE SlotsBounded'
  <2>1. nodes' = nodes
    BY <1>6 DEF Choose, RequestUpload, ListNodes, GetAvailableNodes, GetAllActiveNodes, Respond
  <2>2. InFlight' = InFlight \ {w}
    BY <1>6, NoNewFlight DEF Choose, RequestUpload, ListNodes, GetAvailableNodes,
                             GetAllActiveNodes, Respond, Idle
  <2>3. Cardinality(InFlight') \in Nat /\ Cardinality(InFlight') <= Cardinality(InFlight)
    <3>1. InFlight' \in SUBSET InFlight
      BY <2>2
    <3>2. IsFiniteSet(InFlight') /\ Cardinality(InFlight') <= Cardinality(InFlight)
      BY <1>a, <3>1, FS_Subset
    <3> QED
      BY <3>2, FS_CardinalityType
  <2> QED
    BY <1>a, <2>1, <2>3 DEF SlotsBounded
<1>7. CASE WakeUp \/ CheckNodeHealth \/ Tick \/ UNCHANGED vars
  BY <1>4, <1>7 DEF WakeUp, CheckNodeHealth, Tick, vars
<1> QED
  BY <1>1, <1>2, <1>3, <1>5, <1>6, <1>7 DEF Next, Register

(* The overshoot of MAX_NODES is bounded by the number of connections,     *)
(* whatever the limit is and however the registrations interleave.         *)
THEOREM OvershootBounded == Spec => []RegistryBounded
<1>1. Init => SlotsBounded
  BY InitSlotsBounded
<1>2. TypeOK /\ SlotsBounded /\ [Next]_vars => SlotsBounded'
  BY NextSlotsBounded
<1>3. TypeOK /\ SlotsBounded => RegistryBounded
  <2> SUFFICES ASSUME TypeOK, SlotsBounded PROVE RegistryBounded
    OBVIOUS
  <2>1. Cardinality(InFlight) \in Nat /\ Cardinality(Workers) \in Nat
    BY ConnectionsFinite DEF InFlight
  <2>2. Cardinality(DOMAIN nodes) \in Nat
    BY FS_CardinalityType DEF SlotsBounded
  <2> QED
    BY <2>1, <2>2 DEF SlotsBounded, RegistryBounded
<1> QED
  BY <1>1, <1>2, <1>3, TypeCorrect, PTL DEF Spec
=============================================================================
