---------------------------- MODULE UploadProofs ----------------------------
(***************************************************************************)
(* Proofs about Upload, for any number of uploads, machines and chunks and *)
(* any replication factor.                                                 *)
(***************************************************************************)
EXTENDS Upload, FiniteSetTheorems, TLAPS

USE UploadAssumption

(* An upload that has nodes to place its chunks on: a list long enough for *)
(* the replicas, of different nodes that exist, known as long as the       *)
(* server that offered them runs; and no more chunks placed than there are.*)
OfferSound(x) ==
    /\ Len(x.offer) >= ReplicationFactor
    /\ \A i, j \in 1 .. Len(x.offer) : i # j => x.offer[i] # x.offer[j]
    /\ \A i \in 1 .. Len(x.offer) : x.offer[i] \in DOMAIN owner
    /\ x.epoch <= epoch
    /\ x.epoch = epoch => \A i \in 1 .. Len(x.offer) : x.offer[i] \in known
    /\ Len(x.placed) <= Len(x.content)

(* An upload that has sent UPLOAD_COMPLETE.                                *)
Announced(x) == x \in Active /\ x.pc # "placing"

Complete(x) == Announced(x) /\ Len(x.placed) = Len(x.content)

ProgressSound ==
    /\ \A u \in Uploads : upload[u] \in Active => OfferSound(upload[u])
    /\ \A u \in inbox : Complete(upload[u])

----------------------------------------------------------------------------

(* Division with remainder.                                                *)
LEMMA Division ==
    ASSUME NEW k \in Nat, NEW n \in Nat, n >= 1
    PROVE  k = (n * (k \div n)) + (k % n) /\ k \div n \in Int /\ k % n \in 0 .. n - 1
  BY SMTT(20)

(* No multiple of n lies strictly between 0 and n.                         *)
LEMMA NoMultipleBelow ==
    ASSUME NEW m \in Int, NEW n \in Nat, n >= 1, NEW d \in Nat, d > 0, d < n, d = n * m
    PROVE  FALSE
  BY SMTT(20)

LEMMA Distribute ==
    ASSUME NEW p \in Int, NEW q \in Int, NEW n \in Nat
    PROVE  (n * p) - (n * q) = n * (p - q)
  BY SMTT(20)

(* Two numbers less than n apart have different remainders.                *)
LEMMA RemaindersDiffer ==
    ASSUME NEW j \in Nat, NEW k \in Nat, NEW n \in Nat, n >= 1, j < k, k - j < n
    PROVE  j % n # k % n
<1> SUFFICES ASSUME j % n = k % n PROVE FALSE
  OBVIOUS
<1> DEFINE p == k \div n
<1> DEFINE q == j \div n
<1> DEFINE r == j % n
<1> DEFINE np == n * p
<1> DEFINE nq == n * q
<1>1. j = nq + r /\ q \in Int /\ r \in Int
  BY Division
<1>2. k = np + r /\ p \in Int
  BY Division
<1>3. np \in Int /\ nq \in Int
  BY <1>1, <1>2
<1> HIDE DEF p, q, r
<1>4. k - j = np - nq
  <2> HIDE DEF np, nq
  <2> QED
    BY <1>1, <1>2, <1>3
<1>5. k - j = n * (p - q)
  BY <1>1, <1>2, <1>4, Distribute
<1> QED
  BY <1>1, <1>2, <1>5, NoMultipleBelow

(* The round robin of SelectNodesForChunk takes every replica from the     *)
(* offer, and two replicas of a chunk from different places of it.         *)
LEMMA SelectionDistinct ==
    ASSUME NEW offer \in Seq(Ids), Len(offer) >= ReplicationFactor, NEW i \in Nat \ {0}
    PROVE  LET selected == SelectNodesForChunk(offer, i)
           IN  /\ \A r \in Replicas : \E k \in 1 .. Len(offer) : selected[r] = offer[k]
               /\ (\A j, k \in 1 .. Len(offer) : j # k => offer[j] # offer[k])
                     => \A r, s \in Replicas : r # s => selected[r] # selected[s]
<1> DEFINE n == Len(offer)
<1> DEFINE base == (i - 1) * ReplicationFactor
<1> DEFINE At(r) == ((base + (r - 1)) % n) + 1
<1>1. n \in Nat /\ n >= 1 /\ base \in Nat
  OBVIOUS
<1>2. ASSUME NEW r \in Replicas
      PROVE  SelectNodesForChunk(offer, i)[r] = offer[At(r)]
  BY DEF SelectNodesForChunk
<1> HIDE DEF base, n
<1>3. ASSUME NEW r \in Replicas
      PROVE  At(r) \in 1 .. n
  <2> DEFINE a == base + (r - 1)
  <2>1. a \in Nat
    BY <1>1 DEF Replicas
  <2> HIDE DEF a
  <2>2. a % n \in 0 .. n - 1
    BY <1>1, <2>1, Division
  <2>3. (a % n) + 1 \in 1 .. n
    BY <1>1, <2>2
  <2> QED
    BY <2>3 DEF a
<1>4. ASSUME NEW r \in Replicas, NEW s \in Replicas, r < s
      PROVE  At(r) # At(s)
  <2> DEFINE a == base + (r - 1)
  <2> DEFINE b == base + (s - 1)
  <2>1. a \in Nat /\ b \in Nat /\ a < b /\ b - a < n
    BY <1>1, <1>4 DEF Replicas, n
  <2> HIDE DEF a, b
  <2>2. a % n # b % n
    BY <1>1, <2>1, RemaindersDiffer
  <2>3. a % n \in Int /\ b % n \in Int
    BY <1>1, <2>1, Division
  <2>4. (a % n) + 1 # (b % n) + 1
    BY <2>2, <2>3
  <2> QED
    BY <2>4 DEF a, b
<1>5. ASSUME NEW r \in Replicas, NEW s \in Replicas, r # s
      PROVE  At(r) # At(s)
  <2>1. CASE r < s
    BY <1>4, <2>1
  <2>2. CASE s < r
    BY <1>4, <2>2
  <2> QED
    BY <1>5, <2>1, <2>2 DEF Replicas
<1> HIDE DEF At
<1> QED
  BY <1>2, <1>3, <1>5 DEF n

----------------------------------------------------------------------------

Inv == TypeOK /\ ProgressSound

(* An upload past its request and not refused has a full record.           *)
LEMMA ActiveByPc ==
    ASSUME TypeOK, NEW u \in Uploads,
           upload[u].pc \in {"placing", "notifying", "done", "failed"}
    PROVE  /\ upload[u] \in Active
           /\ upload[u].name \in Names
           /\ upload[u].content \in Contents /\ upload[u].content \in Seq(Chunks)
           /\ upload[u].offer \in Seq(Ids)
           /\ upload[u].placed \in Seq(NodeList)
           /\ upload[u].tried \in 0 .. ReplicationFactor
           /\ upload[u].acked \subseteq Replicas
  BY DEF TypeOK, New, Stopped, Active

(* The nodes chosen for the current chunk: different and existing, and     *)
(* known as long as the server that offered them runs.                     *)
LEMMA SelectedSound ==
    ASSUME Inv, NEW u \in Uploads, Placing(u)
    PROVE  /\ Current(u) \in 1 .. Len(upload[u].content)
           /\ upload[u].content[Current(u)] \in Chunks
           /\ Selected(u) \in [Replicas -> Ids]
           /\ \A r \in Replicas : Selected(u)[r] \in DOMAIN owner
           /\ \A r, s \in Replicas : r # s => Selected(u)[r] # Selected(u)[s]
           /\ upload[u].epoch = epoch => \A r \in Replicas : Selected(u)[r] \in known
<1> DEFINE offer == upload[u].offer
<1>1. /\ upload[u] \in Active
      /\ offer \in Seq(Ids)
      /\ upload[u].content \in Seq(Chunks)
      /\ upload[u].placed \in Seq(NodeList)
  BY ActiveByPc DEF Inv, Placing
<1>2. OfferSound(upload[u])
  BY <1>1 DEF Inv, ProgressSound
<1>3. Current(u) \in Nat \ {0} /\ Current(u) \in 1 .. Len(upload[u].content)
  BY <1>1 DEF Placing, Current
<1>4. Len(offer) >= ReplicationFactor
  BY <1>2 DEF OfferSound
<1>5. /\ \A r \in Replicas : \E k \in 1 .. Len(offer) : Selected(u)[r] = offer[k]
      /\ \A r, s \in Replicas : r # s => Selected(u)[r] # Selected(u)[s]
  <2>1. \A j, k \in 1 .. Len(offer) : j # k => offer[j] # offer[k]
    BY <1>2 DEF OfferSound
  <2> QED
    BY <1>1, <1>3, <1>4, <2>1, SelectionDistinct DEF Selected
<1>6. Selected(u) \in [Replicas -> Ids]
  <2>1. \A r \in Replicas : Selected(u)[r] \in Ids
    BY <1>1, <1>5
  <2> QED
    BY <2>1 DEF Selected, SelectNodesForChunk
<1>7. upload[u].content[Current(u)] \in Chunks
  BY <1>1, <1>3
<1>8. \A r \in Replicas : Selected(u)[r] \in DOMAIN owner
  <2>1. \A k \in 1 .. Len(offer) : offer[k] \in DOMAIN owner
    BY <1>2 DEF OfferSound
  <2> QED
    BY <1>5, <2>1
<1>9. upload[u].epoch = epoch => \A r \in Replicas : Selected(u)[r] \in known
  <2> SUFFICES ASSUME upload[u].epoch = epoch
               PROVE  \A r \in Replicas : Selected(u)[r] \in known
    OBVIOUS
  <2>1. \A k \in 1 .. Len(offer) : offer[k] \in known
    BY <1>2 DEF OfferSound
  <2> QED
    BY <1>5, <2>1
<1> QED
  BY <1>3, <1>5, <1>6, <1>7, <1>8, <1>9

(* What the answer to REQUEST_UPLOAD gives an upload.                      *)
LEMMA OfferFromKnown ==
    ASSUME TypeOK, NEW content \in Contents, NEW offer \in Offers(content)
    PROVE  /\ offer \in Seq(Ids)
           /\ Len(offer) >= ReplicationFactor
           /\ \A i, j \in 1 .. Len(offer) : i # j => offer[i] # offer[j]
           /\ \A i \in 1 .. Len(offer) : offer[i] \in known
<1>1. PICK n \in ReplicationFactor .. ReplicationFactor * Len(content) :
          /\ offer \in [1 .. n -> known]
          /\ \A i, j \in 1 .. n : i # j => offer[i] # offer[j]
  BY DEF Offers
<1>2. n \in Nat /\ n >= ReplicationFactor
  OBVIOUS
<1>3. offer \in Seq(known) /\ Len(offer) = n
  BY <1>1, <1>2
<1> QED
  BY <1>1, <1>2, <1>3 DEF TypeOK

(* The entry of the catalogue an upload with all chunks placed asks for.   *)
LEMMA FileOfTyped ==
    ASSUME TypeOK, NEW u \in Uploads, Complete(upload[u])
    PROVE  FileOf(u) \in File
<1>1. /\ upload[u].content \in Seq(Chunks)
      /\ upload[u].placed \in Seq(NodeList)
      /\ Len(upload[u].placed) = Len(upload[u].content)
      /\ upload[u].epoch \in Nat
  BY DEF Complete, Announced, Active
<1>2. \A i \in 1 .. Len(upload[u].content) :
          [hash |-> upload[u].content[i], nodes |-> upload[u].placed[i]] \in Entry
  BY <1>1 DEF Entry
<1>3. FileOf(u).chunks \in Seq(Entry)
  BY <1>1, <1>2 DEF FileOf
<1> QED
  BY <1>1, <1>3 DEF FileOf, File

(* What the nodes have.                                                    *)
StorageTyped ==
    /\ disk \in [Hosts -> SUBSET Chunks]
    /\ torn \subseteq Hosts \X Chunks
    /\ requests \subseteq Request

(* A step of one upload, which takes it to x.                              *)
LEMMA OneUpload ==
    ASSUME Inv, NEW u \in Uploads, NEW x \in {New, Stopped} \cup Active,
           upload' = [upload EXCEPT ![u] = x],
           UNCHANGED <<owner, known, catalog, answered, epoch>>, StorageTyped',
           inbox' \subseteq inbox \cup {u},
           u \in inbox' => Complete(x),
           x \in Active => OfferSound(x)
    PROVE  Inv'
<1>1. upload' \in [Uploads -> {New, Stopped} \cup Active]
  BY DEF Inv, TypeOK
<1>2. TypeOK'
  BY <1>1 DEF Inv, TypeOK, StorageTyped
<1>3. ASSUME NEW v \in Uploads, upload'[v] \in Active
      PROVE  OfferSound(upload[v])'
  <2>1. CASE v = u
    <3>1. upload'[v] = x
      BY <2>1 DEF Inv, TypeOK
    <3> QED
      BY <3>1, <1>3 DEF OfferSound
  <2>2. CASE v # u
    <3>1. upload'[v] = upload[v]
      BY <2>2 DEF Inv, TypeOK
    <3> QED
      BY <3>1, <1>3 DEF OfferSound, Inv, ProgressSound
  <2> QED
    BY <2>1, <2>2
<1>4. ASSUME NEW v \in inbox'
      PROVE  Complete(upload[v])'
  <2>1. CASE v = u
    <3>1. upload'[v] = x
      BY <2>1 DEF Inv, TypeOK
    <3> QED
      BY <3>1, <1>4, <2>1 DEF Complete, Announced, Active, NodeList, Replicas
  <2>2. CASE v # u
    <3>1. v \in inbox /\ upload'[v] = upload[v]
      BY <2>2, <1>4 DEF Inv, TypeOK
    <3> QED
      BY <3>1 DEF Complete, Announced, Inv, ProgressSound, Active, NodeList, Replicas
  <2> QED
    BY <2>1, <2>2
<1> QED
  BY <1>2, <1>3, <1>4 DEF Inv, ProgressSound

(* A step of the server that leaves the uploads alone: ids are only added, *)
(* or the server starts anew.                                              *)
LEMMA UploadsAlone ==
    ASSUME Inv, TypeOK', UNCHANGED upload,
           inbox' \subseteq inbox,
           DOMAIN owner \subseteq DOMAIN owner',
           \/ epoch' = epoch /\ known \subseteq known'
           \/ epoch' = epoch + 1
    PROVE  Inv'
<1>1. ASSUME NEW u \in Uploads, upload[u] \in Active
      PROVE  OfferSound(upload[u])'
  <2>1. OfferSound(upload[u]) /\ upload[u].epoch \in Nat /\ epoch \in Nat
    BY <1>1 DEF Inv, ProgressSound, TypeOK, Active
  <2> QED
    BY <2>1 DEF OfferSound
<1>2. \A u \in inbox : Complete(upload[u])'
  BY DEF Inv, ProgressSound, Complete, Announced, Active, NodeList, Replicas
<1> QED
  BY <1>1, <1>2 DEF Inv, ProgressSound, Active, NodeList, Replicas

LEMMA StorageAlone ==
    ASSUME Inv, UNCHANGED storage
    PROVE  StorageTyped'
  BY DEF Inv, TypeOK, StorageTyped, storage, Request, Replicas

LEMMA StepOfUpload ==
    ASSUME Inv, NEW u \in Uploads, UploadFile(u)
    PROVE  Inv'
<1>1. ASSUME NEW name \in Names, NEW content \in Contents, NEW offer \in Offers(content),
             RequestUploadNodes(u, name, content, offer)
      PROVE  Inv'
  <2> DEFINE x == [pc |-> "placing", name |-> name, content |-> content,
                   offer |-> offer, epoch |-> epoch,
                   placed |-> <<>>, tried |-> 0, acked |-> {}]
  <2>1. upload[u] = New /\ upload' = [upload EXCEPT ![u] = x]
        /\ UNCHANGED <<owner, storage, server>>
    BY <1>1 DEF RequestUploadNodes
  <2>2. /\ offer \in Seq(Ids)
        /\ Len(offer) >= ReplicationFactor
        /\ \A i, j \in 1 .. Len(offer) : i # j => offer[i] # offer[j]
        /\ \A i \in 1 .. Len(offer) : offer[i] \in known
    BY OfferFromKnown DEF Inv
  <2>3. /\ known \subseteq DOMAIN owner
        /\ epoch \in Nat
        /\ content \in Seq(Chunks)
    BY DEF Inv, TypeOK
  <2>4. <<>> \in Seq(NodeList) /\ 0 \in 0 .. ReplicationFactor /\ {} \in SUBSET Replicas
    BY DEF NodeList
  <2>5. x \in Active
    BY <2>2, <2>3, <2>4 DEF Active
  <2>6. OfferSound(x)
    BY <2>2, <2>3 DEF OfferSound
  <2>7. u \notin inbox
    BY <2>1 DEF Inv, ProgressSound, Complete, Announced, New, Active
  <2> HIDE DEF x
  <2> QED
    BY <2>1, <2>5, <2>6, <2>7, OneUpload, StorageAlone DEF server
<1>2. CASE RequestFails(u)
  <2>1. u \notin inbox
    BY <1>2 DEF Inv, ProgressSound, Complete, Announced, New, Active, RequestFails
  <2>2. Stopped \notin Active
    BY DEF Stopped, Active
  <2> QED
    BY <1>2, <2>1, <2>2, OneUpload, StorageAlone DEF RequestFails, server
<1>3. CASE StoreChunk(u)
  <2> DEFINE r == upload[u].tried + 1
  <2> DEFINE x == [upload[u] EXCEPT !.tried = r]
  <2> DEFINE q == [upload |-> u, index |-> Current(u), replica |-> r,
                   host |-> owner[Selected(u)[r]], hash |-> upload[u].content[Current(u)]]
  <2>1. Placing(u) /\ r \in Replicas /\ UNCHANGED <<owner, disk, torn, server>>
    BY <1>3 DEF StoreChunk
  <2>2. upload' = [upload EXCEPT ![u] = x] /\ requests' = requests \cup {q}
    BY <1>3 DEF StoreChunk
  <2>3. upload[u] \in Active /\ OfferSound(upload[u])
    BY <2>1, ActiveByPc DEF Inv, ProgressSound, Placing
  <2>4. x \in Active
    <3>1. r \in 0 .. ReplicationFactor
      BY <2>1 DEF Replicas
    <3> HIDE DEF r
    <3> QED
      BY <2>3, <3>1 DEF Active
  <2>5. OfferSound(x)
    BY <2>3 DEF OfferSound, Active
  <2>6. u \notin inbox
    BY <2>1 DEF Inv, ProgressSound, Complete, Announced, Placing
  <2>7. q \in Request
    <3>1. /\ owner[Selected(u)[r]] \in Hosts /\ upload[u].content[Current(u)] \in Chunks
          /\ Current(u) \in Nat
      BY <2>1, SelectedSound DEF Inv, TypeOK
    <3> HIDE DEF r
    <3> QED
      BY <2>1, <3>1 DEF Request
  <2> HIDE DEF x, q
  <2>8. StorageTyped'
    BY <2>1, <2>2, <2>7 DEF Inv, TypeOK, StorageTyped, Request, Replicas
  <2> QED
    BY <2>1, <2>2, <2>4, <2>5, <2>6, <2>8, OneUpload DEF server
<1>4. CASE ChunkPlaced(u)
  <2> DEFINE nodes == [r \in upload[u].acked |-> Selected(u)[r]]
  <2> DEFINE x == [upload[u] EXCEPT !.placed = Append(@, nodes), !.tried = 0, !.acked = {}]
  <2>1. Placing(u) /\ UNCHANGED <<owner, storage, server>>
    BY <1>4 DEF ChunkPlaced
  <2>2. upload' = [upload EXCEPT ![u] = x]
    BY <1>4 DEF ChunkPlaced
  <2>3. upload[u] \in Active /\ OfferSound(upload[u])
    BY <2>1, ActiveByPc DEF Inv, ProgressSound, Placing
  <2>4. nodes \in NodeList
    <3>1. upload[u].acked \subseteq Replicas /\ Selected(u) \in [Replicas -> Ids]
      BY <2>1, <2>3, SelectedSound DEF Active
    <3>2. nodes \in [upload[u].acked -> Ids]
      BY <3>1
    <3> QED
      BY <3>1, <3>2 DEF NodeList
  <2> HIDE DEF nodes
  <2>5. Append(upload[u].placed, nodes) \in Seq(NodeList)
        /\ Len(Append(upload[u].placed, nodes)) = Len(upload[u].placed) + 1
    BY <2>3, <2>4 DEF Active
  <2>6. x \in Active
    <3>1. {} \in SUBSET Replicas /\ 0 \in 0 .. ReplicationFactor
      OBVIOUS
    <3> QED
      BY <2>3, <2>5, <3>1 DEF Active
  <2>7. Len(upload[u].placed) + 1 <= Len(upload[u].content)
    BY <2>1 DEF Placing, Current
  <2>8. OfferSound(x)
    BY <2>3, <2>5, <2>7 DEF OfferSound, Active
  <2>9. u \notin inbox
    BY <2>1 DEF Inv, ProgressSound, Complete, Announced, Placing
  <2> HIDE DEF x
  <2> QED
    BY <2>1, <2>2, <2>6, <2>8, <2>9, OneUpload, StorageAlone DEF server
<1>5. ASSUME NEW pc \in {"notifying", "done", "failed"},
             upload[u].pc \in {"placing", "notifying"},
             upload' = [upload EXCEPT ![u].pc = pc],
             UNCHANGED <<owner, known, storage, catalog, answered, epoch>>,
             \/ inbox' = inbox
             \/ inbox' = inbox \cup {u} /\ Current(u) > Len(upload[u].content)
      PROVE  Inv'
  <2> DEFINE x == [upload[u] EXCEPT !.pc = pc]
  <2>1. upload[u] \in Active /\ OfferSound(upload[u])
    BY <1>5, ActiveByPc DEF Inv, ProgressSound
  <2>2. x \in Active
    BY <2>1 DEF Active
  <2>3. OfferSound(x)
    BY <2>1 DEF OfferSound, Active
  <2>4. ASSUME u \in inbox'
        PROVE  Complete(x)
    <3>1. Len(upload[u].placed) = Len(upload[u].content)
      <4>1. CASE u \in inbox
        BY <4>1 DEF Inv, ProgressSound, Complete
      <4>2. CASE u \notin inbox
        <5>1. Current(u) > Len(upload[u].content)
          BY <1>5, <2>4, <4>2
        <5> QED
          BY <2>1, <5>1 DEF Current, OfferSound, Active
      <4> QED
        BY <4>1, <4>2
    <3> QED
      BY <2>1, <2>2, <3>1 DEF Complete, Announced, Active
  <2>5. upload' = [upload EXCEPT ![u] = x] /\ inbox' \subseteq inbox \cup {u}
    BY <1>5
  <2> HIDE DEF x
  <2> QED
    BY <1>5, <2>2, <2>3, <2>4, <2>5, OneUpload, StorageAlone
<1>6. CASE ChunkFails(u)
  <2>1. u \notin inbox
    BY <1>6 DEF ChunkFails, Placing, Inv, ProgressSound, Complete, Announced
  <2>2. Stopped \notin Active
    BY DEF Stopped, Active
  <2> QED
    BY <1>6, <2>1, <2>2, OneUpload, StorageAlone DEF ChunkFails, server
<1>7. CASE NotifyUploadComplete(u)
  BY <1>5, <1>7 DEF NotifyUploadComplete
<1>8. CASE ReceiveOk(u)
  BY <1>5, <1>8 DEF ReceiveOk, server
<1>9. CASE GiveUp(u)
  BY <1>5, <1>9 DEF GiveUp, server
<1> QED
  BY <1>1, <1>2, <1>3, <1>4, <1>6, <1>7, <1>8, <1>9 DEF UploadFile

(* A step of a node: an upload learns no more than that a replica of the   *)
(* chunk it is at is stored.                                               *)
Told(u, S) == upload' = [upload EXCEPT ![u].acked = S]

LEMMA StepOfStore ==
    ASSUME Inv, Store
    PROVE  /\ Inv' /\ UNCHANGED <<owner, known, catalog, inbox, answered, epoch>>
           /\ requests' \subseteq requests
           /\ \/ UNCHANGED upload
              \/ \E u \in Uploads, S \in SUBSET Replicas : upload[u].pc = "placing" /\ Told(u, S)
<1>1. PICK q \in requests : (\E acked \in BOOLEAN : ChunkStored(q, acked)) \/ ChunkTorn(q) \/ ChunkRefused(q)
  BY DEF Store
<1>2. q \in Request /\ q.upload \in Uploads /\ q.replica \in Replicas /\ q.host \in Hosts /\ q.hash \in Chunks
  BY DEF Inv, TypeOK, Request
<1>3. /\ UNCHANGED <<owner, known, catalog, inbox, answered, epoch>> /\ requests' \subseteq requests
  BY <1>1 DEF ChunkStored, ChunkTorn, ChunkRefused, server
<1>4. StorageTyped'
  <2>1. disk' \in [Hosts -> SUBSET Chunks] /\ torn' \subseteq Hosts \X Chunks
    BY <1>1, <1>2 DEF ChunkStored, ChunkTorn, ChunkRefused, Inv, TypeOK
  <2> QED
    BY <1>3, <2>1 DEF StorageTyped, Inv, TypeOK, Request, Replicas
<1>5. ASSUME UNCHANGED upload
      PROVE  Inv'
  <2>1. TypeOK'
    BY <1>3, <1>4, <1>5 DEF Inv, TypeOK, StorageTyped, Active, NodeList, Replicas
  <2> QED
    BY <1>3, <1>5, <2>1, UploadsAlone
<1>6. ASSUME ~UNCHANGED upload
      PROVE  /\ Inv'
             /\ \E u \in Uploads, S \in SUBSET Replicas : upload[u].pc = "placing" /\ Told(u, S)
  <2> DEFINE u == q.upload
  <2> DEFINE S == upload[u].acked \cup {q.replica}
  <2> DEFINE x == [upload[u] EXCEPT !.acked = S]
  <2>1. upload' = [upload EXCEPT ![u] = x] /\ upload[u].pc = "placing" /\ Told(u, S)
    BY <1>1, <1>6 DEF ChunkStored, ChunkTorn, ChunkRefused, InCall, Told
  <2>2. upload[u] \in Active /\ OfferSound(upload[u]) /\ S \in SUBSET Replicas
    BY <1>2, <2>1, ActiveByPc DEF Inv, ProgressSound
  <2> HIDE DEF S
  <2>3. x \in Active
    BY <2>2 DEF Active
  <2>4. OfferSound(x)
    BY <2>2 DEF OfferSound, Active
  <2>5. u \notin inbox
    BY <2>1 DEF Inv, ProgressSound, Complete, Announced
  <2> HIDE DEF x
  <2>6. Inv'
    BY <1>2, <1>3, <1>4, <2>1, <2>3, <2>4, <2>5, OneUpload
  <2> QED
    BY <1>2, <2>1, <2>2, <2>6
<1> QED
  BY <1>3, <1>5, <1>6

LEMMA StepOfServer ==
    ASSUME Inv, Serve
    PROVE  Inv'
<1>1. ASSUME NEW u \in Uploads, RegisterFile(u)
      PROVE  Inv'
  <2>1. FileOf(u) \in File /\ upload[u].name \in Names
    BY <1>1, FileOfTyped DEF RegisterFile, Inv, ProgressSound, Complete, Announced, Active
  <2>2. catalog' \in [DOMAIN catalog' -> File] /\ DOMAIN catalog' \subseteq Names
    BY <1>1, <2>1 DEF RegisterFile, Inv, TypeOK
  <2>3. TypeOK'
    BY <1>1, <2>2 DEF RegisterFile, Inv, TypeOK, storage
  <2> QED
    BY <1>1, <2>3, UploadsAlone DEF RegisterFile
<1>2. ASSUME NEW u \in Uploads, DropRequest(u)
      PROVE  Inv'
  <2>1. TypeOK'
    BY <1>2 DEF DropRequest, Inv, TypeOK, storage
  <2> QED
    BY <1>2, <2>1, UploadsAlone DEF DropRequest
<1>3. ASSUME NEW h \in Hosts, NEW id \in Ids, RegisterNode(h, id)
      PROVE  Inv'
  <2>1. TypeOK'
    BY <1>3 DEF RegisterNode, Inv, TypeOK, storage
  <2> QED
    BY <1>3, <2>1, UploadsAlone DEF RegisterNode
<1>4. CASE RestartServer
  <2>1. TypeOK'
    BY <1>4 DEF RestartServer, Inv, TypeOK, storage
  <2> QED
    BY <1>4, <2>1, UploadsAlone DEF RestartServer
<1> QED
  BY <1>1, <1>2, <1>3, <1>4 DEF Serve

LEMMA InvInductive == Inv /\ [Next]_vars => Inv'
<1> SUFFICES ASSUME Inv, [Next]_vars PROVE Inv'
  OBVIOUS
<1>1. CASE UNCHANGED vars
  <2>1. TypeOK'
    BY <1>1 DEF vars, storage, Inv, TypeOK
  <2> QED
    BY <1>1, <2>1, UploadsAlone DEF vars
<1> QED
  BY <1>1, StepOfUpload, StepOfStore, StepOfServer DEF Next

LEMMA InvInit == Init => Inv
  BY DEF Init, Inv, TypeOK, ProgressSound, New, Stopped, Active

(* The variables keep their types: in particular the nodes listed with a   *)
(* chunk are always nodes that were registered once, under replica numbers *)
(* within the replication factor.                                          *)
THEOREM UploadTypeCorrect == Spec => []TypeOK
<1>1. Inv => TypeOK
  BY DEF Inv
<1> QED
  BY InvInit, InvInductive, <1>1, PTL DEF Spec

----------------------------------------------------------------------------

(* What an upload has been told was stored: the chunks it has placed and   *)
(* the copies acknowledged of the one it is at.                            *)
Kept(x) ==
    /\ \A i \in 1 .. Len(x.placed) : Holds(x.placed[i], x.content[i])
    /\ \A r \in x.acked :
          LET id == SelectNodesForChunk(x.offer, Len(x.placed) + 1)[r]
          IN  id \in DOMAIN owner /\ HasStored(owner[id], x.content[Len(x.placed) + 1])

(* A request comes from a call the upload has made; one for the chunk the  *)
(* upload is at stores that chunk, at the node chosen for the replica.     *)
FromCall(q, x) ==
    /\ x # New
    /\ x.pc = "placing" =>
          /\ q.index <= Len(x.placed) + 1
          /\ q.index = Len(x.placed) + 1 =>
                LET id == SelectNodesForChunk(x.offer, q.index)[q.replica]
                IN  /\ q.index <= Len(x.content)
                    /\ id \in DOMAIN owner
                    /\ q.host = owner[id] /\ q.hash = x.content[q.index]

HeldInv ==
    /\ \A u \in Uploads : upload[u] \in Active => Kept(upload[u])
    /\ \A q \in requests : FromCall(q, upload[q.upload])
    /\ CatalogReplicated

(* What changes on the machines: ids are only added, and a chunk is lost   *)
(* only by being stored again.                                             *)
OnlyAdded ==
    /\ DOMAIN owner \subseteq DOMAIN owner'
    /\ \A id \in DOMAIN owner : owner'[id] = owner[id]
    /\ \A h \in Hosts : \A hash : HasStored(h, hash) => HasStored(h, hash)'

LEMMA StoredStays ==
    ASSUME TypeOK, OnlyAdded, NEW id \in DOMAIN owner, NEW hash, HasStored(owner[id], hash)
    PROVE  id \in DOMAIN owner' /\ HasStored(owner[id], hash)'
<1>1. PICK h \in Hosts : h = owner[id]
  BY DEF TypeOK
<1>2. HasStored(h, hash)'
  BY <1>1 DEF OnlyAdded
<1>3. id \in DOMAIN owner' /\ owner'[id] = h
  BY <1>1 DEF OnlyAdded
<1> QED
  BY <1>2, <1>3 DEF HasStored

LEMMA HoldsStays ==
    ASSUME TypeOK, OnlyAdded, NEW nodes, NEW hash, Holds(nodes, hash)
    PROVE  Holds(nodes, hash)'
  BY StoredStays DEF Holds

LEMMA KeptStays ==
    ASSUME TypeOK, OnlyAdded, NEW x, Kept(x)
    PROVE  Kept(x)'
<1>1. ASSUME NEW i \in 1 .. Len(x.placed)
      PROVE  Holds(x.placed[i], x.content[i])'
  BY HoldsStays DEF Kept
<1>2. ASSUME NEW r \in x.acked
      PROVE  LET id == SelectNodesForChunk(x.offer, Len(x.placed) + 1)[r]
             IN  id \in DOMAIN owner' /\ HasStored(owner[id], x.content[Len(x.placed) + 1])'
  <2> DEFINE id == SelectNodesForChunk(x.offer, Len(x.placed) + 1)[r]
  <2> DEFINE hash == x.content[Len(x.placed) + 1]
  <2>1. id \in DOMAIN owner /\ HasStored(owner[id], hash)
    BY DEF Kept
  <2> HIDE DEF id, hash
  <2>2. id \in DOMAIN owner' /\ HasStored(owner[id], hash)'
    BY <2>1, StoredStays
  <2> QED
    BY <2>2 DEF id, hash
<1> QED
  BY <1>1, <1>2 DEF Kept

LEMMA FromCallStays ==
    ASSUME OnlyAdded, NEW q, NEW x, FromCall(q, x)
    PROVE  FromCall(q, x)'
<1> DEFINE id == SelectNodesForChunk(x.offer, q.index)[q.replica]
<1> HIDE DEF id
<1> SUFFICES ASSUME x.pc = "placing", q.index = Len(x.placed) + 1
             PROVE  id \in DOMAIN owner' /\ q.host = owner'[id]
  BY DEF FromCall, id
<1>1. id \in DOMAIN owner /\ q.host = owner[id]
  BY DEF FromCall, id
<1> QED
  BY <1>1 DEF OnlyAdded

(* A step that adds nothing to the catalogue keeps HeldInv if it keeps it  *)
(* of the uploads.                                                         *)
LEMMA CatalogStays ==
    ASSUME Inv, CatalogReplicated, OnlyAdded,
           DOMAIN catalog' \subseteq DOMAIN catalog,
           \A name \in DOMAIN catalog' : catalog'[name] = catalog[name]
    PROVE  CatalogReplicated'
<1> SUFFICES ASSUME NEW name \in DOMAIN catalog',
                    NEW i \in DOMAIN catalog[name].chunks
             PROVE  Holds(catalog[name].chunks[i].nodes, catalog[name].chunks[i].hash)'
  BY DEF CatalogReplicated, Holds, HasStored
<1> QED
  BY HoldsStays DEF Inv, CatalogReplicated

LEMMA StorageAdds ==
    ASSUME UNCHANGED <<owner, disk, torn>>
    PROVE  OnlyAdded
  BY DEF OnlyAdded, HasStored

(* A step of one upload, which takes it to x.                              *)
LEMMA OneKept ==
    ASSUME Inv, HeldInv, NEW u \in Uploads, NEW x,
           upload' = [upload EXCEPT ![u] = x],
           UNCHANGED <<owner, disk, torn, catalog>>,
           x \in Active => Kept(x),
           \A q \in requests' : /\ q \in Request
                                /\ q.upload = u => FromCall(q, x)
                                /\ q.upload # u => q \in requests
    PROVE  HeldInv'
<1>1. OnlyAdded
  BY StorageAdds
<1>2. CatalogReplicated'
  BY <1>1, CatalogStays DEF HeldInv
<1>3. ASSUME NEW v \in Uploads, upload'[v] \in Active
      PROVE  Kept(upload[v])'
  <2>1. upload'[v] = IF v = u THEN x ELSE upload[v]
    BY DEF Inv, TypeOK
  <2>2. Kept(upload'[v])
    BY <1>3, <2>1 DEF HeldInv
  <2> QED
    BY <2>2 DEF Kept, Holds, HasStored
<1>4. ASSUME NEW q \in requests'
      PROVE  FromCall(q, upload[q.upload])'
  <2>1. /\ q \in Request
        /\ q.upload = u => FromCall(q, x)
        /\ q.upload # u => FromCall(q, upload[q.upload])
    BY <1>4 DEF HeldInv
  <2>2. q.upload \in Uploads
    BY <2>1 DEF Request
  <2>3. FromCall(q, upload'[q.upload])
    <3>1. CASE q.upload = u
      <4>1. upload'[q.upload] = x
        BY <2>2, <3>1 DEF Inv, TypeOK
      <4> QED
        BY <2>1, <3>1, <4>1
    <3>2. CASE q.upload # u
      <4>1. upload'[q.upload] = upload[q.upload]
        BY <2>2, <3>2 DEF Inv, TypeOK
      <4> QED
        BY <2>1, <3>2, <4>1
    <3> QED
      BY <3>1, <3>2
  <2> QED
    BY <2>3 DEF FromCall, New
<1> QED
  BY <1>2, <1>3, <1>4 DEF HeldInv, Active, NodeList, Replicas

(* A step that leaves the uploads alone.                                   *)
LEMMA UploadsKept ==
    ASSUME Inv, HeldInv, OnlyAdded, UNCHANGED upload, requests' \subseteq requests, CatalogReplicated'
    PROVE  HeldInv'
<1>1. ASSUME NEW v \in Uploads, upload[v] \in Active
      PROVE  Kept(upload[v])'
  <2>1. PICK x : x = upload[v]
    OBVIOUS
  <2>2. Kept(x)'
    BY <1>1, <2>1, KeptStays DEF Inv, HeldInv
  <2> QED
    BY <2>1, <2>2 DEF Kept, Holds, HasStored
<1>2. ASSUME NEW q \in requests'
      PROVE  FromCall(q, upload[q.upload])'
  <2>1. PICK x : x = upload[q.upload]
    OBVIOUS
  <2>2. FromCall(q, x)'
    BY <2>1, FromCallStays DEF HeldInv
  <2> QED
    BY <2>1, <2>2 DEF FromCall, New
<1> QED
  BY <1>1, <1>2 DEF HeldInv, Active, NodeList, Replicas

(* All answers in: the acknowledged replicas are all of them.              *)
LEMMA AllAcked ==
    ASSUME NEW acked \in SUBSET Replicas, Cardinality(acked) >= ReplicationFactor
    PROVE  acked = Replicas
<1>1. IsFiniteSet(Replicas) /\ Cardinality(Replicas) = ReplicationFactor
  BY FS_Interval DEF Replicas
<1>2. Cardinality(acked) <= Cardinality(Replicas)
      /\ (Cardinality(acked) = Cardinality(Replicas) => acked = Replicas)
  BY <1>1, FS_Subset
<1>3. IsFiniteSet(acked) /\ Cardinality(acked) \in Nat
  BY <1>1, FS_Subset, FS_CardinalityType
<1> QED
  BY <1>1, <1>2, <1>3

LEMMA HeldByStoreChunk ==
    ASSUME Inv, HeldInv, NEW u \in Uploads, StoreChunk(u)
    PROVE  HeldInv'
<1> DEFINE r == upload[u].tried + 1
<1> DEFINE x == [upload[u] EXCEPT !.tried = r]
<1> DEFINE new == [upload |-> u, index |-> Current(u), replica |-> r,
                   host |-> owner[Selected(u)[r]], hash |-> upload[u].content[Current(u)]]
<1>1. /\ Placing(u) /\ r \in Replicas /\ UNCHANGED <<owner, disk, torn, server>>
      /\ upload' = [upload EXCEPT ![u] = x]
      /\ requests' = requests \cup {new}
  BY DEF StoreChunk
<1>2. upload[u] \in Active /\ Kept(upload[u])
  BY <1>1, ActiveByPc DEF Inv, HeldInv, Placing
<1>3. Selected(u)[r] \in DOMAIN owner /\ Current(u) \in 1 .. Len(upload[u].content)
  BY <1>1, SelectedSound
<1>4. /\ x # New /\ x.pc = "placing" /\ x.placed = upload[u].placed /\ x.content = upload[u].content
      /\ x.offer = upload[u].offer /\ x.acked = upload[u].acked
  BY <1>1, <1>2 DEF Active, Placing, New
<1> HIDE DEF r, x
<1>5. Kept(x)
  BY <1>2, <1>4 DEF Kept
<1>6. FromCall(new, x)
  BY <1>3, <1>4 DEF FromCall, Selected, Current
<1>7. ASSUME NEW q \in requests, q.upload = u
      PROVE  FromCall(q, x)
  <2>1. FromCall(q, upload[u]) /\ upload[u].pc = "placing"
    BY <1>1, <1>7 DEF HeldInv, Placing
  <2> QED
    BY <1>4, <2>1 DEF FromCall
<1>8. requests' \subseteq Request
  BY StepOfUpload DEF UploadFile, Inv, TypeOK, Request, Replicas
<1>9. new.upload = u
  OBVIOUS
<1> HIDE DEF new
<1> QED
  BY <1>1, <1>5, <1>6, <1>7, <1>8, <1>9, OneKept DEF server

LEMMA HeldByStore ==
    ASSUME Inv, HeldInv, Store
    PROVE  HeldInv'
<1>1. PICK q \in requests : (\E acked \in BOOLEAN : ChunkStored(q, acked)) \/ ChunkTorn(q) \/ ChunkRefused(q)
  BY DEF Store
<1>2. q \in Request /\ q.upload \in Uploads /\ q.replica \in Replicas /\ q.host \in Hosts /\ q.hash \in Chunks
  BY DEF Inv, TypeOK, Request
<1>3. UNCHANGED <<owner, catalog>> /\ requests' \subseteq requests
  BY StepOfStore
<1>4. ASSUME NEW h \in Hosts, NEW hash, HasStored(h, hash)
      PROVE  HasStored(h, hash)'
  <2>1. CASE \E acked \in BOOLEAN : ChunkStored(q, acked)
    <3>1. disk' = [disk EXCEPT ![q.host] = @ \cup {q.hash}] /\ torn' = torn \ {<<q.host, q.hash>>}
      BY <2>1 DEF ChunkStored
    <3> QED
      BY <1>2, <1>4, <3>1 DEF HasStored, Inv, TypeOK
  <2>2. CASE ChunkTorn(q)
    <3>1. /\ disk' = [disk EXCEPT ![q.host] = @ \ {q.hash}]
          /\ torn' = IF q.hash \in disk[q.host] THEN torn \cup {<<q.host, q.hash>>} ELSE torn
      BY <2>2 DEF ChunkTorn
    <3> QED
      BY <1>2, <1>4, <3>1 DEF HasStored, Inv, TypeOK
  <2>3. CASE ChunkRefused(q)
    BY <1>4, <2>3 DEF ChunkRefused, HasStored
  <2> QED
    BY <1>1, <2>1, <2>2, <2>3
<1>5. OnlyAdded
  BY <1>3, <1>4 DEF OnlyAdded
<1>6. CatalogReplicated'
  BY <1>3, <1>5, CatalogStays DEF HeldInv
<1>7. CASE UNCHANGED upload
  BY <1>3, <1>5, <1>6, <1>7, UploadsKept
<1>8. CASE ~UNCHANGED upload
  <2> DEFINE u == q.upload
  <2>0. PICK x : x = [upload[u] EXCEPT !.acked = @ \cup {q.replica}]
    OBVIOUS
  <2>1. /\ InCall(q) /\ upload' = [upload EXCEPT ![u] = x]
        /\ disk' = [disk EXCEPT ![q.host] = @ \cup {q.hash}]
    BY <1>1, <1>8, <2>0 DEF ChunkStored, ChunkTorn, ChunkRefused
  <2>2. upload[u] \in Active /\ Kept(upload[u]) /\ FromCall(q, upload[u]) /\ upload[u].pc = "placing"
    BY <1>2, <2>1, ActiveByPc DEF Inv, HeldInv, InCall
  <2>3. PICK old : old = upload[u]
    OBVIOUS
  <2>4. /\ x # New /\ x.pc = "placing" /\ x.placed = old.placed /\ x.content = old.content
        /\ x.offer = old.offer /\ x.acked = old.acked \cup {q.replica}
    BY <2>0, <2>2, <2>3 DEF Active, New
  <2>5. Kept(old)'
    BY <1>5, <2>2, <2>3, KeptStays DEF Inv
  <2>6. Kept(x)'
    <3> DEFINE hash == old.content[Len(old.placed) + 1]
    <3> DEFINE id(r) == SelectNodesForChunk(old.offer, Len(old.placed) + 1)[r]
    <3>1. \A i \in 1 .. Len(old.placed) : Holds(old.placed[i], old.content[i])'
      BY <2>5 DEF Kept
    <3>2. \A r \in old.acked : id(r) \in DOMAIN owner' /\ HasStored(owner[id(r)], hash)'
      BY <2>5 DEF Kept
    <3>3. /\ id(q.replica) \in DOMAIN owner
          /\ q.host = owner[id(q.replica)] /\ q.hash = hash
      BY <2>1, <2>2, <2>3 DEF FromCall, InCall, Current
    <3> HIDE DEF id, hash
    <3>4. HasStored(owner[id(q.replica)], hash)'
      <4>1. q.hash \in disk'[q.host]
        BY <1>2, <2>1 DEF Inv, TypeOK
      <4> QED
        BY <1>3, <3>3, <4>1 DEF HasStored
    <3>5. \A r \in x.acked : id(r) \in DOMAIN owner' /\ HasStored(owner[id(r)], hash)'
      BY <1>3, <2>4, <3>2, <3>3, <3>4
    <3> QED
      BY <2>4, <3>1, <3>5 DEF Kept, id, hash
  <2>7. ASSUME NEW v \in Uploads, upload'[v] \in Active
        PROVE  Kept(upload[v])'
    <3>1. CASE v = u
      <4>1. upload'[v] = x
        BY <1>2, <2>1, <3>1 DEF Inv, TypeOK
      <4> QED
        BY <2>6, <4>1 DEF Kept, Holds, HasStored
    <3>2. CASE v # u
      <4>1. PICK y : y = upload[v]
        OBVIOUS
      <4>2. upload'[v] = y
        BY <2>1, <3>2, <4>1 DEF Inv, TypeOK
      <4>3. Kept(y)'
        BY <1>5, <2>7, <4>1, <4>2, KeptStays DEF Inv, HeldInv
      <4> QED
        BY <4>2, <4>3 DEF Kept, Holds, HasStored
    <3> QED
      BY <3>1, <3>2
  <2>8. ASSUME NEW p \in requests'
        PROVE  FromCall(p, upload[p.upload])'
    <3>1. p \in requests /\ p.upload \in Uploads
      BY <1>3 DEF Inv, TypeOK, Request
    <3>2. upload'[p.upload] = IF p.upload = u THEN x ELSE upload[p.upload]
      BY <2>1, <3>1 DEF Inv, TypeOK
    <3>3. FromCall(p, upload[p.upload])
      BY <3>1 DEF HeldInv
    <3>4. FromCall(p, upload'[p.upload])
      BY <2>2, <2>3, <2>4, <3>2, <3>3 DEF FromCall
    <3> QED
      BY <1>3, <3>4 DEF FromCall, New
  <2> QED
    BY <1>6, <2>7, <2>8 DEF HeldInv, Active, NodeList, Replicas
<1> QED
  BY <1>7, <1>8

LEMMA HeldByChunkPlaced ==
    ASSUME Inv, HeldInv, NEW u \in Uploads, ChunkPlaced(u)
    PROVE  HeldInv'
<1> DEFINE nodes == [r \in upload[u].acked |-> Selected(u)[r]]
<1> DEFINE x == [upload[u] EXCEPT !.placed = Append(@, nodes), !.tried = 0, !.acked = {}]
<1>1. /\ Placing(u) /\ UNCHANGED <<owner, storage, server>>
      /\ Cardinality(upload[u].acked) >= ReplicationFactor
      /\ upload' = [upload EXCEPT ![u] = x]
  BY DEF ChunkPlaced
<1>2. upload[u] \in Active /\ Kept(upload[u])
  BY <1>1, ActiveByPc DEF Inv, HeldInv, Placing
<1>3. upload[u].acked = Replicas
  BY <1>1, <1>2, AllAcked DEF Active
<1>4. \A r, s \in Replicas : r # s => Selected(u)[r] # Selected(u)[s]
  BY <1>1, SelectedSound
<1>5. \A r \in Replicas : /\ Selected(u)[r] \in DOMAIN owner
                          /\ HasStored(owner[Selected(u)[r]], upload[u].content[Current(u)])
  BY <1>2, <1>3 DEF Kept, Selected, Current
<1>6. Holds(nodes, upload[u].content[Current(u)])
  BY <1>3, <1>4, <1>5 DEF Holds
<1> HIDE DEF nodes
<1>7. /\ x.acked = {} /\ x.content = upload[u].content
      /\ x.placed = Append(upload[u].placed, nodes)
  BY <1>2 DEF Active
<1>8. Kept(x)
  <2> HIDE DEF x
  <2>1. upload[u].placed \in Seq(NodeList)
    BY <1>2 DEF Active
  <2>2. ASSUME NEW i \in 1 .. Len(x.placed)
        PROVE  Holds(x.placed[i], x.content[i])
    <3>1. CASE i = Current(u)
      <4>1. x.placed[i] = nodes
        BY <1>7, <2>1, <3>1 DEF Current
      <4> QED
        BY <1>6, <1>7, <3>1, <4>1
    <3>2. CASE i # Current(u)
      <4>1. i \in 1 .. Len(upload[u].placed) /\ x.placed[i] = upload[u].placed[i]
        BY <1>7, <2>1, <3>2 DEF Current
      <4> QED
        BY <1>2, <1>7, <4>1 DEF Kept
    <3> QED
      BY <3>1, <3>2
  <2> QED
    BY <1>7, <2>2 DEF Kept
<1>9. ASSUME NEW q \in requests, q.upload = u
      PROVE  FromCall(q, x)
  <2>1. x # New
    BY <1>2 DEF Active, New
  <2>3. upload[u].placed \in Seq(NodeList)
    BY <1>2 DEF Active
  <2>4. Len(x.placed) = Len(upload[u].placed) + 1 /\ Len(upload[u].placed) \in Nat
    <3> HIDE DEF x
    <3> QED
      BY <1>7, <2>3
  <2> HIDE DEF x
  <2>2. FromCall(q, upload[u]) /\ upload[u].pc = "placing" /\ q.index \in Nat
    BY <1>1, <1>9 DEF HeldInv, Placing, Inv, TypeOK, Request
  <2> QED
    BY <2>1, <2>2, <2>4 DEF FromCall
<1> HIDE DEF x
<1> QED
  BY <1>1, <1>8, <1>9, OneKept DEF server, storage, Inv, TypeOK

LEMMA HeldByUpload ==
    ASSUME Inv, HeldInv, NEW u \in Uploads, UploadFile(u)
    PROVE  HeldInv'
<1>1. ASSUME NEW name \in Names, NEW content \in Contents, NEW offer \in Offers(content),
             RequestUploadNodes(u, name, content, offer)
      PROVE  HeldInv'
  <2> DEFINE x == [pc |-> "placing", name |-> name, content |-> content,
                   offer |-> offer, epoch |-> epoch,
                   placed |-> <<>>, tried |-> 0, acked |-> {}]
  <2>1. Kept(x)
    BY DEF Kept
  <2>2. upload' = [upload EXCEPT ![u] = x] /\ UNCHANGED <<owner, storage, catalog>> /\ upload[u] = New
    BY <1>1 DEF RequestUploadNodes, server
  <2>3. \A q \in requests : q.upload # u /\ q \in Request
    BY <2>2 DEF HeldInv, FromCall, Inv, TypeOK
  <2> HIDE DEF x
  <2> QED
    BY <2>1, <2>2, <2>3, OneKept DEF storage
<1>2. CASE RequestFails(u) \/ ChunkFails(u)
  <2>1. upload' = [upload EXCEPT ![u] = Stopped] /\ UNCHANGED <<owner, storage, catalog>>
    BY <1>2 DEF RequestFails, ChunkFails, server
  <2>2. Stopped \notin Active /\ \A q \in requests : FromCall(q, Stopped) /\ q \in Request
    BY DEF Stopped, Active, New, FromCall, Inv, TypeOK
  <2> QED
    BY <2>1, <2>2, OneKept DEF storage
<1>3. ASSUME NEW pc \in {"notifying", "done", "failed"},
             upload[u].pc \in {"placing", "notifying"},
             upload' = [upload EXCEPT ![u].pc = pc],
             UNCHANGED <<owner, storage, catalog>>
      PROVE  HeldInv'
  <2> DEFINE x == [upload[u] EXCEPT !.pc = pc]
  <2>1. upload[u] \in Active /\ Kept(upload[u])
    BY <1>3, ActiveByPc DEF Inv, HeldInv
  <2>2. Kept(x)
    BY <2>1 DEF Kept, Active
  <2>3. upload' = [upload EXCEPT ![u] = x]
    BY <1>3
  <2>4. x.pc # "placing" /\ x # New
    BY <2>1 DEF Active, New
  <2> HIDE DEF x
  <2>5. \A q \in requests : FromCall(q, x) /\ q \in Request
    BY <2>4 DEF FromCall, Inv, TypeOK
  <2> QED
    BY <1>3, <2>2, <2>3, <2>5, OneKept DEF storage
<1>5. CASE NotifyUploadComplete(u)
  BY <1>3, <1>5 DEF NotifyUploadComplete
<1>6. CASE ReceiveOk(u)
  BY <1>3, <1>6 DEF ReceiveOk, server
<1>7. CASE GiveUp(u)
  BY <1>3, <1>7 DEF GiveUp, server
<1> QED
  BY <1>1, <1>2, <1>5, <1>6, <1>7, HeldByStoreChunk, HeldByChunkPlaced DEF UploadFile

LEMMA HeldByServer ==
    ASSUME Inv, HeldInv, Serve
    PROVE  HeldInv'
<1>1. ASSUME NEW u \in Uploads, RegisterFile(u)
      PROVE  HeldInv'
  <2>1. OnlyAdded /\ UNCHANGED <<owner, storage, upload>>
    BY <1>1, StorageAdds DEF RegisterFile, storage
  <2>2. Complete(upload[u]) /\ Kept(upload[u])
    BY <1>1 DEF RegisterFile, Inv, ProgressSound, HeldInv, Complete, Announced
  <2>3. /\ \A i \in DOMAIN FileOf(u).chunks :
               Holds(FileOf(u).chunks[i].nodes, FileOf(u).chunks[i].hash)
    <3>1. upload[u].content \in Seq(Chunks)
      BY <2>2 DEF Complete, Announced, Active
    <3> QED
      BY <2>2, <3>1 DEF FileOf, Kept, Complete
  <2>4. /\ DOMAIN catalog' = DOMAIN catalog \cup {upload[u].name}
        /\ \A name \in DOMAIN catalog' :
              catalog'[name] = IF name = upload[u].name THEN FileOf(u) ELSE catalog[name]
    BY <1>1 DEF RegisterFile
  <2>5. \A name \in DOMAIN catalog' : \A i \in DOMAIN catalog'[name].chunks :
            Holds(catalog'[name].chunks[i].nodes, catalog'[name].chunks[i].hash)
    BY <2>3, <2>4 DEF HeldInv, CatalogReplicated
  <2>6. CatalogReplicated'
    BY <2>1, <2>5 DEF CatalogReplicated, Holds, HasStored, storage
  <2> QED
    BY <2>1, <2>6, UploadsKept DEF storage
<1>2. ASSUME NEW u \in Uploads, DropRequest(u)
      PROVE  HeldInv'
  <2>1. OnlyAdded
    BY <1>2, StorageAdds DEF DropRequest, storage
  <2> QED
    BY <1>2, <2>1, CatalogStays, UploadsKept DEF DropRequest, storage, HeldInv
<1>3. ASSUME NEW h \in Hosts, NEW id \in Ids, RegisterNode(h, id)
      PROVE  HeldInv'
  <2>1. OnlyAdded
    BY <1>3 DEF RegisterNode, storage, OnlyAdded, HasStored
  <2> QED
    BY <1>3, <2>1, CatalogStays, UploadsKept DEF RegisterNode, storage, HeldInv
<1>4. CASE RestartServer
  <2>1. OnlyAdded
    BY <1>4, StorageAdds DEF RestartServer, storage
  <2>2. CatalogReplicated'
    BY <1>4 DEF RestartServer, CatalogReplicated
  <2> QED
    BY <1>4, <2>1, <2>2, UploadsKept DEF RestartServer, storage
<1> QED
  BY <1>1, <1>2, <1>3, <1>4 DEF Serve

LEMMA HeldInit == Init => HeldInv
  BY DEF Init, HeldInv, CatalogReplicated, New, Active

LEMMA HeldInductive == Inv /\ HeldInv /\ [Next]_vars => HeldInv'
<1> SUFFICES ASSUME Inv, HeldInv, [Next]_vars PROVE HeldInv'
  OBVIOUS
<1>1. CASE UNCHANGED vars
  <2>1. OnlyAdded
    BY <1>1, StorageAdds DEF vars, storage
  <2> QED
    BY <1>1, <2>1, CatalogStays, UploadsKept DEF vars, storage, HeldInv
<1> QED
  BY <1>1, HeldByUpload, HeldByStore, HeldByServer DEF Next

(* Whatever calls fail and whatever replies are lost, every chunk a client *)
(* can look up was stored by ReplicationFactor nodes with different ids,   *)
(* and a copy is missing only where storing the chunk once more has        *)
(* emptied it.                                                             *)
THEOREM CatalogIsReplicated == Spec => []CatalogReplicated
<1>1. HeldInv => CatalogReplicated
  BY DEF HeldInv
<1> QED
  BY InvInit, InvInductive, HeldInit, HeldInductive, <1>1, PTL DEF Spec

----------------------------------------------------------------------------

(* An upload that has sent UPLOAD_COMPLETE keeps its name and content.     *)
Lasting ==
    \A v \in Uploads : Announced(upload[v]) =>
        /\ Announced(upload'[v])
        /\ upload'[v].name = upload[v].name
        /\ upload'[v].content = upload[v].content

LEMMA ClientStep ==
    ASSUME Inv, NEW u \in Uploads, UploadFile(u)
    PROVE  UNCHANGED <<known, catalog, answered, epoch>> /\ Lasting
<1>1. \A v \in Uploads : upload'[v] = IF v = u THEN upload'[u] ELSE upload[v]
  BY DEF UploadFile, RequestUploadNodes, RequestFails, StoreChunk, ChunkPlaced, ChunkFails,
         NotifyUploadComplete, ReceiveOk, GiveUp, Inv, TypeOK
<1>2. UNCHANGED <<known, catalog, answered, epoch>>
  BY DEF UploadFile, RequestUploadNodes, RequestFails, StoreChunk, ChunkPlaced, ChunkFails,
         NotifyUploadComplete, ReceiveOk, GiveUp, server
<1>3. ASSUME Announced(upload[u])
      PROVE  /\ Announced(upload'[u])
             /\ upload'[u].name = upload[u].name
             /\ upload'[u].content = upload[u].content
  <2>1. upload[u] \in Active /\ upload[u].pc # "placing" /\ upload[u] # New
    BY <1>3 DEF Announced, Active, New
  <2>2. \E pc \in {"done", "failed"} : upload' = [upload EXCEPT ![u].pc = pc]
    BY <2>1 DEF UploadFile, RequestUploadNodes, RequestFails, StoreChunk, ChunkPlaced, ChunkFails,
                NotifyUploadComplete, ReceiveOk, GiveUp, Placing
  <2>3. PICK pc \in {"done", "failed"} : upload'[u] = [upload[u] EXCEPT !.pc = pc]
    BY <2>2 DEF Inv, TypeOK
  <2>4. PICK x \in Active : x = upload[u]
    BY <2>1
  <2>5. LET y == [x EXCEPT !.pc = pc]
        IN  y \in Active /\ y.pc # "placing" /\ y.name = x.name /\ y.content = x.content
    BY DEF Active
  <2> QED
    BY <2>3, <2>4, <2>5 DEF Announced
<1> QED
  BY <1>1, <1>2, <1>3 DEF Lasting

LEMMA NodeStep ==
    ASSUME Inv, Store
    PROVE  UNCHANGED <<known, catalog, answered, epoch>> /\ Lasting
<1>1. /\ UNCHANGED <<known, catalog, answered, epoch>>
      /\ \/ UNCHANGED upload
         \/ \E u \in Uploads, S \in SUBSET Replicas : upload[u].pc = "placing" /\ Told(u, S)
  BY StepOfStore
<1>2. ASSUME NEW v \in Uploads, Announced(upload[v])
      PROVE  upload'[v] = upload[v]
  <2>1. ASSUME NEW u \in Uploads, NEW S, upload[u].pc = "placing", Told(u, S)
        PROVE  upload'[v] = upload[v]
    BY <1>2, <2>1 DEF Told, Announced, Inv, TypeOK
  <2> QED
    BY <1>1, <2>1
<1> QED
  BY <1>1, <1>2 DEF Lasting

(* A file of the catalogue is that of an upload that has announced it.     *)
WholeInv ==
    \A name \in DOMAIN catalog : \E u \in Uploads :
        /\ Announced(upload[u])
        /\ upload[u].name = name
        /\ upload[u].content = [i \in DOMAIN catalog[name].chunks |->
                                    catalog[name].chunks[i].hash]

(* However uploads of one name overlap, a file of the catalogue is the     *)
(* whole file of one of them.                                              *)
THEOREM CatalogIsWhole == Spec => []CatalogWhole
<1>1. Init => WholeInv
  BY DEF Init, WholeInv
<1>2. Inv /\ WholeInv /\ [Next]_vars => WholeInv'
  <2> SUFFICES ASSUME Inv, WholeInv, [Next]_vars,
                      NEW name \in DOMAIN catalog'
               PROVE  \E u \in Uploads :
                         /\ Announced(upload'[u])
                         /\ upload'[u].name = name
                         /\ upload'[u].content = [i \in DOMAIN catalog'[name].chunks |->
                                                     catalog'[name].chunks[i].hash]
    BY DEF WholeInv, Announced, Active, NodeList, Replicas
  <2> DEFINE Whole == \E u \in Uploads :
                         /\ Announced(upload'[u])
                         /\ upload'[u].name = name
                         /\ upload'[u].content = [i \in DOMAIN catalog'[name].chunks |->
                                                     catalog'[name].chunks[i].hash]
  <2>1. ASSUME name \in DOMAIN catalog, catalog'[name] = catalog[name], Lasting
        PROVE  Whole
    BY <2>1 DEF WholeInv, Lasting
  <2>2. CASE (\E u \in Uploads : UploadFile(u)) \/ Store
    BY <2>1, <2>2, ClientStep, NodeStep
  <2>3. ASSUME NEW u \in Uploads, RegisterFile(u)
        PROVE  Whole
    <3>1. Announced(upload[u]) /\ upload' = upload
      BY <2>3 DEF RegisterFile, Inv, ProgressSound, Complete
    <3>2. CASE name = upload[u].name
      <4>1. catalog'[name] = FileOf(u)
        BY <2>3, <3>2 DEF RegisterFile
      <4>2. upload[u].content \in Seq(Chunks)
        BY <3>1 DEF Announced, Active
      <4>3. /\ DOMAIN FileOf(u).chunks = DOMAIN upload[u].content
            /\ \A i \in DOMAIN upload[u].content :
                  FileOf(u).chunks[i].hash = upload[u].content[i]
        BY DEF FileOf
      <4>4. upload[u].content = [i \in DOMAIN upload[u].content |-> upload[u].content[i]]
        BY <4>2
      <4>5. upload[u].content = [i \in DOMAIN FileOf(u).chunks |-> FileOf(u).chunks[i].hash]
        BY <4>3, <4>4
      <4> QED
        BY <3>1, <3>2, <4>1, <4>5
    <3>3. CASE name # upload[u].name
      BY <2>1, <2>3, <3>1, <3>3 DEF RegisterFile, Lasting
    <3> QED
      BY <3>2, <3>3
  <2>4. CASE RestartServer
    BY <2>4 DEF RestartServer
  <2>5. CASE UNCHANGED <<catalog, upload>>
    BY <2>1, <2>5 DEF Lasting
  <2> QED
    BY <2>2, <2>3, <2>4, <2>5 DEF Next, Serve, DropRequest, RegisterNode, vars
<1>3. WholeInv => CatalogWhole
  BY DEF WholeInv, CatalogWhole, Announced
<1> QED
  BY InvInit, InvInductive, <1>1, <1>2, <1>3, PTL DEF Spec

(* An upload the server answered OK since it started has its name in the   *)
(* catalogue.                                                              *)
AnsweredVisible ==
    /\ epoch >= 1
    /\ \A u \in Uploads :
          /\ answered[u] <= epoch
          /\ answered[u] = epoch => Announced(upload[u]) /\ upload[u].name \in DOMAIN catalog

(* What UploadFile reported as stored can be looked up until the metadata  *)
(* server restarts.                                                        *)
THEOREM UploadStaysVisible == Spec => []VisibleUntilRestart
<1>1. Init => AnsweredVisible
  BY DEF Init, AnsweredVisible
<1>2. Inv /\ AnsweredVisible /\ [Next]_vars => AnsweredVisible'
  <2> SUFFICES ASSUME Inv, AnsweredVisible, [Next]_vars
               PROVE  /\ epoch' >= 1
                      /\ \A u \in Uploads :
                            /\ answered'[u] <= epoch'
                            /\ answered'[u] = epoch' => /\ Announced(upload'[u])
                                                        /\ upload'[u].name \in DOMAIN catalog'
    BY DEF AnsweredVisible, Announced, Active, NodeList, Replicas
  <2>1. epoch \in Nat /\ answered \in [Uploads -> Nat]
    BY DEF Inv, TypeOK
  <2>2. CASE (\E u \in Uploads : UploadFile(u)) \/ Store
    BY <2>2, ClientStep, NodeStep DEF AnsweredVisible, Lasting
  <2>3. ASSUME NEW u \in Uploads, RegisterFile(u)
        PROVE  /\ epoch' >= 1
               /\ \A v \in Uploads :
                     /\ answered'[v] <= epoch'
                     /\ answered'[v] = epoch' => /\ Announced(upload'[v])
                                                 /\ upload'[v].name \in DOMAIN catalog'
    <3>1. Announced(upload[u]) /\ upload' = upload /\ epoch' = epoch
          /\ answered' = [answered EXCEPT ![u] = epoch]
          /\ DOMAIN catalog' = DOMAIN catalog \cup {upload[u].name}
      BY <2>3 DEF RegisterFile, Inv, ProgressSound, Complete
    <3> QED
      BY <2>1, <3>1 DEF AnsweredVisible
  <2>4. CASE RestartServer
    BY <2>1, <2>4 DEF RestartServer, AnsweredVisible
  <2>5. CASE UNCHANGED <<catalog, upload, answered, epoch>>
    BY <2>5 DEF AnsweredVisible
  <2> QED
    BY <2>2, <2>3, <2>4, <2>5 DEF Next, Serve, DropRequest, RegisterNode, vars
<1>3. AnsweredVisible => VisibleUntilRestart
  BY DEF AnsweredVisible, VisibleUntilRestart
<1> QED
  BY InvInit, InvInductive, <1>1, <1>2, <1>3, PTL DEF Spec

(* A step of a node leaves the offers and the chunks placed as they are.   *)
LEMMA ToldActive ==
    ASSUME Inv, Store, NEW v \in Uploads, upload'[v] \in Active
    PROVE  /\ upload[v] \in Active
           /\ upload'[v].placed = upload[v].placed
           /\ upload'[v].offer = upload[v].offer
           /\ upload'[v].epoch = upload[v].epoch
<1>1. \/ upload'[v] = upload[v]
      \/ \E S \in SUBSET Replicas : upload[v].pc = "placing" /\ upload'[v] = [upload[v] EXCEPT !.acked = S]
  BY StepOfStore DEF Told, Inv, TypeOK
<1>2. upload[v] \in Active
  BY <1>1, ActiveByPc DEF Inv
<1> QED
  BY <1>1, <1>2 DEF Active

(* The ids kept for the chunks placed are known, if the server that offered *)
(* them still runs.                                                        *)
PlacedKnown(x) ==
    x.epoch = epoch =>
        \A i \in 1 .. Len(x.placed) : \A r \in DOMAIN x.placed[i] : x.placed[i][r] \in known

OfferedKnown ==
    /\ \A u \in Uploads : upload[u] \in Active => PlacedKnown(upload[u])
    /\ ListedIdsKnown
    /\ \A name \in DOMAIN catalog : catalog[name].epoch <= epoch

LEMMA KnownByChunkPlaced ==
    ASSUME Inv, NEW u \in Uploads, upload[u] \in Active, PlacedKnown(upload[u]), ChunkPlaced(u)
    PROVE  PlacedKnown(upload'[u])
<1> DEFINE nodes == [r \in upload[u].acked |-> Selected(u)[r]]
<1>1. /\ Placing(u)
      /\ upload' = [upload EXCEPT ![u].placed = Append(@, nodes), ![u].tried = 0, ![u].acked = {}]
  BY DEF ChunkPlaced
<1>2. /\ upload[u].acked \subseteq Replicas
      /\ upload[u].epoch = epoch => \A r \in Replicas : Selected(u)[r] \in known
  BY <1>1, SelectedSound DEF Active
<1>3. upload[u].epoch = epoch => \A r \in DOMAIN nodes : nodes[r] \in known
  BY <1>2
<1> HIDE DEF nodes
<1>4. /\ upload'[u].placed = Append(upload[u].placed, nodes)
      /\ upload'[u].epoch = upload[u].epoch
      /\ upload[u].placed \in Seq(NodeList)
  BY <1>1 DEF Inv, TypeOK, Active
<1>5. SUFFICES ASSUME upload[u].epoch = epoch, NEW i \in 1 .. Len(upload'[u].placed),
                      NEW r \in DOMAIN upload'[u].placed[i]
               PROVE  upload'[u].placed[i][r] \in known
  BY <1>4 DEF PlacedKnown
<1>6. CASE i = Len(upload[u].placed) + 1
  <2>1. upload'[u].placed[i] = nodes
    BY <1>4, <1>6
  <2> QED
    BY <1>3, <1>5, <2>1
<1>7. CASE i # Len(upload[u].placed) + 1
  <2>1. i \in 1 .. Len(upload[u].placed) /\ upload'[u].placed[i] = upload[u].placed[i]
    BY <1>4, <1>7
  <2> QED
    BY <1>5, <2>1 DEF PlacedKnown
<1> QED
  BY <1>6, <1>7

LEMMA KnownByUpload ==
    ASSUME Inv, OfferedKnown, NEW u \in Uploads, UploadFile(u)
    PROVE  OfferedKnown'
<1>1. /\ UNCHANGED <<known, catalog, epoch>>
      /\ Inv'
  BY ClientStep, StepOfUpload
<1>2. \A v \in Uploads : upload'[v] = IF v = u THEN upload'[u] ELSE upload[v]
  BY DEF UploadFile, RequestUploadNodes, RequestFails, StoreChunk, ChunkPlaced, ChunkFails,
         NotifyUploadComplete, ReceiveOk, GiveUp, Inv, TypeOK
<1>3. ASSUME upload'[u] \in Active
      PROVE  PlacedKnown(upload'[u])
  <2>1. CASE upload[u] = New
    <3>1. ~Placing(u) /\ upload[u].pc = "new"
      BY <2>1 DEF Placing, New
    <3>2. RequestFails(u) \/ \E name \in Names, content \in Contents :
              \E offer \in Offers(content) : RequestUploadNodes(u, name, content, offer)
      BY <3>1 DEF UploadFile, StoreChunk, ChunkPlaced, ChunkFails, NotifyUploadComplete,
                  ReceiveOk, GiveUp
    <3>3. upload'[u] = Stopped \/ upload'[u].placed = <<>>
      BY <3>2 DEF RequestUploadNodes, RequestFails, Inv, TypeOK
    <3> QED
      BY <1>3, <3>3 DEF PlacedKnown, Stopped, Active
  <2>2. CASE ~ChunkPlaced(u) /\ upload[u] # New
    <3>1. upload[u].pc \in {"placing", "notifying"}
      BY <2>2 DEF UploadFile, RequestUploadNodes, RequestFails, StoreChunk, Placing,
                  ChunkFails, NotifyUploadComplete, ReceiveOk, GiveUp
    <3>2. upload[u] \in Active
      BY <3>1, ActiveByPc DEF Inv
    <3>3. upload'[u].placed = upload[u].placed /\ upload'[u].epoch = upload[u].epoch
      <4>1. CASE StoreChunk(u)
        BY <3>2, <4>1 DEF StoreChunk, Inv, TypeOK, Active
      <4>2. CASE NotifyUploadComplete(u) \/ ReceiveOk(u) \/ GiveUp(u)
        BY <3>2, <4>2 DEF NotifyUploadComplete, ReceiveOk, GiveUp, Inv, TypeOK, Active
      <4>3. ~ChunkFails(u)
        BY <1>3 DEF ChunkFails, Inv, TypeOK, Stopped, Active
      <4> QED
        BY <2>2, <4>1, <4>2, <4>3 DEF UploadFile, RequestUploadNodes, RequestFails
    <3> QED
      BY <3>2, <3>3 DEF OfferedKnown, PlacedKnown
  <2>3. CASE ChunkPlaced(u)
    <3>1. upload[u] \in Active
      BY <2>3, ActiveByPc DEF ChunkPlaced, Placing, Inv
    <3> QED
      BY <2>3, <3>1, KnownByChunkPlaced DEF OfferedKnown
  <2> QED
    BY <2>1, <2>2, <2>3
<1>4. \A v \in Uploads : upload'[v] \in Active => PlacedKnown(upload'[v])
  BY <1>2, <1>3 DEF OfferedKnown
<1>5. \A v \in Uploads : upload'[v] \in Active => PlacedKnown(upload[v])'
  BY <1>1, <1>4 DEF PlacedKnown
<1> QED
  BY <1>1, <1>5 DEF OfferedKnown, ListedIdsKnown, Active, NodeList, Replicas

LEMMA KnownByStore ==
    ASSUME Inv, OfferedKnown, Store
    PROVE  OfferedKnown'
<1>1. UNCHANGED <<known, catalog, epoch>>
  BY StepOfStore
<1>2. ASSUME NEW v \in Uploads, upload'[v] \in Active
      PROVE  PlacedKnown(upload'[v])
  <2>1. upload[v] \in Active /\ upload'[v].placed = upload[v].placed
        /\ upload'[v].epoch = upload[v].epoch
    BY <1>2, ToldActive
  <2> QED
    BY <2>1 DEF OfferedKnown, PlacedKnown
<1>3. \A v \in Uploads : upload'[v] \in Active => PlacedKnown(upload[v])'
  BY <1>1, <1>2 DEF PlacedKnown
<1> QED
  BY <1>1, <1>3 DEF OfferedKnown, ListedIdsKnown, Active, NodeList, Replicas

LEMMA KnownByServer ==
    ASSUME Inv, OfferedKnown, Serve
    PROVE  OfferedKnown'
<1>0. /\ epoch \in Nat
      /\ \A u \in Uploads : upload[u] \in Active => upload[u].epoch \in Nat /\ upload[u].epoch <= epoch
  BY DEF Inv, TypeOK, ProgressSound, OfferSound, Active
<1>1. ASSUME NEW u \in Uploads, RegisterFile(u)
      PROVE  OfferedKnown'
  <2>1. Complete(upload[u]) /\ PlacedKnown(upload[u])
    BY <1>1 DEF RegisterFile, Inv, ProgressSound, OfferedKnown, Complete, Announced
  <2>2. UNCHANGED <<known, upload, epoch>>
    BY <1>1 DEF RegisterFile
  <2>3. /\ DOMAIN catalog' = DOMAIN catalog \cup {upload[u].name}
        /\ \A name \in DOMAIN catalog' :
              catalog'[name] = IF name = upload[u].name THEN FileOf(u) ELSE catalog[name]
    BY <1>1 DEF RegisterFile
  <2>4. /\ FileOf(u).epoch = upload[u].epoch
        /\ FileOf(u).epoch = epoch =>
              \A i \in DOMAIN FileOf(u).chunks :
                  \A r \in DOMAIN FileOf(u).chunks[i].nodes : FileOf(u).chunks[i].nodes[r] \in known
    <3>1. upload[u].content \in Seq(Chunks) /\ Len(upload[u].placed) = Len(upload[u].content)
      BY <2>1 DEF Complete, Announced, Active
    <3>2. /\ DOMAIN FileOf(u).chunks = 1 .. Len(upload[u].placed)
          /\ \A i \in 1 .. Len(upload[u].placed) :
                FileOf(u).chunks[i].nodes = upload[u].placed[i]
      BY <3>1 DEF FileOf
    <3>3. FileOf(u).epoch = upload[u].epoch
      BY DEF FileOf
    <3> QED
      BY <2>1, <3>2, <3>3 DEF PlacedKnown
  <2>5. \A name \in DOMAIN catalog' : catalog'[name].epoch <= epoch
    BY <1>0, <2>1, <2>3, <2>4 DEF OfferedKnown, Complete, Announced
  <2>6. \A name \in DOMAIN catalog' : catalog'[name].epoch = epoch =>
            \A i \in DOMAIN catalog'[name].chunks :
                \A r \in DOMAIN catalog'[name].chunks[i].nodes :
                    catalog'[name].chunks[i].nodes[r] \in known
    BY <2>3, <2>4 DEF OfferedKnown, ListedIdsKnown
  <2>7. \A v \in Uploads : upload'[v] \in Active => PlacedKnown(upload[v])'
    BY <2>2 DEF OfferedKnown, PlacedKnown
  <2> QED
    BY <2>2, <2>5, <2>6, <2>7 DEF OfferedKnown, ListedIdsKnown, Active, NodeList, Replicas
<1>2. ASSUME UNCHANGED <<catalog, upload, epoch>>, known \subseteq known'
      PROVE  OfferedKnown'
  BY <1>2 DEF OfferedKnown, ListedIdsKnown, PlacedKnown, Active, NodeList, Replicas
<1>3. CASE RestartServer
  <2>1. \A v \in Uploads : upload'[v] \in Active => PlacedKnown(upload[v])'
    BY <1>0, <1>3 DEF RestartServer, PlacedKnown
  <2>2. DOMAIN catalog' = {}
    BY <1>3 DEF RestartServer
  <2> QED
    BY <2>1, <2>2 DEF OfferedKnown, ListedIdsKnown, Active, NodeList, Replicas
<1> QED
  BY <1>1, <1>2, <1>3 DEF Serve, DropRequest, RegisterNode

(* The node ids listed with a file are ids the server can resolve, unless  *)
(* it was restarted between the offer and the registration.                *)
THEOREM ListedIdsAreKnown == Spec => []ListedIdsKnown
<1>1. Init => OfferedKnown
  BY DEF Init, OfferedKnown, ListedIdsKnown, New, Active
<1>2. Inv /\ OfferedKnown /\ [Next]_vars => OfferedKnown'
  <2> SUFFICES ASSUME Inv, OfferedKnown, [Next]_vars PROVE OfferedKnown'
    OBVIOUS
  <2>1. CASE UNCHANGED vars
    BY <2>1 DEF vars, OfferedKnown, ListedIdsKnown, PlacedKnown, Active, NodeList, Replicas
  <2> QED
    BY <2>1, KnownByUpload, KnownByStore, KnownByServer DEF Next
<1>3. OfferedKnown => ListedIdsKnown
  BY DEF OfferedKnown
<1> QED
  BY InvInit, InvInductive, <1>1, <1>2, <1>3, PTL DEF Spec

----------------------------------------------------------------------------
(* The proof that Upload implements FileStore.  Besides the invariants     *)
(* above it needs to know where the ids kept for a chunk come from: all of *)
(* them from the offer of one server, so that the running server knows all *)
(* of them or, being another one, none.                                    *)

(* Every chunk placed has a node of the offer for each replica.            *)
PlacedOnOffer(x) ==
    \A i \in 1 .. Len(x.placed) :
        /\ DOMAIN x.placed[i] = Replicas
        /\ \A r \in Replicas : \E k \in 1 .. Len(x.offer) : x.placed[i][r] = x.offer[k]

(* What an earlier server offered is unknown to this one.                  *)
OldOfferUnknown(x) ==
    x.epoch # epoch => \A k \in 1 .. Len(x.offer) : x.offer[k] \notin known

OneServer ==
    \A u \in Uploads : upload[u] \in Active =>
        PlacedOnOffer(upload[u]) /\ OldOfferUnknown(upload[u])

----------------------------------------------------------------------------

LEMMA PlacedByChunkPlaced ==
    ASSUME Inv, NEW u \in Uploads, upload[u] \in Active, PlacedOnOffer(upload[u]), ChunkPlaced(u)
    PROVE  PlacedOnOffer(upload'[u])
<1> DEFINE nodes == [r \in upload[u].acked |-> Selected(u)[r]]
<1> DEFINE offer == upload[u].offer
<1>1. /\ Placing(u) /\ Cardinality(upload[u].acked) >= ReplicationFactor
      /\ upload' = [upload EXCEPT ![u].placed = Append(@, nodes), ![u].tried = 0, ![u].acked = {}]
  BY DEF ChunkPlaced
<1>2. upload[u].acked = Replicas
  BY <1>1, AllAcked DEF Active
<1>3. /\ offer \in Seq(Ids) /\ Len(offer) >= ReplicationFactor
      /\ upload[u].placed \in Seq(NodeList)
  BY DEF Active, Inv, ProgressSound, OfferSound
<1>4. Current(u) \in Nat \ {0}
  BY <1>3 DEF Current
<1>5. \A r \in Replicas : \E k \in 1 .. Len(offer) : Selected(u)[r] = offer[k]
  BY <1>3, <1>4, SelectionDistinct DEF Selected
<1>6. DOMAIN nodes = Replicas /\ \A r \in Replicas : \E k \in 1 .. Len(offer) : nodes[r] = offer[k]
  BY <1>2, <1>5
<1> HIDE DEF nodes
<1>7. /\ upload'[u].placed = Append(upload[u].placed, nodes)
      /\ upload'[u].offer = offer
  BY <1>1 DEF Inv, TypeOK, Active
<1> HIDE DEF offer
<1>8. ASSUME NEW i \in 1 .. Len(upload'[u].placed)
      PROVE  /\ DOMAIN upload'[u].placed[i] = Replicas
             /\ \A r \in Replicas : \E k \in 1 .. Len(offer) : upload'[u].placed[i][r] = offer[k]
  <2>1. CASE i = Len(upload[u].placed) + 1
    <3>1. upload'[u].placed[i] = nodes
      BY <1>3, <1>7, <2>1
    <3> QED
      BY <1>6, <3>1
  <2>2. CASE i # Len(upload[u].placed) + 1
    <3>1. i \in 1 .. Len(upload[u].placed) /\ upload'[u].placed[i] = upload[u].placed[i]
      BY <1>3, <1>7, <2>2
    <3> QED
      BY <3>1 DEF PlacedOnOffer, offer
  <2> QED
    BY <2>1, <2>2
<1> QED
  BY <1>7, <1>8 DEF PlacedOnOffer

LEMMA OneServerByUpload ==
    ASSUME Inv, OneServer, NEW u \in Uploads, UploadFile(u)
    PROVE  OneServer'
<1>1. UNCHANGED <<known, epoch>>
  BY ClientStep
<1>2. \A v \in Uploads : upload'[v] = IF v = u THEN upload'[u] ELSE upload[v]
  BY DEF UploadFile, RequestUploadNodes, RequestFails, StoreChunk, ChunkPlaced, ChunkFails,
         NotifyUploadComplete, ReceiveOk, GiveUp, Inv, TypeOK
<1>3. ASSUME upload'[u] \in Active
      PROVE  PlacedOnOffer(upload'[u]) /\ OldOfferUnknown(upload'[u])
  <2>1. CASE upload[u] = New
    <3>1. ~Placing(u) /\ upload[u].pc = "new"
      BY <2>1 DEF Placing, New
    <3>2. RequestFails(u) \/ \E name \in Names, content \in Contents :
              \E offer \in Offers(content) : RequestUploadNodes(u, name, content, offer)
      BY <3>1 DEF UploadFile, StoreChunk, ChunkPlaced, ChunkFails, NotifyUploadComplete,
                  ReceiveOk, GiveUp
    <3>3. upload'[u] = Stopped \/ (upload'[u].placed = <<>> /\ upload'[u].epoch = epoch)
      BY <3>2 DEF RequestUploadNodes, RequestFails, Inv, TypeOK
    <3> QED
      BY <1>3, <3>3 DEF PlacedOnOffer, OldOfferUnknown, Stopped, Active
  <2>2. CASE upload[u] # New
    <3>1. upload[u].pc \in {"placing", "notifying"}
      BY <2>2 DEF UploadFile, RequestUploadNodes, RequestFails, StoreChunk, Placing, ChunkPlaced,
                  ChunkFails, NotifyUploadComplete, ReceiveOk, GiveUp
    <3>2. upload[u] \in Active
      BY <3>1, ActiveByPc DEF Inv
    <3>3. upload'[u].offer = upload[u].offer /\ upload'[u].epoch = upload[u].epoch
          /\ (ChunkPlaced(u) \/ upload'[u].placed = upload[u].placed)
      <4>1. CASE StoreChunk(u)
        BY <3>2, <4>1 DEF StoreChunk, Inv, TypeOK, Active
      <4>2. CASE NotifyUploadComplete(u) \/ ReceiveOk(u) \/ GiveUp(u)
        BY <3>2, <4>2 DEF NotifyUploadComplete, ReceiveOk, GiveUp, Inv, TypeOK, Active
      <4>3. CASE ChunkPlaced(u)
        BY <3>2, <4>3 DEF ChunkPlaced, Inv, TypeOK, Active
      <4>4. ~ChunkFails(u)
        BY <1>3 DEF ChunkFails, Inv, TypeOK, Stopped, Active
      <4> QED
        BY <2>2, <4>1, <4>2, <4>3, <4>4 DEF UploadFile, RequestUploadNodes, RequestFails
    <3>4. PlacedOnOffer(upload'[u])
      BY <3>2, <3>3, PlacedByChunkPlaced DEF OneServer, PlacedOnOffer
    <3> QED
      BY <3>2, <3>3, <3>4 DEF OneServer, OldOfferUnknown
  <2> QED
    BY <2>1, <2>2
<1>4. \A v \in Uploads : upload'[v] \in Active =>
          PlacedOnOffer(upload'[v]) /\ OldOfferUnknown(upload'[v])
  BY <1>2, <1>3 DEF OneServer
<1> QED
  BY <1>1, <1>4 DEF OneServer, PlacedOnOffer, OldOfferUnknown, Active, NodeList, Replicas

LEMMA OneServerByStore ==
    ASSUME Inv, OneServer, Store
    PROVE  OneServer'
<1>1. UNCHANGED <<known, epoch>>
  BY StepOfStore
<1>2. ASSUME NEW v \in Uploads, upload'[v] \in Active
      PROVE  PlacedOnOffer(upload'[v]) /\ OldOfferUnknown(upload'[v])
  <2>1. /\ upload[v] \in Active
        /\ upload'[v].placed = upload[v].placed
        /\ upload'[v].offer = upload[v].offer
        /\ upload'[v].epoch = upload[v].epoch
    BY <1>2, ToldActive
  <2> QED
    BY <2>1 DEF OneServer, PlacedOnOffer, OldOfferUnknown
<1> QED
  BY <1>1, <1>2 DEF OneServer, PlacedOnOffer, OldOfferUnknown, Active, NodeList, Replicas

LEMMA OneServerByServer ==
    ASSUME Inv, OneServer, Serve
    PROVE  OneServer'
<1>1. UNCHANGED upload
  BY DEF Serve, RegisterFile, DropRequest, RegisterNode, RestartServer
<1>2. ASSUME NEW v \in Uploads, upload[v] \in Active
      PROVE  /\ PlacedOnOffer(upload[v])
             /\ epoch' # upload[v].epoch =>
                    \A k \in 1 .. Len(upload[v].offer) : upload[v].offer[k] \notin known'
  <2>1. PlacedOnOffer(upload[v]) /\ OldOfferUnknown(upload[v])
        /\ \A k \in 1 .. Len(upload[v].offer) : upload[v].offer[k] \in DOMAIN owner
    BY <1>2 DEF OneServer, Inv, ProgressSound, OfferSound
  <2>2. CASE RestartServer
    BY <2>1, <2>2 DEF RestartServer
  <2>3. CASE \E h \in Hosts, id \in Ids : RegisterNode(h, id)
    BY <2>1, <2>3 DEF RegisterNode, OldOfferUnknown
  <2>4. CASE \E u \in Uploads : RegisterFile(u) \/ DropRequest(u)
    BY <2>1, <2>4 DEF RegisterFile, DropRequest, OldOfferUnknown
  <2> QED
    BY <2>2, <2>3, <2>4, <2>1 DEF Serve
<1>3. \A v \in Uploads : upload'[v] \in Active =>
          PlacedOnOffer(upload[v])' /\ OldOfferUnknown(upload[v])'
  BY <1>1, <1>2 DEF PlacedOnOffer, OldOfferUnknown
<1> QED
  BY <1>3 DEF OneServer, Active, NodeList, Replicas

LEMMA OneServerHolds == Spec => []OneServer
<1>1. Init => OneServer
  BY DEF Init, OneServer, New, Active
<1>2. Inv /\ OneServer /\ [Next]_vars => OneServer'
  <2> SUFFICES ASSUME Inv, OneServer, [Next]_vars PROVE OneServer'
    OBVIOUS
  <2>1. CASE UNCHANGED vars
    <3>1. \A v \in Uploads : upload'[v] \in Active =>
              PlacedOnOffer(upload[v])' /\ OldOfferUnknown(upload[v])'
      BY <2>1 DEF vars, OneServer, PlacedOnOffer, OldOfferUnknown
    <3> QED
      BY <3>1 DEF OneServer, Active, NodeList, Replicas
  <2> QED
    BY <2>1, OneServerByUpload, OneServerByStore, OneServerByServer DEF Next
<1> QED
  BY InvInit, InvInductive, <1>1, <1>2, PTL DEF Spec

----------------------------------------------------------------------------

(* The step that registers a file publishes it: its ids come from one      *)
(* server and its chunks are where it says.                                *)
LEMMA RegistrationPublishes ==
    ASSUME Inv, HeldInv, OneServer, NEW u \in Uploads, RegisterFile(u)
    PROVE  Files!StoreNext
<1> DEFINE x == upload[u]
<1> DEFINE ids == IF x.epoch = epoch THEN known ELSE DOMAIN owner \ known
<1>1. /\ x \in Active /\ Len(x.placed) = Len(x.content)
      /\ Kept(x) /\ PlacedOnOffer(x) /\ OldOfferUnknown(x) /\ OfferSound(x)
  BY DEF RegisterFile, Inv, ProgressSound, Complete, Announced, HeldInv, OneServer
<1>2. /\ x.name \in Names /\ x.content \in Contents /\ x.content \in Seq(Chunks)
      /\ x.placed \in Seq(NodeList)
      /\ DOMAIN x.content = 1 .. Len(x.content) /\ DOMAIN x.placed = 1 .. Len(x.content)
  <2>1. x.name \in Names /\ x.content \in Contents /\ x.placed \in Seq(NodeList)
    BY <1>1 DEF Active
  <2>2. x.content \in Seq(Chunks)
    BY <2>1, UploadAssumption
  <2>3. PICK content \in Seq(Chunks), placed \in Seq(NodeList) : content = x.content /\ placed = x.placed
    BY <2>1, <2>2
  <2>4. DOMAIN content = 1 .. Len(content) /\ DOMAIN placed = 1 .. Len(placed)
    OBVIOUS
  <2> QED
    BY <1>1, <2>1, <2>2, <2>3, <2>4
<1>3. \A k \in 1 .. Len(x.offer) : x.offer[k] \in ids
  BY <1>1 DEF OfferSound, OldOfferUnknown
<1> HIDE DEF ids
<1>4. ASSUME NEW i \in 1 .. Len(x.content)
      PROVE  x.placed[i] \in Files!Placements(ids) /\ Files!Held(x.content[i], x.placed[i])
  <2>1. DOMAIN x.placed[i] = Replicas /\ \A r \in Replicas : x.placed[i][r] \in ids
    BY <1>1, <1>3 DEF PlacedOnOffer
  <2>2. x.placed[i] \in [Replicas -> ids]
    <3>1. x.placed[i] \in NodeList
      BY <1>2
    <3> QED
      BY <2>1, <3>1 DEF NodeList
  <2>3. Holds(x.placed[i], x.content[i])
    BY <1>1 DEF Kept
  <2> QED
    BY <2>1, <2>2, <2>3 DEF Holds, HasStored, Files!Placements, Files!Held, Replicas
<1>5. x.placed \in [DOMAIN x.content -> Files!Placements(ids)]
  BY <1>2, <1>4
<1>6. ids \in {known, DOMAIN owner \ known}
  BY DEF ids
<1>7. PICK name \in Names, content \in Contents, from \in {known, DOMAIN owner \ known} :
          \E p \in [DOMAIN content -> Files!Placements(from)] :
              name = x.name /\ content = x.content /\ from = ids /\ p = x.placed
  BY <1>2, <1>5, <1>6
<1>8. PICK placed \in [DOMAIN content -> Files!Placements(from)] :
          name = x.name /\ content = x.content /\ from = ids /\ placed = x.placed
  BY <1>7
<1>9. Files!Publish(name, content, from, placed)
  <2>1. /\ UNCHANGED <<owner, known, disk, torn>>
        /\ catalog' = [n \in DOMAIN catalog \cup {name} |->
                          IF n = name THEN FileOf(u) ELSE catalog[n]]
    BY <1>8 DEF RegisterFile, storage
  <2>2. FileOf(u).chunks = [i \in DOMAIN content |-> [hash |-> content[i], nodes |-> placed[i]]]
    BY <1>8 DEF FileOf
  <2>3. [n \in DOMAIN catalog' |-> catalog'[n].chunks]
        = [n \in DOMAIN catalog \cup {name} |->
              IF n = name
              THEN [i \in DOMAIN content |-> [hash |-> content[i], nodes |-> placed[i]]]
              ELSE catalog[n].chunks]
    BY <2>1, <2>2
  <2>4. \A i \in DOMAIN content : Files!Held(content[i], placed[i])
    BY <1>2, <1>4, <1>8
  <2> HIDE DEF x
  <2> QED
    BY <2>1, <2>3, <2>4 DEF Files!Publish
<1> QED
  BY <1>9 DEF Files!StoreNext

LEMMA StoringWrites ==
    ASSUME Inv, Store
    PROVE  [Files!StoreNext]_(Files!storeVars)
<1>1. PICK q \in requests : (\E acked \in BOOLEAN : ChunkStored(q, acked)) \/ ChunkTorn(q) \/ ChunkRefused(q)
  BY DEF Store
<1>2. q.host \in Hosts /\ q.hash \in Chunks /\ UNCHANGED <<owner, known, catalog>>
  BY StepOfStore DEF Inv, TypeOK, Request
<1>3. CASE \E acked \in BOOLEAN : ChunkStored(q, acked)
  <2>1. Files!Write(q.host, q.hash)
    BY <1>2, <1>3 DEF ChunkStored, Files!Write
  <2> QED
    BY <1>2, <2>1 DEF Files!StoreNext
<1>4. CASE ChunkTorn(q) /\ q.hash \in disk[q.host]
  <2>1. Files!Empty(q.host, q.hash)
    BY <1>2, <1>4 DEF ChunkTorn, Files!Empty
  <2> QED
    BY <1>2, <2>1 DEF Files!StoreNext
<1>5. CASE ChunkTorn(q) /\ q.hash \notin disk[q.host]
  <2>1. disk' = disk /\ torn' = torn
    BY <1>2, <1>5 DEF ChunkTorn, Inv, TypeOK
  <2> QED
    BY <1>2, <2>1 DEF Files!storeVars
<1>6. CASE ChunkRefused(q)
  BY <1>2, <1>6 DEF ChunkRefused, Files!storeVars
<1> QED
  BY <1>1, <1>3, <1>4, <1>5, <1>6

(* Uploads, machines and the metadata server together implement FileStore, *)
(* for any replication factor, any number of concurrent uploads and any    *)
(* failures of theirs: a file appears in one step, whole, with copies all  *)
(* stored, and with ids the server can resolve all or none of; a copy is   *)
(* lost only where the chunk is stored once more.                          *)
THEOREM UploadImplementsFileStore == Spec => ImplementsFileStore
<1>1. Init => Files!StoreInit
  BY DEF Init, Files!StoreInit
<1>2. Inv /\ HeldInv /\ OneServer /\ [Next]_vars => [Files!StoreNext]_(Files!storeVars)
  <2> SUFFICES ASSUME Inv, HeldInv, OneServer, [Next]_vars
               PROVE  [Files!StoreNext]_(Files!storeVars)
    OBVIOUS
  <2>1. ASSUME UNCHANGED <<owner, known, disk, torn, catalog>>
        PROVE  UNCHANGED Files!storeVars
    BY <2>1 DEF Files!storeVars
  <2>2. ASSUME NEW u \in Uploads, UploadFile(u)
        PROVE  [Files!StoreNext]_(Files!storeVars)
    BY <2>1, <2>2
    DEF UploadFile, RequestUploadNodes, RequestFails, StoreChunk, ChunkPlaced, ChunkFails,
        NotifyUploadComplete, ReceiveOk, GiveUp, server, storage
  <2>3. ASSUME NEW u \in Uploads, RegisterFile(u) \/ DropRequest(u)
        PROVE  [Files!StoreNext]_(Files!storeVars)
    BY <2>1, <2>3, RegistrationPublishes DEF DropRequest, storage
  <2>4. ASSUME NEW h \in Hosts, NEW id \in Ids, RegisterNode(h, id)
        PROVE  Files!StoreNext
    BY <2>4 DEF RegisterNode, storage, Files!StoreNext, Files!Join
  <2>5. CASE RestartServer
    BY <2>5 DEF RestartServer, storage, Files!StoreNext, Files!Forget
  <2>6. CASE UNCHANGED vars
    BY <2>1, <2>6 DEF vars, storage
  <2> QED
    BY <2>2, <2>3, <2>4, <2>5, <2>6, StoringWrites DEF Next, Serve
<1>3. Spec => []HeldInv
  BY InvInit, InvInductive, HeldInit, HeldInductive, PTL DEF Spec
<1> QED
  BY InvInit, InvInductive, OneServerHolds, <1>1, <1>2, <1>3, PTL
  DEF Spec, ImplementsFileStore, Files!StoreSpec
=============================================================================
