------------------------------- MODULE Upload -------------------------------
(***************************************************************************)
(* An upload from end to end: UploadManager and the requests it makes      *)
(* (client/src/core/upload_manager.cpp, metadata_client.cpp,               *)
(* node_client.cpp), the storage nodes, and the metadata server that       *)
(* offers nodes and registers files.                                       *)
(*                                                                         *)
(* Several uploads run at once.  Any call may fail, a reply may be lost    *)
(* after the work was done, a chunk may be stored and a registration       *)
(* processed after its client gave up, storage nodes restart under a new   *)
(* id and the metadata server restarts with empty memory.  A node that     *)
(* stores a chunk empties the copy it holds before it writes.  Which of    *)
(* the known nodes are offered is NodeRegistry's concern: here it may be   *)
(* any of them.                                                            *)
(***************************************************************************)
EXTENDS Integers, Sequences, FiniteSets

CONSTANTS
    Uploads,            \* the calls of UploadFile
    Names,              \* remote file names
    Chunks,             \* chunk ids: what a chunk holds, by its hash
    Contents,           \* local files, as the sequences of their chunks
    Hosts,              \* storage machines
    Ids,                \* node ids, never drawn twice
    ReplicationFactor,  \* REPLICATION_FACTOR of client and server
    MaxRestarts         \* bound of the restarts of the metadata server

ASSUME UploadAssumption ==
    /\ Contents \subseteq Seq(Chunks) \ {<<>>}
    /\ ReplicationFactor \in Nat \ {0}
    /\ MaxRestarts \in Nat

VARIABLES
    owner,    \* the machine behind every id ever handed out (history)
    known,    \* the ids the running metadata server has registered
    disk,     \* the chunks each machine holds, whole
    torn,     \* copies it held and emptied, and has not stored since (history)
    requests, \* the STORE_CHUNKs the nodes have received and not answered
    catalog,  \* the registered files, a function from the names in use
    upload,   \* what each UploadFile call is in the middle of
    inbox,    \* uploads whose UPLOAD_COMPLETE the server has yet to process
    answered, \* the epoch in which it answered OK, 0 if it has not
    epoch     \* the number of starts of the metadata server (history)

server == <<known, catalog, inbox, answered, epoch>>
storage == <<disk, torn, requests>>
vars == <<owner, known, storage, catalog, upload, inbox, answered, epoch>>

Replicas == 1 .. ReplicationFactor

(* The node ids listed with a chunk, by the replica they hold.             *)
NodeList == UNION {[S -> Ids] : S \in SUBSET Replicas}
Entry    == [hash : Chunks, nodes : NodeList]
File     == [chunks : Seq(Entry), epoch : Nat]

New    == [pc |-> "new"]
Active == [pc : {"placing", "notifying", "done", "failed"},
           name : Names, content : Contents, offer : Seq(Ids), epoch : Nat,
           placed : Seq(NodeList), tried : 0 .. ReplicationFactor, acked : SUBSET Replicas]
Stopped == [pc |-> "stopped"]

(* A STORE_CHUNK: from which call of which upload, and where it stores     *)
(* what.                                                                   *)
Request == [upload : Uploads, index : Nat, replica : Replicas, host : Hosts, hash : Chunks]

----------------------------------------------------------------------------

(* SelectNodesForChunk: round robin over the offered nodes.  Chunks count  *)
(* from 0 in the code, from 1 here.                                        *)
SelectNodesForChunk(offer, i) ==
    [r \in Replicas |->
        offer[((((i - 1) * ReplicationFactor) + (r - 1)) % Len(offer)) + 1]]

(* The answers to REQUEST_UPLOAD the client goes on with: a list of        *)
(* different nodes, at least ReplicationFactor and at most that many per   *)
(* chunk.                                                                  *)
Offers(content) ==
    UNION {{offer \in [1 .. n -> known] :
               \A i, j \in 1 .. n : i # j => offer[i] # offer[j]} :
           n \in ReplicationFactor .. ReplicationFactor * Len(content)}

(* The chunk upload u is at, and the nodes chosen for it.                  *)
Current(u)  == Len(upload[u].placed) + 1
Selected(u) == SelectNodesForChunk(upload[u].offer, Current(u))

(* Slip: all offered nodes are listed with a chunk.  (A slip is a change   *)
(* the code could suffer; it serves to test the properties at the end.)    *)
FileOfOfferedNodes(u) ==
    [chunks |-> [i \in DOMAIN upload[u].content |->
                    [hash |-> upload[u].content[i], nodes |-> upload[u].offer]],
     epoch |-> upload[u].epoch]

FileOf(u) ==
    [chunks |-> [i \in DOMAIN upload[u].content |->
                    [hash |-> upload[u].content[i], nodes |-> upload[u].placed[i]]],
     epoch |-> upload[u].epoch]

(* Upload u is in the call that sent the request.                          *)
InCall(q) ==
    /\ upload[q.upload].pc = "placing"
    /\ q.index = Current(q.upload) /\ q.replica = upload[q.upload].tried

Placing(u) == upload[u].pc = "placing" /\ Current(u) <= Len(upload[u].content)

----------------------------------------------------------------------------

Init ==
    /\ owner = [id \in {} |-> {}]
    /\ known = {}
    /\ disk = [h \in Hosts |-> {}]
    /\ torn = {}
    /\ requests = {}
    /\ catalog = [name \in {} |-> {}]
    /\ upload = [u \in Uploads |-> New]
    /\ inbox = {}
    /\ answered = [u \in Uploads |-> 0]
    /\ epoch = 1

(* Slip: a machine that registers again loses its old ids.                 *)
RegisterNodeOnce(h, id) ==
    /\ id \notin DOMAIN owner
    /\ owner' = [i \in DOMAIN owner \cup {id} |-> IF i = id THEN h ELSE owner[i]]
    /\ known' = {i \in known : owner[i] # h} \cup {id}
    /\ UNCHANGED <<storage, catalog, upload, inbox, answered, epoch>>

(* REGISTER_NODE: a storage node that starts, or starts again over the     *)
(* same directory, gets a new id.                                          *)
RegisterNode(h, id) ==
    /\ id \notin DOMAIN owner
    /\ owner' = [i \in DOMAIN owner \cup {id} |-> IF i = id THEN h ELSE owner[i]]
    /\ known' = known \cup {id}
    /\ UNCHANGED <<storage, catalog, upload, inbox, answered, epoch>>

(* The file is split and REQUEST_UPLOAD answered.                          *)
RequestUploadNodes(u, name, content, offer) ==
    /\ upload[u] = New
    /\ offer \in Offers(content)
    /\ upload' = [upload EXCEPT ![u] =
                    [pc |-> "placing", name |-> name, content |-> content,
                     offer |-> offer, epoch |-> epoch,
                     placed |-> <<>>, tried |-> 0, acked |-> {}]]
    /\ UNCHANGED <<owner, storage, server>>

(* The file cannot be read or is empty, the request fails, or too few      *)
(* nodes come back.                                                        *)
RequestFails(u) ==
    /\ upload[u] = New
    /\ upload' = [upload EXCEPT ![u] = Stopped]
    /\ UNCHANGED <<owner, storage, server>>

(* The next StoreChunk of the loop over the selected nodes.  The call      *)
(* before it has returned, true if its answer was received, false if it    *)
(* was lost, the connection broke or the time limit ended; its node may    *)
(* still be at work.                                                       *)
StoreChunk(u) ==
    LET r == upload[u].tried + 1
    IN  /\ Placing(u)
        /\ r \in Replicas
        /\ upload' = [upload EXCEPT ![u].tried = r]
        /\ requests' = requests \cup
               {[upload |-> u, index |-> Current(u), replica |-> r,
                 host |-> owner[Selected(u)[r]], hash |-> upload[u].content[Current(u)]]}
        /\ UNCHANGED <<owner, disk, torn, server>>

(* WriteFile: the node opens the chunk's file, which empties it, writes it *)
(* whole and closes it, all the while alone with the file.  The answer OK  *)
(* is received or not.                                                     *)
ChunkStored(q, acked) ==
    /\ q \in requests
    /\ acked => InCall(q)
    /\ requests' = requests \ {q}
    /\ disk' = [disk EXCEPT ![q.host] = @ \cup {q.hash}]
    /\ torn' = torn \ {<<q.host, q.hash>>}
    /\ upload' = IF acked
                 THEN [upload EXCEPT ![q.upload].acked = @ \cup {q.replica}]
                 ELSE upload
    /\ UNCHANGED <<owner, server>>

(* The file was opened, and the write fails or the node stops: the file    *)
(* stays empty or cut, whatever it held before.                            *)
ChunkTorn(q) ==
    /\ q \in requests
    /\ requests' = requests \ {q}
    /\ disk' = [disk EXCEPT ![q.host] = @ \ {q.hash}]
    /\ torn' = IF q.hash \in disk[q.host] THEN torn \cup {<<q.host, q.hash>>} ELSE torn
    /\ UNCHANGED <<owner, upload, server>>

(* The request does not arrive or is cut short, the file cannot be opened, *)
(* as when another thread has it open, or the node stops: no file changes. *)
ChunkRefused(q) ==
    /\ q \in requests
    /\ requests' = requests \ {q}
    /\ UNCHANGED <<owner, disk, torn, upload, server>>

(* Slip: one answer is enough.                                             *)
OneCopyIsEnough(u) ==
    /\ Placing(u)
    /\ upload[u].tried = ReplicationFactor
    /\ Cardinality(upload[u].acked) >= 1
    /\ upload' = [upload EXCEPT
                    ![u].placed = Append(@, [r \in upload[u].acked |-> Selected(u)[r]]),
                    ![u].tried = 0,
                    ![u].acked = {}]
    /\ UNCHANGED <<owner, storage, server>>

(* UploadChunk returns true: the ids of the nodes that answered are kept.  *)
ChunkPlaced(u) ==
    /\ Placing(u)
    /\ upload[u].tried = ReplicationFactor
    /\ Cardinality(upload[u].acked) >= ReplicationFactor
    /\ upload' = [upload EXCEPT
                    ![u].placed = Append(@, [r \in upload[u].acked |-> Selected(u)[r]]),
                    ![u].tried = 0,
                    ![u].acked = {}]
    /\ UNCHANGED <<owner, storage, server>>

(* UploadChunk returns false: the upload is abandoned, what was stored     *)
(* stays where it is.                                                      *)
ChunkFails(u) ==
    /\ Placing(u)
    /\ upload[u].tried = ReplicationFactor
    /\ Cardinality(upload[u].acked) < ReplicationFactor
    /\ upload' = [upload EXCEPT ![u] = Stopped]
    /\ UNCHANGED <<owner, storage, server>>

(* NotifyUploadComplete sends every chunk with its node ids in one request.*)
NotifyUploadComplete(u) ==
    /\ upload[u].pc = "placing"
    /\ Current(u) > Len(upload[u].content)
    /\ upload' = [upload EXCEPT ![u].pc = "notifying"]
    /\ inbox' = inbox \cup {u}
    /\ UNCHANGED <<owner, known, storage, catalog, answered, epoch>>

(* Slip: the chunks of a file registered before are kept.                  *)
RegisterMerges(u) ==
    /\ u \in inbox
    /\ inbox' = inbox \ {u}
    /\ catalog' = [name \in DOMAIN catalog \cup {upload[u].name} |->
                      IF name # upload[u].name THEN catalog[name]
                      ELSE IF name \notin DOMAIN catalog THEN FileOf(u)
                      ELSE [FileOf(u) EXCEPT !.chunks = catalog[name].chunks \o @]]
    /\ answered' = [answered EXCEPT ![u] = epoch]
    /\ UNCHANGED <<owner, known, storage, upload, epoch>>

(* The server reads the whole request and registers the file.              *)
RegisterFile(u) ==
    /\ u \in inbox
    /\ inbox' = inbox \ {u}
    /\ catalog' = [name \in DOMAIN catalog \cup {upload[u].name} |->
                      IF name = upload[u].name THEN FileOf(u) ELSE catalog[name]]
    /\ answered' = [answered EXCEPT ![u] = epoch]
    /\ UNCHANGED <<owner, known, storage, upload, epoch>>

(* Slip: a request that cannot be read is answered like the others.        *)
DropAnswersOk(u) ==
    /\ u \in inbox
    /\ inbox' = inbox \ {u}
    /\ answered' = [answered EXCEPT ![u] = epoch]
    /\ UNCHANGED <<owner, known, storage, catalog, upload, epoch>>

(* The request is cut short or too long: READ_ERROR, nothing is registered.*)
DropRequest(u) ==
    /\ u \in inbox
    /\ inbox' = inbox \ {u}
    /\ UNCHANGED <<owner, known, storage, catalog, upload, answered, epoch>>

ReceiveOk(u) ==
    /\ upload[u].pc = "notifying"
    /\ answered[u] # 0
    /\ upload' = [upload EXCEPT ![u].pc = "done"]
    /\ UNCHANGED <<owner, storage, server>>

(* No connection, an error, or no answer in time; the server may still     *)
(* hold the request, or have registered the file.                          *)
GiveUp(u) ==
    /\ \/ upload[u].pc = "notifying"
       \/ upload[u].pc = "placing" /\ Current(u) > Len(upload[u].content)
    /\ upload' = [upload EXCEPT ![u].pc = "failed"]
    /\ UNCHANGED <<owner, storage, server>>

(* The metadata server keeps everything in memory.                         *)
RestartServer ==
    /\ epoch <= MaxRestarts
    /\ epoch' = epoch + 1
    /\ known' = {}
    /\ catalog' = [name \in {} |-> {}]
    /\ inbox' = {}
    /\ UNCHANGED <<owner, storage, upload, answered>>

UploadFile(u) ==
    \/ \E name \in Names, content \in Contents : \E offer \in Offers(content) :
          RequestUploadNodes(u, name, content, offer)
    \/ RequestFails(u)
    \/ StoreChunk(u)
    \/ ChunkPlaced(u)
    \/ ChunkFails(u)
    \/ NotifyUploadComplete(u)
    \/ ReceiveOk(u)
    \/ GiveUp(u)

Serve ==
    \/ \E u \in Uploads : RegisterFile(u) \/ DropRequest(u)
    \/ \E h \in Hosts, id \in Ids : RegisterNode(h, id)
    \/ RestartServer

Store ==
    \E q \in requests :
        \/ \E acked \in BOOLEAN : ChunkStored(q, acked)
        \/ ChunkTorn(q)
        \/ ChunkRefused(q)

Next == Serve \/ Store \/ \E u \in Uploads : UploadFile(u)

Spec == Init /\ [][Next]_vars

----------------------------------------------------------------------------

(* The types of the variables.                                             *)
TypeOK ==
    /\ DOMAIN owner \subseteq Ids
    /\ owner \in [DOMAIN owner -> Hosts]
    /\ known \subseteq DOMAIN owner
    /\ disk \in [Hosts -> SUBSET Chunks]
    /\ torn \subseteq Hosts \X Chunks
    /\ requests \subseteq Request
    /\ DOMAIN catalog \subseteq Names
    /\ catalog \in [DOMAIN catalog -> File]
    /\ upload \in [Uploads -> {New, Stopped} \cup Active]
    /\ inbox \subseteq Uploads
    /\ answered \in [Uploads -> Nat]
    /\ epoch \in Nat

(* The machine has stored the chunk, and has not lost it but by storing it *)
(* once more.                                                              *)
HasStored(h, hash) == hash \in disk[h] \/ <<h, hash>> \in torn

(* A list of nodes names a different node for each replica, and all of     *)
(* them have stored the chunk.                                             *)
Holds(nodes, hash) ==
    /\ Replicas \subseteq DOMAIN nodes
    /\ \A r, s \in Replicas : r # s => nodes[r] # nodes[s]
    /\ \A r \in DOMAIN nodes : nodes[r] \in DOMAIN owner /\ HasStored(owner[nodes[r]], hash)

(* Every chunk of every file a client can find was stored by               *)
(* ReplicationFactor nodes with different ids, whatever calls failed,      *)
(* whatever replies were lost and however uploads of the same name         *)
(* overlapped; a copy is missing only where a later request to store the   *)
(* same chunk at the same machine has emptied it.                          *)
CatalogReplicated ==
    \A name \in DOMAIN catalog : \A i \in DOMAIN catalog[name].chunks :
        Holds(catalog[name].chunks[i].nodes, catalog[name].chunks[i].hash)

(* A file of the catalogue is the file of one upload of that name from its *)
(* first chunk to its last, never a part of it or a mix of two.            *)
CatalogWhole ==
    \A name \in DOMAIN catalog : \E u \in Uploads :
        /\ upload[u] \in Active
        /\ upload[u].name = name
        /\ upload[u].content = [i \in DOMAIN catalog[name].chunks |->
                                    catalog[name].chunks[i].hash]

(* After UploadFile returned true the name stays in the catalogue for as   *)
(* long as the server that answered runs.                                  *)
VisibleUntilRestart ==
    \A u \in Uploads :
        upload[u].pc = "done" /\ answered[u] = epoch => upload[u].name \in DOMAIN catalog

(* The server can resolve the node ids it lists with a file, unless it was *)
(* restarted between the offer and the registration.                       *)
ListedIdsKnown ==
    \A name \in DOMAIN catalog : catalog[name].epoch = epoch =>
        \A i \in DOMAIN catalog[name].chunks :
            \A r \in DOMAIN catalog[name].chunks[i].nodes :
                catalog[name].chunks[i].nodes[r] \in known

(* The catalogue without the history kept in it.                           *)
Files == INSTANCE FileStore WITH
            catalog <- [name \in DOMAIN catalog |-> catalog[name].chunks]

(* The uploads, the servers and the machines implement FileStore: a file   *)
(* appears whole, replicated, and with ids that are all resolved or all    *)
(* unknown to the server.                                                  *)
ImplementsFileStore == Files!StoreSpec

(* What upload_manager.h:18 says of REPLICATION_FACTOR: two copies of each *)
(* chunk.  Two copies are on two machines, a machine has one per chunk.    *)
CopiesOnDistinctMachines ==
    \A name \in DOMAIN catalog : \A i \in DOMAIN catalog[name].chunks :
        LET nodes == catalog[name].chunks[i].nodes
        IN  Cardinality({owner[nodes[r]] : r \in DOMAIN nodes}) >= ReplicationFactor
=============================================================================
