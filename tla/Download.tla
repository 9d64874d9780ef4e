------------------------------ MODULE Download ------------------------------
(***************************************************************************)
(* Downloads from end to end: DownloadManager and the requests it makes    *)
(* (client/src/core/download_manager.cpp, metadata_client.cpp,             *)
(* node_client.cpp, chunk_processor.cpp) against the answer of the         *)
(* metadata server (HandleRequestDownload) and the storage nodes.          *)
(*                                                                         *)
(* The calls of DownloadFile share one MetadataClient and its cache of     *)
(* node addresses, and may run at once.  Files are replaced and the server *)
(* restarts under them, replies are cut anywhere, nodes fail to answer.    *)
(***************************************************************************)
EXTENDS FileStore, FiniteSets, SequencesExt

CONSTANTS
    Downloads,   \* the calls of DownloadFile
    Garbage,     \* what is left of a word or of data that was cut or changed
    Restored     \* bound: the copies a machine may empty to store them again

(* Three ids in a row would make the client take the first two for a node  *)
(* and its address; REPLICATION_FACTOR is 2.                               *)
ASSUME DownloadAssumption ==
    /\ ReplicationFactor \in 1 .. 2
    /\ Contents \subseteq Seq(Chunks)

VARIABLES
    cache,      \* MetadataClient::nodeCache, a function from the ids in it
    download,   \* what each DownloadFile call is in the middle of
    published,  \* every file there has been: name and chunks (history)
    spoilt      \* ids whose address a cut reply has put in the cache (history)

history == <<published, spoilt>>
vars == <<storeVars, cache, download, history>>
client == <<cache, download>>

(* A line of the reply ends in words: an id, followed by its ip and port   *)
(* if the server knows it.                                                 *)
Ip(h)      == <<h, "ip">>
Port(h)    == <<h, "port">>
Address(h) == <<Ip(h), Port(h)>>
Word       == Ids \cup {Garbage} \cup UNION {{Ip(h), Port(h)} : h \in Hosts}

EntryType == [hash : Chunks, nodes : [1 .. ReplicationFactor -> Ids]]
ReplyLine == [entry : EntryType, words : Seq(Word), resolved : BOOLEAN]

New == [pc |-> "new"]
Refused == [pc |-> "refused"]
Answering == [pc : {"answering"}, name : Names, view : Seq(EntryType), lines : Seq(ReplyLine)]
Wanted    == [entry : EntryType, ids : Seq(Word), resolved : BOOLEAN]
Fetching  == [pc : {"fetching", "done", "failed"}, name : Names, whole : BOOLEAN,
              saved : Seq(Chunks), rest : Seq(Wanted), tried : Nat, asked : SUBSET Ids]

----------------------------------------------------------------------------

NoData == "no data"

(* What HandleRequestDownload writes after the hash, index and size.       *)
Words(nodes) ==
    FlattenSeq([r \in 1 .. ReplicationFactor |->
                   IF nodes[r] \in known
                   THEN <<nodes[r], Ip(owner[nodes[r]]), Port(owner[nodes[r]])>>
                   ELSE <<nodes[r]>>])

LineOf(entry) ==
    [entry |-> entry, words |-> Words(entry.nodes),
     resolved |-> \A r \in 1 .. ReplicationFactor : entry.nodes[r] \in known]

(* What is left of a line when the connection closes in it; with no word   *)
(* after the size the client skips the line.                               *)
CutShort(line) ==
    {[line EXCEPT !.words = SubSeq(@, 1, k)] : k \in 1 .. Len(line.words)}
    \cup {[line EXCEPT !.words = Append(SubSeq(@, 1, k), Garbage)] :
             k \in 0 .. Len(line.words) - 1}

(* RequestDownload takes the words by threes, as id, ip and port, and what *)
(* remains as ids.  The third word is then never an id, and std::stoi      *)
(* reads the digits that any other begins with.                            *)
Triples(words) == Len(words) \div 3

ListedIds(words) ==
    [k \in 1 .. Triples(words) |-> words[(3 * k) - 2]]
        \o SubSeq(words, (3 * Triples(words)) + 1, Len(words))

Learned(words) ==
    [id \in {words[(3 * k) - 2] : k \in 1 .. Triples(words)} |->
        LET k == CHOOSE i \in 1 .. Triples(words) : words[(3 * i) - 2] = id
        IN  <<words[(3 * k) - 1], words[3 * k]>>]

WantedBy(line) ==
    [entry |-> line.entry, ids |-> ListedIds(line.words), resolved |-> line.resolved]

(* The cache once all lines of a reply are parsed: the last line with an   *)
(* address overwrites what earlier ones, or earlier replies, left.         *)
Teaching(id, lines) == {i \in DOMAIN lines : id \in DOMAIN Learned(lines[i].words)}

CacheAfter(lines) ==
    [id \in DOMAIN cache \cup UNION {DOMAIN Learned(lines[i].words) : i \in DOMAIN lines} |->
        IF Teaching(id, lines) = {}
        THEN cache[id]
        ELSE Learned(lines[Max(Teaching(id, lines))].words)[id]]

IsFetching(d) == download[d].pc = "fetching" /\ download[d].rest # <<>>
Current(d)    == Head(download[d].rest)

----------------------------------------------------------------------------

Init ==
    /\ StoreInit
    /\ cache = [id \in {} |-> {}]
    /\ download = [d \in Downloads |-> New]
    /\ published = {}
    /\ spoilt = {}

(* REQUEST_DOWNLOAD reaches the server, which looks the file up.           *)
RequestDownload(d, name) ==
    /\ download[d] = New
    /\ name \in DOMAIN catalog
    /\ download' = [download EXCEPT ![d] =
                      [pc |-> "answering", name |-> name, view |-> catalog[name], lines |-> <<>>]]
    /\ UNCHANGED <<storeVars, cache, history>>

(* No connection, or no such file.                                         *)
RequestFails(d) ==
    /\ download[d] = New
    /\ download' = [download EXCEPT ![d] = Refused]
    /\ UNCHANGED <<storeVars, cache, history>>

(* The server writes the next line, from the chunks it found or from those *)
(* that replaced them (see FileCatalog).                                   *)
WriteLine(d) ==
    /\ download[d].pc = "answering"
    /\ LET i == Len(download[d].lines) + 1
       IN  /\ i \in DOMAIN download[d].view
           /\ \E source \in {download[d].view, catalog[download[d].name]} :
                 /\ i \in DOMAIN source
                 /\ download' = [download EXCEPT ![d].lines = Append(@, LineOf(source[i]))]
    /\ UNCHANGED <<storeVars, cache, history>>

(* The client has its reply, whole or not, and parses it.                  *)
Parse(d, lines, whole) ==
    /\ lines # <<>>
    /\ cache' = CacheAfter(lines)
    /\ spoilt' = spoilt \cup {id \in DOMAIN cache' : Garbage \in Range(cache'[id])}
    /\ download' = [download EXCEPT ![d] =
                      [pc |-> "fetching", name |-> download[d].name, whole |-> whole,
                       saved |-> <<>>, rest |-> [i \in DOMAIN lines |-> WantedBy(lines[i])],
                       tried |-> 0, asked |-> {}]]
    /\ UNCHANGED <<storeVars, published>>

(* The reply is sent when it is complete.                                  *)
IsSent(d) ==
    download[d].pc = "answering" /\ Len(download[d].lines) = Len(download[d].view)

ReceiveReply(d) == IsSent(d) /\ Parse(d, download[d].lines, TRUE)

(* The loop that reads up to END_CHUNKS also ends when a read fails, and   *)
(* what has arrived is parsed.                                             *)
ReceivePart(d) ==
    /\ IsSent(d)
    /\ \E k \in DOMAIN download[d].lines :
          \/ Parse(d, SubSeq(download[d].lines, 1, k), FALSE)
          \/ \E rest \in CutShort(download[d].lines[k]) :
                Parse(d, Append(SubSeq(download[d].lines, 1, k - 1), rest), FALSE)

(* The connection ends before the first chunk line.                        *)
ReceiveNothing(d) ==
    /\ download[d].pc = "answering"
    /\ download' = [download EXCEPT ![d] = Refused]
    /\ UNCHANGED <<storeVars, cache, history>>

(* LIST_NODES leaves the address of every active node in the cache.        *)
ListNodes(active) ==
    /\ active \subseteq known
    /\ cache' = [id \in DOMAIN cache \cup active |->
                    IF id \in active THEN Address(owner[id]) ELSE cache[id]]
    /\ UNCHANGED <<storeVars, download, history>>

(* The host GetChunk reaches under a cached address, if it is one.         *)
At(address) == {h \in Hosts : address = Address(h)}

(* Slip: the hash asked for is compared with itself.  (A slip is a change  *)
(* the code could suffer; it serves to test the properties at the end.)    *)
MatchesItself(data, hash) == TRUE

(* The data has the SHA-256 asked for.                                     *)
Matches(data, hash) == data = hash

(* What GetChunk can end with: one of the chunks of the machine it reaches,*)
(* other data, or none at all.                                             *)
Answers(hosts) == UNION {disk[h] \cup {Garbage} : h \in hosts} \cup {NoData}

(* GetChunk from the next node of the list, none if it is not in the cache.*)
GetChunk(d, data, next) ==
    LET old == download[d]
        id == Current(d).ids[old.tried + 1]
        hosts == IF id \in DOMAIN cache THEN At(cache[id]) ELSE {}
        taken == [old EXCEPT !.saved = Append(old.saved, data), !.rest = Tail(old.rest),
                             !.tried = 0, !.asked = {}]
        missed == [old EXCEPT !.tried = next,
                              !.asked = IF hosts # {} THEN old.asked \cup {id} ELSE old.asked]
    IN  /\ IsFetching(d)
        /\ old.tried < Len(Current(d).ids)
        /\ data \in Answers(hosts)
        /\ download' =
              [download EXCEPT ![d] =
                  IF data # NoData /\ Matches(data, Current(d).entry.hash) THEN taken ELSE missed]
        /\ UNCHANGED <<storeVars, cache, history>>

(* Slip: a node that does not deliver ends the list.                       *)
FirstNodeOnly(d, data) == GetChunk(d, data, Len(Current(d).ids))

(* The next turn of TryDownloadFromNodes; a node that is not in the cache  *)
(* is passed over.                                                         *)
TryNode(d, data) == GetChunk(d, data, download[d].tried + 1)

(* Slip: the nodes of the chunk are tried again.                           *)
TryAgain(d) ==
    /\ IsFetching(d)
    /\ download[d].tried = Len(Current(d).ids)
    /\ download' = [download EXCEPT ![d].tried = 0]
    /\ UNCHANGED <<storeVars, cache, history>>

ChunkFails(d) ==
    /\ IsFetching(d)
    /\ download[d].tried = Len(Current(d).ids)
    /\ download' = [download EXCEPT ![d].pc = "failed"]
    /\ UNCHANGED <<storeVars, cache, history>>

(* AssembleFile: it finds the indexes in order, as the server wrote them,  *)
(* and compares every hash again; only the writing may fail.               *)
AssembleFile(d, ok) ==
    /\ download[d].pc = "fetching"
    /\ download[d].rest = <<>>
    /\ download' = [download EXCEPT ![d].pc = IF ok THEN "done" ELSE "failed"]
    /\ UNCHANGED <<storeVars, cache, history>>

DownloadFile(d) ==
    \/ WriteLine(d)
    \/ ReceiveReply(d)
    \/ ReceivePart(d)
    \/ ReceiveNothing(d)
    \/ \E data \in Chunks \cup {Garbage, NoData} : TryNode(d, data)
    \/ ChunkFails(d)
    \/ \E ok \in BOOLEAN : AssembleFile(d, ok)

HashesOf(file) == [i \in DOMAIN file |-> file[i].hash]

(* Uploads and machines, as FileStore promises.                            *)
Store ==
    /\ \/ \E h \in Hosts, id \in Ids : Join(h, id)
       \/ \E h \in Hosts, hash \in Chunks : hash \notin disk[h] /\ Write(h, hash)
       \/ \E h \in Hosts, hash \in Chunks : <<h, hash>> \in Restored /\ Empty(h, hash)
       \/ \E name \in Names, content \in Contents, ids \in {known, DOMAIN owner \ known} :
             \E placed \in [DOMAIN content -> Placements(ids)] :
                 Publish(name, content, ids, placed)
    /\ published' = published \cup {<<name, HashesOf(catalog'[name])>> : name \in DOMAIN catalog'}
    /\ UNCHANGED <<client, spoilt>>

(* Slip: the keep-alive thread removes inactive nodes, a call that is      *)
(* commented out at node_manager.cpp:322.                                  *)
RemoveInactiveNodes ==
    /\ \E id \in known : known' = known \ {id}
    /\ UNCHANGED <<owner, disk, torn, catalog, client, history>>

(* A restart also ends the replies the server is writing; what it has sent *)
(* may yet arrive.                                                         *)
RestartServer ==
    /\ Forget
    /\ download' = [d \in Downloads |->
                       IF download[d].pc = "answering" /\ ~IsSent(d)
                       THEN Refused ELSE download[d]]
    /\ UNCHANGED <<cache, history>>

Next ==
    \/ Store
    \/ RestartServer
    \/ \E active \in SUBSET known : ListNodes(active)
    \/ \E d \in Downloads :
          (\E name \in Names : RequestDownload(d, name)) \/ RequestFails(d) \/ DownloadFile(d)

Spec == Init /\ [][Next]_vars

(* The server writes on, and every read of the client ends: with data or   *)
(* with the time limit of ReceiveMessage and ReceiveBinaryData.            *)
Fairness == \A d \in Downloads : WF_vars(DownloadFile(d))

FairSpec == Spec /\ Fairness

----------------------------------------------------------------------------

(* The types of the variables.                                             *)
TypeOK ==
    /\ DOMAIN owner \subseteq Ids /\ owner \in [DOMAIN owner -> Hosts]
    /\ known \subseteq DOMAIN owner
    /\ disk \in [Hosts -> SUBSET Chunks]
    /\ torn \subseteq Hosts \X Chunks
    /\ DOMAIN catalog \subseteq Names /\ catalog \in [DOMAIN catalog -> Seq(EntryType)]
    /\ DOMAIN cache \subseteq Ids /\ cache \in [DOMAIN cache -> Word \X Word]
    /\ download \in [Downloads -> {New, Refused} \cup Answering \cup Fetching]
    /\ published \subseteq Names \X Seq(Chunks)
    /\ spoilt \subseteq Ids

(* An address in the cache is the node's own, or one the reply was cut in: *)
(* the client never takes the words of one node for those of another, even *)
(* though it tells ids from addresses by their position only.              *)
CacheHonest ==
    \A id \in DOMAIN cache :
        cache[id] = Address(owner[id]) \/ cache[id] = <<Ip(owner[id]), Garbage>>

(* Whatever is replaced, cut or corrupted on the way, chunk i of a saved   *)
(* file is chunk i of the file of that name, as it is or once was.         *)
SavedWasPublished ==
    \A d \in Downloads : download[d].pc = "done" =>
        \A i \in DOMAIN download[d].saved :
            \E file \in published : /\ file[1] = download[d].name
                                    /\ i \in DOMAIN file[2]
                                    /\ file[2][i] = download[d].saved[i]

(* A download whose reply arrived whole, with ids the server could         *)
(* resolve, fails for a chunk only after every node listed with it was     *)
(* asked at its own address, unless another reply, cut short in that       *)
(* address, had left it wrong in the cache that all downloads share.       *)
EveryReplicaAsked ==
    \A d \in Downloads :
        download[d].pc = "failed" /\ download[d].whole /\ download[d].rest # <<>> =>
            LET nodes == Current(d).entry.nodes
            IN  Current(d).resolved => \A r \in 1 .. ReplicationFactor :
                    \/ nodes[r] \in download[d].asked
                    \/ nodes[r] \in spoilt

(* A DownloadFile call comes to an end.                                    *)
DownloadEnds ==
    \A d \in Downloads :
        download[d] # New
            ~> download[d].pc \in {"done", "failed", "refused"}

(* What the code says of a download that went well, download_manager.cpp   *)
(* line 128: the file was downloaded.  It is a file there has been, from   *)
(* the first chunk to the last.                                            *)
DownloadedWhole ==
    \A d \in Downloads : download[d].pc = "done" =>
        <<download[d].name, download[d].saved>> \in published
=============================================================================
