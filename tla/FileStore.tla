------------------------------ MODULE FileStore ------------------------------
(***************************************************************************)
(* What the uploading half of the system promises to the downloading half. *)
(* A file appears in one step, whole, and every chunk has been stored by   *)
(* the nodes listed with it; a machine loses a copy only where the same    *)
(* chunk is stored there again; the server forgets files and ids only when *)
(* it restarts, and then all of them.  Of the ids listed with a file the   *)
(* server can resolve all or none.                                         *)
(*                                                                         *)
(* Upload implements this module, Download is built on it.                 *)
(***************************************************************************)
EXTENDS Integers, Sequences

CONSTANTS
    Names,              \* remote file names
    Chunks,             \* chunk ids: what a chunk holds, by its hash
    Contents,           \* local files, as the sequences of their chunks
    Hosts,              \* storage machines
    Ids,                \* node ids
    ReplicationFactor   \* nodes listed with a chunk

VARIABLES
    owner,    \* the machine behind every id ever handed out
    known,    \* the ids the metadata server can resolve
    disk,     \* the chunks each machine holds
    torn,     \* copies it held and has emptied to store them again
    catalog   \* the files a client can find, as the sequences of their entries

storeVars == <<owner, known, disk, torn, catalog>>

(* Ids for the copies of a chunk.                                          *)
Placements(ids) ==
    {nodes \in [1 .. ReplicationFactor -> ids] :
        \A r, s \in 1 .. ReplicationFactor : r # s => nodes[r] # nodes[s]}

(* The nodes have stored the chunk, and hold it unless it is being stored  *)
(* again or that has failed.                                               *)
Held(hash, nodes) ==
    \A r \in 1 .. ReplicationFactor :
        hash \in disk[owner[nodes[r]]] \/ <<owner[nodes[r]], hash>> \in torn

StoreInit ==
    /\ owner = [id \in {} |-> {}]
    /\ known = {}
    /\ disk = [h \in Hosts |-> {}]
    /\ torn = {}
    /\ catalog = [name \in {} |-> {}]

(* A machine starts and is given a new id.                                 *)
Join(h, id) ==
    /\ id \notin DOMAIN owner
    /\ owner' = [i \in DOMAIN owner \cup {id} |-> IF i = id THEN h ELSE owner[i]]
    /\ known' = known \cup {id}
    /\ UNCHANGED <<disk, torn, catalog>>

(* A machine has stored a chunk.                                           *)
Write(h, hash) ==
    /\ disk' = [disk EXCEPT ![h] = @ \cup {hash}]
    /\ torn' = torn \ {<<h, hash>>}
    /\ UNCHANGED <<owner, known, catalog>>

(* A machine empties the copy it holds to store the chunk again, which may *)
(* fail.                                                                   *)
Empty(h, hash) ==
    /\ hash \in disk[h]
    /\ disk' = [disk EXCEPT ![h] = @ \ {hash}]
    /\ torn' = torn \cup {<<h, hash>>}
    /\ UNCHANGED <<owner, known, catalog>>

(* An upload ends: the file replaces one of the same name.                 *)
Publish(name, content, ids, placed) ==
    /\ ids \in {known, DOMAIN owner \ known}
    /\ placed \in [DOMAIN content -> Placements(ids)]
    /\ \A i \in DOMAIN content : Held(content[i], placed[i])
    /\ catalog' = [n \in DOMAIN catalog \cup {name} |->
                      IF n = name
                      THEN [i \in DOMAIN content |->
                               [hash |-> content[i], nodes |-> placed[i]]]
                      ELSE catalog[n]]
    /\ UNCHANGED <<owner, known, disk, torn>>

(* The metadata server loses its memory.                                   *)
Forget ==
    /\ known' = {}
    /\ catalog' = [name \in {} |-> {}]
    /\ UNCHANGED <<owner, disk, torn>>

StoreNext ==
    \/ \E h \in Hosts, id \in Ids : Join(h, id)
    \/ \E h \in Hosts, hash \in Chunks : Write(h, hash) \/ Empty(h, hash)
    \/ \E name \in Names, content \in Contents, ids \in {known, DOMAIN owner \ known} :
          \E placed \in [DOMAIN content -> Placements(ids)] :
              Publish(name, content, ids, placed)
    \/ Forget

StoreSpec == StoreInit /\ [][StoreNext]_storeVars
=============================================================================
