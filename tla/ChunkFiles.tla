----------------------------- MODULE ChunkFiles -----------------------------
(***************************************************************************)
(* The bytes of a file on their way: the local file is split into chunks   *)
(* (client/src/core/chunk_processor.cpp), each chunk is stored by a node   *)
(* in a file of its own (storage-node/.../windows_file_handler.cpp), read  *)
(* again, checked, and written to the file the user asked for; the command *)
(* line client turns the outcome into its exit code (client.cpp, main.cpp).*)
(*                                                                         *)
(* One node, one upload and a download of the same file; other clients     *)
(* store chunks at the node, the same ones among them, as chunks are named *)
(* by their hash.  The program of the node is not in the repository: it is *)
(* taken to run the calls of the file handler in threads, one per request. *)
(* Upload and Download have what happens between several nodes.            *)
(***************************************************************************)
EXTENDS Naturals, SequencesExt

CONSTANTS
    Sources,     \* local files, sequences of bytes
    Old,         \* what was at the path a file is downloaded to
    ChunkSize,   \* CHUNK_SIZE
    Calls        \* threads of the node

Byte == 0 .. 255

ASSUME ChunkFilesAssumption ==
    /\ ChunkSize \in Nat \ {0}
    /\ Sources \subseteq Seq(Byte) /\ Old \in Seq(Byte)

VARIABLES
    source,      \* the local file
    sender,      \* HandleUpload
    disk,        \* the chunk files, a function from the ids they are named by
    call,        \* the threads of the node
    receiver,    \* HandleDownload
    output,      \* the file downloaded to
    readError,   \* the local file could not be read to its end (history)
    flushError,  \* closing the output lost data (history)
    torn         \* ids of which a write has failed or been cut (history)

vars == <<source, sender, disk, call, receiver, output, readError, flushError, torn>>
node    == <<disk, call, torn>>
loading == <<receiver, output, flushError>>

(* A digest that tells all bytes apart: SHA-256 without its collisions.    *)
(* CalculateSHA256 returns "" when the system fails, which all its callers *)
(* take for a failure.                                                     *)
Hash(bytes) == [sha256 |-> bytes]

Pieces(file) == {SubSeq(file, i, j) : i, j \in 1..Len(file)} \ {<<>>}
Ids          == {Hash(p) : p \in {q \in UNION {Pieces(f) : f \in Sources} : Len(q) <= ChunkSize}}

(* "opening" is before CreateFile, "open" after it, "used" before the      *)
(* handle is closed, with the result the call will return, and "failed" is *)
(* a call that could not open its file.  "data" is what is to be written,  *)
(* or what has been read.                                                  *)
Idle == [op |-> "none", id |-> Hash(<<>>), client |-> "other", at |-> "idle", ok |-> FALSE, data |-> <<>>]

Holds(t, id) == call[t].id = id /\ call[t].at \in {"open", "used"}
Writing(id)  == \E t \in Calls : Holds(t, id) /\ call[t].op = "write"
InUse(id)    == \E t \in Calls : Holds(t, id)

(* A chunk file is there, and empty.                                       *)
Emptied(id) == [i \in DOMAIN disk \cup {id} |-> IF i = id THEN <<>> ELSE disk[i]]

----------------------------------------------------------------------------

Init ==
    /\ source \in Sources
    /\ sender = [at |-> "reading", chunks |-> <<>>, stored |-> 0]
    /\ disk = [id \in {} |-> <<>>]
    /\ call = [t \in Calls |-> Idle]
    /\ receiver = [at |-> "idle", wanted |-> <<>>, got |-> <<>>, written |-> 0]
    /\ output = Old
    /\ readError = FALSE /\ flushError = FALSE
    /\ torn = {}

----------------------------------------------------------------------------
(* SplitFile.                                                              *)

(* The bytes of the next chunk.                                            *)
Piece ==
    LET from == Len(sender.chunks) * ChunkSize
        left == Len(source) - from
    IN  SubSeq(source, from + 1, from + (IF left < ChunkSize THEN left ELSE ChunkSize))

SplitEnds(chunks) == IF chunks = <<>> THEN "failed" ELSE "storing"

(* Slip: a short chunk at the end of the file is dropped.                  *)
ReadWholeChunks(n) ==
    /\ sender.at = "reading" /\ n <= Len(Piece)
    /\ readError' = (readError \/ n < Len(Piece))
    /\ sender' = IF n = ChunkSize
                 THEN [sender EXCEPT !.chunks = Append(sender.chunks, Piece)]
                 ELSE [sender EXCEPT !.at = SplitEnds(sender.chunks)]
    /\ UNCHANGED <<source, node, loading>>

(* n bytes are read, fewer than there are if reading fails, which is not   *)
(* told from the end of the file.                                          *)
ReadChunk(n) ==
    /\ sender.at = "reading" /\ n <= Len(Piece)
    /\ readError' = (readError \/ n < Len(Piece))
    /\ LET chunks == IF n = 0 THEN sender.chunks ELSE Append(sender.chunks, SubSeq(Piece, 1, n))
       IN  sender' = [sender EXCEPT !.chunks = chunks,
                          !.at = IF n < ChunkSize THEN SplitEnds(chunks) ELSE "reading"]
    /\ UNCHANGED <<source, node, loading>>

(* The file cannot be opened, or a hash not be calculated.                 *)
SplitFails ==
    /\ sender.at = "reading"
    /\ sender' = [sender EXCEPT !.at = "failed"]
    /\ UNCHANGED <<source, node, loading, readError>>

----------------------------------------------------------------------------
(* The node.  A request starts a thread, for one of the two commands or    *)
(* for another client.                                                     *)

Request(t, op, id, data, client) ==
    /\ call[t] = Idle
    /\ call' = [call EXCEPT ![t] = [op |-> op, id |-> id, client |-> client, at |-> "opening",
                                    ok |-> FALSE, data |-> data]]
    /\ UNCHANGED <<disk, torn>>

Step(t, at, to) ==
    /\ call[t].at = at
    /\ call' = [call EXCEPT ![t] = to]

(* Other chunks are in other files, and nothing happens to these.          *)
OtherStores(t, chunk) ==
    /\ sender.at # "reading"
    /\ Request(t, "write", Hash(chunk), chunk, "other")
    /\ UNCHANGED <<source, sender, loading, readError>>

(* CreateFile fails: a file that is open excludes a writer, one that is    *)
(* being written a reader, one that is missing a reader too; or the system *)
(* fails.                                                                  *)
OpenFails(t) ==
    /\ Step(t, "opening", [call[t] EXCEPT !.at = "failed"])
    /\ UNCHANGED <<source, sender, disk, torn, loading, readError>>

(* Slip: the file is opened with CREATE_ALWAYS and may be shared.          *)
OpenForWritingShared(t) ==
    /\ call[t].op = "write"
    /\ Step(t, "opening", [call[t] EXCEPT !.at = "open"])
    /\ disk' = Emptied(call[t].id)
    /\ UNCHANGED <<source, sender, torn, loading, readError>>

(* WriteFile: CREATE_ALWAYS, not shared.  What was there is gone.          *)
OpenForWriting(t) ==
    /\ call[t].op = "write" /\ ~InUse(call[t].id)
    /\ Step(t, "opening", [call[t] EXCEPT !.at = "open"])
    /\ disk' = Emptied(call[t].id)
    /\ UNCHANGED <<source, sender, torn, loading, readError>>

(* ReadFile: OPEN_EXISTING, shared with readers.                           *)
OpenForReading(t) ==
    /\ call[t].op = "read" /\ ~Writing(call[t].id) /\ call[t].id \in DOMAIN disk
    /\ Step(t, "opening", [call[t] EXCEPT !.at = "open"])
    /\ UNCHANGED <<source, sender, disk, torn, loading, readError>>

(* Slip: the number of bytes written is not looked at.                     *)
WriteUnchecked(t, n) ==
    /\ call[t].op = "write" /\ n <= Len(call[t].data)
    /\ Step(t, "open", [call[t] EXCEPT !.at = "used", !.ok = TRUE])
    /\ disk' = [disk EXCEPT ![call[t].id] = SubSeq(call[t].data, 1, n)]
    /\ UNCHANGED <<source, sender, torn, loading, readError>>

(* n bytes are written, fewer than the chunk has if the disk is full.      *)
Write(t, n) ==
    /\ call[t].op = "write" /\ n <= Len(call[t].data)
    /\ Step(t, "open", [call[t] EXCEPT !.at = "used", !.ok = (n = Len(call[t].data))])
    /\ disk' = [disk EXCEPT ![call[t].id] = SubSeq(call[t].data, 1, n)]
    /\ torn' = (IF n < Len(call[t].data) THEN torn \cup {call[t].id} ELSE torn)
    /\ UNCHANGED <<source, sender, loading, readError>>

Read(t) ==
    /\ call[t].op = "read"
    /\ Step(t, "open", [call[t] EXCEPT !.at = "used", !.ok = TRUE, !.data = disk[call[t].id]])
    /\ UNCHANGED <<source, sender, disk, torn, loading, readError>>

ReadFails(t) ==
    /\ call[t].op = "read"
    /\ Step(t, "open", [call[t] EXCEPT !.at = "used"])
    /\ UNCHANGED <<source, sender, disk, torn, loading, readError>>

(* The handle is closed and the result sent; nobody may be waiting for it. *)
OtherAnswered(t) ==
    /\ call[t].client = "other" /\ call[t].at \in {"used", "failed"}
    /\ Step(t, call[t].at, Idle)
    /\ UNCHANGED <<source, sender, disk, torn, loading, readError>>

(* The program of the node ends, and its threads with it.  A file that is  *)
(* being written keeps the bytes that were.                                *)
Crash ==
    /\ call # [t \in Calls |-> Idle]
    /\ call' = [t \in Calls |-> Idle]
    /\ torn' = torn \cup {call[t].id : t \in {u \in Calls : call[u].op = "write" /\ call[u].at = "open"}}
    /\ sender' = IF sender.at = "waiting" THEN [sender EXCEPT !.at = "failed"] ELSE sender
    /\ receiver' = IF receiver.at = "waiting" THEN [receiver EXCEPT !.at = "failed"] ELSE receiver
    /\ UNCHANGED <<source, disk, output, flushError, readError>>

----------------------------------------------------------------------------
(* UploadFile: the chunks are stored one after the other.                  *)

StoreChunk(t) ==
    /\ sender.at = "storing" /\ sender.stored < Len(sender.chunks)
    /\ LET chunk == sender.chunks[sender.stored + 1]
       IN  Request(t, "write", Hash(chunk), chunk, "sender")
    /\ sender' = [sender EXCEPT !.at = "waiting"]
    /\ UNCHANGED <<source, loading, readError>>

ChunkStored(t) ==
    /\ call[t].client = "sender" /\ call[t].at \in {"used", "failed"}
    /\ Step(t, call[t].at, Idle)
    /\ sender' = IF call[t].ok
                 THEN [sender EXCEPT !.at = "storing", !.stored = sender.stored + 1]
                 ELSE [sender EXCEPT !.at = "failed"]
    /\ UNCHANGED <<source, disk, torn, loading, readError>>

(* The answer is lost, and the thread of the node goes on for nobody.      *)
SenderGivesUp(t) ==
    /\ call[t].client = "sender"
    /\ call' = [call EXCEPT ![t].client = "other"]
    /\ sender' = [sender EXCEPT !.at = "failed"]
    /\ UNCHANGED <<source, disk, torn, loading, readError>>

(* The file is registered, and the command ends with exit code 0.          *)
UploadDone ==
    /\ sender.at = "storing" /\ sender.stored = Len(sender.chunks)
    /\ sender' = [sender EXCEPT !.at = "done"]
    /\ UNCHANGED <<source, node, loading, readError>>

----------------------------------------------------------------------------
(* DownloadFile: the chunks of the reply, which may have lost its last     *)
(* lines, are fetched one after the other.                                 *)

RequestDownload(n) ==
    /\ sender.at = "done" /\ receiver.at = "idle" /\ n <= Len(sender.chunks)
    /\ receiver' = [receiver EXCEPT !.at = "fetching",
                        !.wanted = [i \in 1..n |-> Hash(sender.chunks[i])]]
    /\ UNCHANGED <<source, sender, node, output, flushError, readError>>

Fetched == receiver.at = "fetching" /\ Len(receiver.got) = Len(receiver.wanted)

GetChunk(t) ==
    /\ receiver.at = "fetching" /\ ~Fetched
    /\ Request(t, "read", receiver.wanted[Len(receiver.got) + 1], <<>>, "receiver")
    /\ receiver' = [receiver EXCEPT !.at = "waiting"]
    /\ UNCHANGED <<source, sender, output, flushError, readError>>

(* The data are taken when they have the hash that was asked for.          *)
ChunkFetched(t) ==
    /\ call[t].client = "receiver" /\ call[t].at \in {"used", "failed"}
    /\ Step(t, call[t].at, Idle)
    /\ receiver' = IF call[t].ok /\ Hash(call[t].data) = call[t].id
                   THEN [receiver EXCEPT !.at = "fetching", !.got = Append(receiver.got, call[t].data)]
                   ELSE [receiver EXCEPT !.at = "failed"]
    /\ UNCHANGED <<source, sender, disk, torn, output, flushError, readError>>

ReceiverGivesUp(t) ==
    /\ call[t].client = "receiver"
    /\ call' = [call EXCEPT ![t].client = "other"]
    /\ receiver' = [receiver EXCEPT !.at = "failed"]
    /\ UNCHANGED <<source, sender, disk, torn, output, flushError, readError>>

----------------------------------------------------------------------------
(* AssembleFile.                                                           *)

(* A hash cannot be calculated, or the output not be created.              *)
AssembleFails ==
    /\ Fetched
    /\ receiver' = [receiver EXCEPT !.at = "failed"]
    /\ UNCHANGED <<source, sender, node, output, flushError, readError>>

(* Every chunk has been checked, and what the output held is gone.         *)
CreateOutput ==
    /\ Fetched
    /\ \A i \in 1..Len(receiver.got) : Hash(receiver.got[i]) = receiver.wanted[i]
    /\ receiver' = [receiver EXCEPT !.at = "writing"]
    /\ output' = <<>>
    /\ UNCHANGED <<source, sender, node, flushError, readError>>

WriteOutput ==
    /\ receiver.at = "writing" /\ receiver.written < Len(receiver.got)
    /\ receiver' = [receiver EXCEPT !.written = receiver.written + 1]
    /\ output' = output \o receiver.got[receiver.written + 1]
    /\ UNCHANGED <<source, sender, node, flushError, readError>>

WriteOutputFails(n) ==
    /\ receiver.at = "writing" /\ receiver.written < Len(receiver.got)
    /\ n < Len(receiver.got[receiver.written + 1])
    /\ receiver' = [receiver EXCEPT !.at = "failed"]
    /\ output' = output \o SubSeq(receiver.got[receiver.written + 1], 1, n)
    /\ UNCHANGED <<source, sender, node, flushError, readError>>

(* What the stream still holds is written when it is closed.  Whether it   *)
(* could be is not asked: n bytes may be lost.                             *)
CloseOutput(n) ==
    /\ receiver.at = "writing" /\ receiver.written = Len(receiver.got)
    /\ n <= Len(Last(receiver.got))
    /\ receiver' = [receiver EXCEPT !.at = "done"]
    /\ output' = SubSeq(output, 1, Len(output) - n)
    /\ flushError' = (n > 0)
    /\ UNCHANGED <<source, sender, node, readError>>

----------------------------------------------------------------------------

Upload ==
    \/ \E n \in 0..ChunkSize : ReadChunk(n)
    \/ SplitFails \/ UploadDone
    \/ \E t \in Calls : StoreChunk(t) \/ ChunkStored(t) \/ SenderGivesUp(t)

Download ==
    \/ \E n \in 1..Len(sender.chunks) : RequestDownload(n)
    \/ \E t \in Calls : GetChunk(t) \/ ChunkFetched(t) \/ ReceiverGivesUp(t)
    \/ AssembleFails \/ CreateOutput \/ WriteOutput
    \/ \E n \in 0..ChunkSize : WriteOutputFails(n) \/ CloseOutput(n)

HandleFile(t) ==
    \/ \E i \in 1..Len(sender.chunks) : OtherStores(t, sender.chunks[i])
    \/ OpenFails(t) \/ OpenForWriting(t) \/ OpenForReading(t)
    \/ Read(t) \/ ReadFails(t) \/ OtherAnswered(t)
    \/ \E n \in 0..ChunkSize : Write(t, n)

Next == Upload \/ Download \/ Crash \/ \E t \in Calls : HandleFile(t)

Spec == Init /\ [][Next]_vars

----------------------------------------------------------------------------

(* Chunk files hold the beginning of their chunk, all of it when the call  *)
(* that wrote it is about to report success, and each client waits for one *)
(* call at most.                                                           *)
TypeOK ==
    /\ source \in Sources
    /\ sender.at \in {"reading", "storing", "waiting", "done", "failed"}
    /\ receiver.at \in {"idle", "fetching", "waiting", "writing", "done", "failed"}
    /\ DOMAIN disk \subseteq Ids /\ \A id \in DOMAIN disk : IsPrefix(disk[id], id.sha256)
    /\ \A t \in Calls :
          /\ call[t].op = "write" /\ call[t].ok => Hash(disk[call[t].id]) = call[t].id
          /\ call[t].client = "sender"   => sender.at = "waiting"
          /\ call[t].client = "receiver" => receiver.at = "waiting"
          /\ \A u \in Calls \ {t} : call[t].client = call[u].client => call[t].client = "other"
    /\ readError \in BOOLEAN /\ flushError \in BOOLEAN
    /\ torn \subseteq Ids

(* What a download that reports success has saved is what was uploaded,    *)
(* up to the last chunk its reply named.  Two errors that no call reports  *)
(* are excepted: reading the local file, and closing the output.           *)
SavedIsSource ==
    receiver.at = "done" /\ ~readError /\ ~flushError =>
        /\ IsPrefix(output, source)
        /\ Len(receiver.wanted) = Len(sender.chunks) => output = source

(* A chunk the node has acknowledged stays readable and whole until a      *)
(* later request to store the same chunk, which empties the file first,    *)
(* fails or is cut by a crash; and no reader finds a chunk half written    *)
(* but after such a failure.                                               *)
CopiesKept ==
    /\ \A i \in 1..sender.stored :
          LET id == Hash(sender.chunks[i])
          IN  id \in DOMAIN disk /\ (Hash(disk[id]) = id \/ id \in torn \/ Writing(id))
    /\ \A t \in Calls :
          call[t].op = "read" /\ call[t].ok => Hash(call[t].data) = call[t].id \/ call[t].id \in torn

=============================================================================
