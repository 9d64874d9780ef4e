----------------------------- MODULE FileCatalog -----------------------------
(***************************************************************************)
(* The catalogue of files kept by the metadata server: MetadataManager     *)
(* (metadata-server/src/metadata_manager.cpp) with the handlers that use   *)
(* it (UPLOAD_COMPLETE, REQUEST_DOWNLOAD, LIST_FILES in                    *)
(* protocol_handler.cpp), run by one thread per connection.                *)
(*                                                                         *)
(* An action is one scope of filesMutex or one access outside of it.       *)
(* GetFileMetadata returns a pointer into the map and unlocks, so that     *)
(* REQUEST_DOWNLOAD reads a file another thread may be replacing.          *)
(***************************************************************************)
EXTENDS Integers, Sequences, FiniteSets, SequencesExt

CONSTANTS
    Workers,    \* connection threads
    Names,      \* file names as clients send them
    Keys,       \* file names after SanitizeFilename
    NoKey,      \* the empty name
    Sanitize,   \* SanitizeFilename: distinct names may share a key
    Hashes,     \* chunk ids
    Bodies,     \* what an UPLOAD_COMPLETE may carry: sequences of lines
    Leftovers,  \* the chunk lines that freed memory may be read as
    MaxLines    \* the line limit of ReadMultilineRequest

(* A line of UPLOAD_COMPLETE: a chunk and how many node ids follow it.     *)
Line == [hash : Hashes, index : Nat, size : Nat, copies : Nat]

ASSUME CatalogAssumption ==
    /\ NoKey \notin Keys
    /\ Sanitize \in [Names -> Keys \cup {NoKey}]
    /\ Bodies \subseteq Seq(Line)
    /\ Leftovers \subseteq Line
    /\ MaxLines \in Nat

VARIABLES
    files,       \* MetadataManager::files, a function from the keys in use
    totalFiles,  \* MetadataManager::totalFiles
    totalBytes,  \* MetadataManager::totalBytes
    worker       \* what each connection thread is in the middle of

vars == <<files, totalFiles, totalBytes, worker>>
stats == <<totalFiles, totalBytes>>

Chunk == [hash : Hashes, index : Nat, size : Nat \ {0}, copies : Nat]
File  == [size : Nat, chunks : Seq(Chunk)]

Idle      == [pc |-> "idle"]
Stored    == [pc |-> "stored"]
Deleting  == [pc |-> "deleting"]
Counted   == [pc : {"counted"}, files : Nat, bytes : Nat]
HalfSet   == [pc : {"halfset"}, bytes : Nat]
Found     == [pc : {"found"}, key : Keys, replaced : BOOLEAN]
Headed    == [pc : {"headed"}, key : Keys, replaced : BOOLEAN, size : Nat, count : Nat]
Reading   == [pc : {"reading"}, key : Keys, replaced : BOOLEAN, size : Nat, count : Nat,
              view : Seq(Chunk), lines : Seq(Line), dangling : BOOLEAN]
Listing   == [pc : {"listing"}, count : Nat, todo : SUBSET Keys, listed : SUBSET Keys]

WorkerState ==
    {Idle, Stored, Deleting} \cup Counted \cup HalfSet \cup Found \cup Headed \cup Reading \cup Listing

----------------------------------------------------------------------------

(* Slip: a chunk of size 0 is kept.  (A slip is a change the code could    *)
(* suffer; it serves to test the properties at the end of the module.)     *)
AcceptsEmptyChunk(line) == line.copies >= 2

(* What HandleUploadComplete makes of the lines of a request.  A line of   *)
(* fewer than two node ids has fewer than five words; it is skipped, as a  *)
(* chunk of size 0 is.                                                     *)
Accepts(line) == line.copies >= 2 /\ line.size > 0

Accepted(body) ==
    FoldLeft(LAMBDA chunks, line : IF Accepts(line) THEN Append(chunks, line) ELSE chunks, <<>>, body)

SumOfSizes(chunks) == FoldLeft(LAMBDA sum, c : sum + c.size, 0, chunks)

ValidateChunkSequence(chunks) ==
    /\ chunks # <<>>
    /\ {chunks[i].index : i \in DOMAIN chunks} = 0 .. Len(chunks) - 1

(* The std::sort by index of RegisterFile, of a valid sequence.            *)
InIndexOrder(chunks) ==
    [i \in 1 .. Len(chunks) |->
        chunks[CHOOSE j \in DOMAIN chunks : chunks[j].index = i - 1]]

(* ValidateFileMetadata also compares the sum of the sizes with the total, *)
(* which the handler has just computed from the same lines.                *)
IsRegistrable(name, body) ==
    /\ Len(body) <= MaxLines
    /\ Sanitize[name] # NoKey
    /\ ValidateChunkSequence(Accepted(body))

FileOf(body) == [size |-> SumOfSizes(Accepted(body)),
                 chunks |-> InIndexOrder(Accepted(body))]

With(f, key, file) == [k \in DOMAIN f \cup {key} |-> IF k = key THEN file ELSE f[k]]

(* A thread that holds a pointer to an entry.                              *)
Pointing(v) == worker[v].pc \in {"found", "headed", "reading"}

(* Slip: the map keeps its entries in a vector, and registering a file     *)
(* moves them all.                                                         *)
AfterMove(w, key) ==
    [v \in Workers |->
        IF v = w THEN Stored
        ELSE IF worker[v].pc = "reading"
        THEN [worker[v] EXCEPT !.replaced = @ \/ worker[v].key = key, !.dangling = TRUE]
        ELSE IF Pointing(v)
        THEN [worker[v] EXCEPT !.replaced = @ \/ worker[v].key = key]
        ELSE worker[v]]

(* Assigning to an entry of the map invalidates the iterators of every     *)
(* loop that is running over its old chunks.  Pointers to other entries    *)
(* stay good.  That the entry was replaced is noted for the properties.    *)
AfterAssignment(w, key) ==
    [v \in Workers |->
        IF v = w THEN Stored
        ELSE IF ~Pointing(v) THEN worker[v]
        ELSE IF worker[v].key # key THEN worker[v]
        ELSE IF worker[v].pc = "reading"
        THEN [worker[v] EXCEPT !.replaced = TRUE, !.dangling = TRUE]
        ELSE [worker[v] EXCEPT !.replaced = TRUE]]

(* Between actions the mutex is free, unless DeleteFile keeps it.          *)
MutexFree == \A w \in Workers : worker[w] # Deleting

BytesOf(f) == FoldLeft(LAMBDA sum, k : sum + f[k].size, 0, SetToSeq(DOMAIN f))

Become(w, state) == worker' = [worker EXCEPT ![w] = state]

----------------------------------------------------------------------------

Init ==
    /\ files = [k \in {} |-> {}]
    /\ totalFiles = 0
    /\ totalBytes = 0
    /\ worker = [w \in Workers |-> Idle]

(* Slip: the chunks of a file stored before are kept.                      *)
StoreMerges(w, name, body) ==
    /\ worker[w] = Idle
    /\ IsRegistrable(name, body)
    /\ MutexFree
    /\ files' = With(files, Sanitize[name],
                     [FileOf(body) EXCEPT !.chunks =
                         IF Sanitize[name] \in DOMAIN files
                         THEN files[Sanitize[name]].chunks \o @ ELSE @])
    /\ worker' = AfterAssignment(w, Sanitize[name])
    /\ UNCHANGED stats

(* UPLOAD_COMPLETE: the request is read, validated and stored whole under  *)
(* the lock.  A request that is not registrable changes nothing.           *)
RegisterFile(w, name, body) ==
    /\ worker[w] = Idle
    /\ IsRegistrable(name, body)
    /\ MutexFree
    /\ files' = With(files, Sanitize[name], FileOf(body))
    /\ worker' = AfterAssignment(w, Sanitize[name])
    /\ UNCHANGED stats

(* UpdateStatistics counts under the lock and assigns after it.            *)
CountFiles(w) ==
    /\ worker[w].pc = "stored"
    /\ MutexFree
    /\ Become(w, [pc |-> "counted", files |-> Cardinality(DOMAIN files),
                  bytes |-> BytesOf(files)])
    /\ UNCHANGED <<files, stats>>

(* Slip: every registration counts one file more.                          *)
CountUpwards(w) ==
    /\ worker[w].pc = "counted"
    /\ totalFiles' = totalFiles + 1
    /\ Become(w, [pc |-> "halfset", bytes |-> worker[w].bytes])
    /\ UNCHANGED <<files, totalBytes>>

SetTotalFiles(w) ==
    /\ worker[w].pc = "counted"
    /\ totalFiles' = worker[w].files
    /\ Become(w, [pc |-> "halfset", bytes |-> worker[w].bytes])
    /\ UNCHANGED <<files, totalBytes>>

SetTotalBytes(w) ==
    /\ worker[w].pc = "halfset"
    /\ totalBytes' = worker[w].bytes
    /\ Become(w, Idle)
    /\ UNCHANGED <<files, totalFiles>>

(* REQUEST_DOWNLOAD: GetFileMetadata under the lock, the rest without it.  *)
GetFileMetadata(w, name) ==
    /\ worker[w] = Idle
    /\ Sanitize[name] \in DOMAIN files
    /\ MutexFree
    /\ Become(w, [pc |-> "found", key |-> Sanitize[name], replaced |-> FALSE])
    /\ UNCHANGED <<files, stats>>

WriteHeader(w) ==
    /\ worker[w].pc = "found"
    /\ LET file == files[worker[w].key]
       IN  Become(w, [pc |-> "headed", key |-> worker[w].key, replaced |-> worker[w].replaced,
                      size |-> file.size, count |-> Len(file.chunks)])
    /\ UNCHANGED <<files, stats>>

BeginChunks(w) ==
    /\ worker[w].pc = "headed"
    /\ Become(w, [pc |-> "reading", key |-> worker[w].key, replaced |-> worker[w].replaced,
                  size |-> worker[w].size, count |-> worker[w].count,
                  view |-> files[worker[w].key].chunks, lines |-> <<>>, dangling |-> FALSE])
    /\ UNCHANGED <<files, stats>>

(* What the memory of a chunk that was replaced may hold by now: a chunk   *)
(* of the file that took its place, or what another thread has left there. *)
Overwriting(w) ==
    Leftovers \cup {files[worker[w].key].chunks[i] : i \in DOMAIN files[worker[w].key].chunks}

(* The next turn of the loop.  Once the vector has been assigned to, the   *)
(* iterator points to the old chunk still, or to any of these.             *)
WriteChunk(w) ==
    /\ worker[w].pc = "reading"
    /\ LET i == Len(worker[w].lines) + 1
       IN  /\ i \in DOMAIN worker[w].view
           /\ \E line \in {worker[w].view[i]} \cup (IF worker[w].dangling THEN Overwriting(w) ELSE {}) :
                 Become(w, [worker[w] EXCEPT !.lines = Append(@, line)])
    /\ UNCHANGED <<files, stats>>

(* Slip: the loop waits for the number of chunks it announced.             *)
AnnouncedWritten(w) == worker[w].pc = "reading" /\ Len(worker[w].lines) = worker[w].count

ChunksWritten(w) == worker[w].pc = "reading" /\ Len(worker[w].lines) = Len(worker[w].view)

(* END_CHUNKS is written and the response sent.                            *)
SendChunks(w) ==
    /\ ChunksWritten(w)
    /\ Become(w, Idle)
    /\ UNCHANGED <<files, stats>>

(* Slip: the number of files is taken from the statistics.                 *)
ListFilesByStats(w) ==
    /\ worker[w] = Idle
    /\ MutexFree
    /\ Become(w, [pc |-> "listing", count |-> totalFiles,
                  todo |-> DOMAIN files, listed |-> {}])
    /\ UNCHANGED <<files, stats>>

(* LIST_FILES: the names under the lock, then a lookup for each of them.   *)
ListFiles(w) ==
    /\ worker[w] = Idle
    /\ MutexFree
    /\ Become(w, [pc |-> "listing", count |-> Cardinality(DOMAIN files),
                  todo |-> DOMAIN files, listed |-> {}])
    /\ UNCHANGED <<files, stats>>

WriteFile(w, key) ==
    /\ worker[w].pc = "listing"
    /\ key \in worker[w].todo
    /\ MutexFree
    /\ Become(w, [worker[w] EXCEPT
                    !.todo = @ \ {key},
                    !.listed = IF key \in DOMAIN files THEN @ \cup {key} ELSE @])
    /\ UNCHANGED <<files, stats>>

FilesWritten(w) == worker[w].pc = "listing" /\ worker[w].todo = {}

SendFiles(w) ==
    /\ FilesWritten(w)
    /\ Become(w, Idle)
    /\ UNCHANGED <<files, stats>>

(* A loop over freed memory may also end the process.  Nothing is on disk: *)
(* the server starts again with an empty catalogue.                        *)
Crash ==
    /\ \E w \in Workers : worker[w].pc = "reading" /\ worker[w].dangling
    /\ files' = [k \in {} |-> {}]
    /\ totalFiles' = 0
    /\ totalBytes' = 0
    /\ worker' = [w \in Workers |-> Idle]

(* What a thread does once it has taken a request.                         *)
Continue(w) ==
    \/ CountFiles(w) \/ SetTotalFiles(w) \/ SetTotalBytes(w)
    \/ WriteHeader(w) \/ BeginChunks(w) \/ WriteChunk(w) \/ SendChunks(w)
    \/ \E key \in Keys : WriteFile(w, key)
    \/ SendFiles(w)

Take(w) ==
    \/ \E name \in Names, body \in Bodies : RegisterFile(w, name, body)
    \/ \E name \in Names : GetFileMetadata(w, name)
    \/ ListFiles(w)

Next == (\E w \in Workers : Take(w) \/ Continue(w)) \/ Crash

Spec == Init /\ [][Next]_vars

(* Threads are scheduled, and no lock of the catalogue is held for long.   *)
Fairness == \A w \in Workers : WF_vars(Continue(w))

FairSpec == Spec /\ Fairness

(* DeleteFile, which no command reaches.  It erases the entry under the    *)
(* lock and, still holding it, calls UpdateStatistics, which locks again.  *)
(* Calls that would also leave another thread with a pointer to the erased *)
(* entry are left out.                                                     *)
DeleteFile(w, name) ==
    /\ worker[w] = Idle
    /\ MutexFree
    /\ Sanitize[name] \in DOMAIN files
    /\ \A v \in Workers : worker[v].pc \notin {"found", "headed", "reading"}
    /\ files' = [k \in DOMAIN files \ {Sanitize[name]} |-> files[k]]
    /\ Become(w, Deleting)
    /\ UNCHANGED stats

UpdateStatisticsInDelete(w) ==
    /\ worker[w] = Deleting
    /\ MutexFree
    /\ totalFiles' = Cardinality(DOMAIN files)
    /\ totalBytes' = BytesOf(files)
    /\ Become(w, Idle)
    /\ UNCHANGED files

NextWithDelete ==
    \/ Next
    \/ \E w \in Workers :
          UpdateStatisticsInDelete(w) \/ \E name \in Names : DeleteFile(w, name)

SpecWithDelete ==
    /\ Init /\ [][NextWithDelete]_vars
    /\ Fairness
    /\ \A w \in Workers : WF_vars(UpdateStatisticsInDelete(w))

----------------------------------------------------------------------------

(* The types of the variables.                                             *)
TypeOK ==
    /\ DOMAIN files \subseteq Keys
    /\ files \in [DOMAIN files -> File]
    /\ totalFiles \in Nat
    /\ totalBytes \in Nat
    /\ worker \in [Workers -> WorkerState]

(* Whatever lines an UPLOAD_COMPLETE carries, in whatever order and with   *)
(* whatever lines skipped, a file of the catalogue has its chunks in index *)
(* order without a gap, each listed on two nodes at least, and the size    *)
(* they add up to.                                                         *)
FilesWellFormed ==
    \A key \in DOMAIN files :
        LET file == files[key]
        IN  /\ file.chunks # <<>>
            /\ \A i \in DOMAIN file.chunks :
                  file.chunks[i].index = i - 1 /\ file.chunks[i].copies >= 2
            /\ file.size = SumOfSizes(file.chunks)

(* REQUEST_DOWNLOAD reads through its pointer without the lock while other *)
(* files are registered, re-registered and counted.  Unless the very file  *)
(* is replaced, the reply is the file: all its chunks in their order, as   *)
(* many as the first line announced, and of that size together.            *)
ReplyIsTheFile ==
    \A w \in Workers : ChunksWritten(w) /\ ~worker[w].replaced =>
        /\ worker[w].lines = files[worker[w].key].chunks
        /\ worker[w].count = Len(worker[w].lines)
        /\ worker[w].size = SumOfSizes(worker[w].lines)

(* UpdateStatistics assigns after unlocking, so a count may be old by then,*)
(* but the statistics never claim a file the catalogue does not have.      *)
StatsNeverAhead ==
    /\ totalFiles <= Cardinality(DOMAIN files)
    /\ \A w \in Workers :
          worker[w].pc = "counted" => worker[w].files <= Cardinality(DOMAIN files)

(* LIST_FILES looks every name up again after it has written their number: *)
(* it lists as many files as it announced.                                 *)
ListingMatchesHeader ==
    \A w \in Workers : FilesWritten(w) => Cardinality(worker[w].listed) = worker[w].count

(* Every request the catalogue has begun to serve is answered.             *)
RequestAnswered == \A w \in Workers : (worker[w] # Idle) ~> (worker[w] = Idle)

(* DeleteFile answers, metadata_manager.h:51: it returns whether there was *)
(* a file to delete.                                                       *)
DeleteReturns == \A w \in Workers : (worker[w] = Deleting) ~> (worker[w] # Deleting)

(* The response format, metadata_client.cpp:303: the first line announces  *)
(* the size of the file and the number of chunks that follow.              *)
ReplyMatchesHeader ==
    \A w \in Workers : ChunksWritten(w) =>
        /\ Len(worker[w].lines) = worker[w].count
        /\ SumOfSizes(worker[w].lines) = worker[w].size
=============================================================================
