# Verification of the peer-to-peer file storage

TLA+ models of the metadata server (its registry, its catalogue, its life cycle), of uploads and
downloads from end to end, of what they stand on (messages on a connection, chunks in files) and of
the window of the graphical client, model-checked with TLC, with theorems about them checked by
TLAPS. Paths below are relative to `src/`.

## The system

A *metadata server* knows the storage nodes and the files; *storage nodes* hold chunks of at most
1 MB, named by their SHA-256; *clients*, one for the command line and one with windows, split files
into chunks, store every chunk on two nodes and tell the server. All talk over TCP in lines ended by
CR LF, one connection per request. The server and the nodes' registrations live in memory only.

| component | state | operations | talks to |
|---|---|---|---|
| `NodeManager` (`metadata-server/src/node_manager.cpp`) | `nodes`: address, free space, last contact, active flag, under `nodesMutex`; keep-alive thread | `RegisterNode`, `UpdateNodeLastSeen`, `UpdateNodeSpace`, `GetAvailableNodes`, `GetAllActiveNodes`, `CheckNodeHealth` | called by the connection threads |
| `MetadataManager` (`metadata_manager.cpp`) | `files`, under `filesMutex`; `totalFiles`, `totalBytes` outside of it | `RegisterFile`, `GetFileMetadata` (a pointer, used after unlocking), `ListFiles`, `UpdateStatistics`, `DeleteFile` (no caller) | called by the connection threads |
| `ProtocolHandler` (`protocol_handler.cpp`) | none | one handler per command | both managers |
| `MetadataServer` (`server.cpp`, `main.cpp`) | socket, accept thread, detached client threads, `running` | `Run`, `HandleClient`, `Shutdown` | handler |
| `UploadManager` (`client/src/core/upload_manager.cpp`) | the running upload | `SelectNodesForChunk`, `UploadChunk`, `UploadFile` | server, storage nodes |
| `DownloadManager` (`download_manager.cpp`) | the running download | `TryDownloadFromNodes`, `DownloadFile` | server, storage nodes |
| `MetadataClient` (`metadata_client.cpp`) | `nodeCache`: node id to address, shared by all transfers | one method per command | server |
| `NodeClient` (`node_client.cpp`) | none | `StoreChunk`, `GetChunk`, `CheckChunk` | storage nodes |
| `ChunkProcessor`, `HashUtils` | none | split, assemble, hash | local files |
| `NetworkUtils` (`common/src/network_utils.cpp`) | none | lines and blocks over a socket, with time limits | everything |
| storage node (`storage-node/`) | directory of chunks | only its file handler is in the repository | server, clients |
| `MainWindow` (`client-gui/src/main_window.cpp`) | the managers, detached transfer threads | connect, disconnect, refresh, transfer | managers |

What is hard in it, and what makes it correct:

* *Threads of the server.* A registration of a node uses three lock scopes, a sweep of the keep-alive
  thread a clock read before its lock, a download reply a pointer read outside of any. The registry
  must stay bounded and must not lose a contact; the catalogue must hold whole files whatever
  replaces them.
* *Failures of an upload.* A copy may fail, or be stored and its answer lost; the client may give up
  on a registration the server still processes; nodes and server may restart in between. A file a
  client can find must be whole and have its copies.
* *Failures of a download.* The reply may be cut anywhere, the file replaced while it is written, a
  node silent or wrong, and the address cache is shared. Nothing unverified may be saved, no replica
  passed over, no node taken for another.
* *The end of the server.* `Shutdown` is called by the signal handler, by `main` and by the
  destructor, the first possibly in a thread of its own; client threads are detached. A shutdown must
  be final, must end, and must not leave a thread working on what was destroyed.
* *The window.* A dialog dispatches the messages of detached transfers while a handler waits for it,
  the boxes that nest so may be answered in any order, and the user may disconnect and connect under
  a transfer or a handler. The lists must be those of the server the managers talk to, and what ends
  a session or takes its client must be known.
* *Bytes.* A line may end at CR LF, at the limit, at the end of the connection or at a time limit; a
  chunk file is emptied before it is written again. A message must be taken whole or refused, an
  acknowledged copy must stay one, and what is saved must be what was uploaded.

`PROJECT.json` lists each hazard at its line with the property that covers it.

## The modules

**`NodeRegistry`** — `NodeManager`, the handlers that call it, and the keep-alive thread. `nodes` is
the map; `worker[w]` says between which two lock scopes connection `w` is. `CheckCapacity`, `DrawId`
and `InsertNode` are the three scopes of `RegisterNode`; `UpdateNodeLastSeen` and `UpdateNodeSpace`
are KEEP_ALIVE and UPDATE_SPACE; `RequestUpload` and `ListNodes` read the clock, `GetAvailableNodes`
and `GetAllActiveNodes` filter under the lock; `WakeUp` and `CheckNodeHealth` are the sweep. Free
space counts in chunks; the clock in seconds up to `MaxTime`.

**`FileCatalog`** — `MetadataManager` and its handlers. A file is its size and its chunks, a name is
mapped to a key by `Sanitize`. `RegisterFile` is the scope that stores the file, `CountFiles`,
`SetTotalFiles`, `SetTotalBytes` are `UpdateStatistics`, whose assignments are not locked.
`GetFileMetadata`, `WriteHeader`, `BeginChunks`, `WriteChunk`, `SendChunks` are REQUEST_DOWNLOAD;
when the file is replaced under it the loop is over freed memory, and each further step reads the
old chunk, a chunk of the new file, or what other threads have left in the memory (`Leftovers`: chunks
of other files, lines of a request that was refused), or ends the process (`Crash`). That an entry was
replaced is noted in `replaced`. An assignment to an entry is one step: a reader between two
assignments of the fields of one file, and memory that is no chunk at all, are taken for `Crash`.
`DeleteFile` is in
`SpecWithDelete` only, since no command reaches it.

**`Upload`** — uploads from end to end. `upload[u]` is the local state of an `UploadFile` call: the
offer of nodes, the chunks placed so far and the copies of the current one. `disk` is what each
machine stores; `owner` says which machine an id was given to; `known` and `catalog` are the memory
of the running server; `inbox` the registrations sent and not processed; `requests` the STORE_CHUNKs
the nodes have received. `StoreChunk` sends the request and its call ends, with the answer OK
(`ChunkStored` while the call still waits) or without; the node then stores the chunk, leaves its file
emptied or cut (`ChunkTorn`, since `WriteFile` opens it with CREATE_ALWAYS), or touches nothing
(`ChunkRefused`), at any later time. `WriteFile` is one step, because it has its file for itself;
`ChunkFiles` has its parts. `torn` keeps in mind which copies a machine held and has emptied since.
`GiveUp` leaves the registration in the inbox, `RegisterNode` is a storage node that starts, or starts
again over the same directory under a new id, `RestartServer` forgets ids, files and inbox. Storage
nodes are external but for their file handler: their process is not in the repository.

**`FileStore`** — what uploads promise to downloads, in five actions: a machine joins, a machine
stores a chunk, a machine empties a copy to store it again, a file appears whole with every chunk
stored by the nodes listed, the server forgets everything. `Upload` implements it (`ImplementsFileStore`, with the history in the catalogue
dropped); `Download` is built on it by EXTENDS.

**`Download`** — `DownloadFile`, the requests it makes, and the cache. The server builds the reply
line by line from the file it looked up or from the one that replaced it (other lines that freed
memory may yield are in `FileCatalog` only) and sends it when it is complete. A line is its entry and the words
after the size: an id, followed by ip and port if the server knows the id. The reply arrives whole,
cut after a line, cut within one (`CutShort`), or not at all. `Learned` and `ListedIds` take the
words apart as the client does, by position; `TryNode` is a turn of `TryDownloadFromNodes`, with the
comparison of the hash; `AssembleFile` ends the call.

**`ServerLife`** — the process of the server. `pc["main"]` and `pc["signal"]` are the function and the
step in it: the start, the three callers of `Shutdown`, and `"members"`, the destruction of the
server's members in the reverse of their order, with `~NodeManager` calling `StopKeepAliveChecker`
again. `acceptThread` and `keepAliveThread` are the `std::thread` objects, `acceptor` and `keepAlive`
the loops running in them, `client[c]` a connection and its detached thread. The two platforms differ
in what matters here: a Windows handler runs in a thread of its own and closing the socket ends a
waiting `accept`; a POSIX handler interrupts the main thread, and a waiting `accept` goes on.
Each of the three places where the server starts a thread may find that there is none left
(`NoThreadLeft`): nothing catches the exception, and the process ends as "starved". What is
undefined is an action that ends the process (`JoinFails`, `RequestOutlivesServer`,
`HandlerOutlivesServer`). What a request or a sweep does is in the first two modules.

**`GuiSession`** — `MainWindow`. A session is one `MetadataClient` with the two managers that point to
it; `client`, `managers` and `listed` name the session they belong to. `calls` are the handlers that
wait in the loop of a message box or file dialog, the innermost first, each with its answer once the
user has given it. All boxes are owned by the window: opening one disables the window unless it is
disabled, and answering the one that did so enables it again, whatever boxes are open still
(`Enabled`). So the user may answer the outer of two (`AnswerBox`) and use the window while the inner
one is open; the outer handler goes on (`ReturnNo`, `ReturnFailed`, `Spawn`, `ReturnConfirmed`) when
the inner one has returned. `Dispatch`, the handling of a message a transfer has posted, happens in
any loop and may refresh the lists. `transfer[t]` is a detached thread, which reads the managers when
it begins (`Begin`), not when it was asked for. `BeginWithoutManager`, `UseDestroyed`, and the use of a
client that is gone by the window itself (`AskWithoutClient`, `DispatchWithoutClient`) are the crashes,
`SpawnFails` is a thread that cannot be started. A request the window's own thread makes is one step,
as it takes no message meanwhile.

**`Framing`** — one message on one connection, byte by byte. What was sent may be cut anywhere, and
after it comes the end of the connection or nothing. `ReceiveByte`, `ReceiveClosed` and
`ReceiveFails` are `ReceiveMessage`; the loops around it are `AfterLine` and `AfterFailure`, for a
request, a reply, and the line in front of a chunk; `ReceiveData` is `ReceiveBinaryData`,
`ReceiveSome` the loop of its own that `RequestUploadNodes` has. The other modules take from this one
what it shows: a request is taken whole or not at all (`RegisterFile` in `FileCatalog`, the
registration in `Upload`), a chunk likewise (`StoreChunk` and `TryNode`), a reply may be short by any
number of lines and end in a cut one (`CutShort` in `Download`).

**`ChunkFiles`** — the bytes of one file: `ReadChunk` is the loop of `SplitFile`, `OpenForWriting`,
`Write`, `OpenForReading` and `Read` are the steps of the node's file handler with the sharing rules
it opens files under, `CreateOutput`, `WriteOutput` and `CloseOutput` are `AssembleFile`. Other
clients store the same chunks, calls fail at every step, disks are full, and the program of the node
may end (`Crash`). The node's threads are external, its file handler is not.

`MC*` modules hold the values of constants and the symmetry; the modules named `*Proofs` hold the
proofs. Definitions commented as a *slip* are changes the code could
suffer: put in the place of an action they make a property fail, which shows the property depends on
the code.

## The runs

| run | checks | bounds | states |
|---|---|---|---|
| `registry.cfg` | `TypeOK`, `RegistryBounded`, `InactiveMeansSilent`, `SilentNodeDeactivated` | 2 connections, 3 ids, limit 1, timeout 1 s, 3 s | 385 000 |
| `catalog.cfg` | `TypeOK`, `FilesWellFormed`, `ReplyIsTheFile`, `StatsNeverAhead`, `ListingMatchesHeader`, `RequestAnswered` | 2 connections, 4 names with 2 keys, 7 request bodies, 3 leftovers | 226 000 |
| `catalog_reply.cfg` | `ReplyMatchesHeader` is violated | as above | |
| `upload.cfg` | `TypeOK`, `CatalogReplicated`, `CatalogWhole`, `VisibleUntilRestart`, `ListedIdsKnown`, `ImplementsFileStore` | 2 uploads of one name, 2 machines, 3 ids, files of 1 and 2 chunks, 2 copies, 1 restart | 737 000 |
| `download.cfg` | `TypeOK`, `CacheHonest`, `SavedWasPublished` | 1 download, 2 machines, 2 ids, files of 1 and 2 chunks, 2 copies, one chunk that may be emptied | 357 000 |
| `download_shared.cfg` | `EveryReplicaAsked`, `DownloadEnds` | 2 downloads, 1 file of 1 chunk, 2 ids, 2 copies | 305 000 |
| `download_whole.cfg` | `DownloadedWhole` is violated | 1 download, 1 file of 2 chunks | |
| `server.cfg` | `TypeOK`, `ShutdownIsFinal`, `RegistryOutlivesSweep`, `CrashNeedsInterruptedRun`, `ExposureNeedsHandler`, `SignalEndsProcess` | 2 clients, both platforms | 14 600 |
| `server_stop.cfg` | `EveryThreadJoined` is violated | 1 client, Windows | |
| `gui.cfg` | `TypeOK`, `ListsOfThisServer`, `DialogKeepsSession`, `CrashNeedsEndedSession`, `OnlyLateFailureTakesClient`, `ResultIsShown` | 2 transfers, 3 connections | 277 000 |
| `framing.cfg` | `TypeOK`, `LinesAsSent`, `AllOrNothing`, `ReaderEnds` | lines of 1 to 5 bytes for a limit of 4, up to 6 lines for a limit of 2, 4 blocks of data | 113 000 |
| `chunks.cfg` | `TypeOK`, `SavedIsSource`, `CopiesKept` | 5 files of 0 to 4 bytes, chunks of 2, 3 calls at once | 112 000 |

What the passing runs show:

* The registry exceeds MAX_NODES by at most one node per other connection; a KEEP_ALIVE that slips in
  between the clock sample of a sweep and its lock is never undone; a node that stays silent loses
  its flag. Two connections are enough to have one between any two scopes of the other, next to the
  sweep; three ids with a limit of one exceed it; three seconds with a timeout of one let a contact
  time run out, be noticed, and be renewed.
* A registered file has consecutive indexes, two copies listed and the right size whatever lines the
  request had. A reply, which is written without the lock, is the file it names - all chunks, of the
  number and size announced - unless that very file is replaced meanwhile: then nothing is claimed of
  it. The statistics lag but never run ahead. The bodies cover order, gaps, duplicates, skipped
  first and last lines and a body over the line limit; one reader and one writer tear a reply.
* Whatever calls fail, the catalogue names copies that were stored, files are whole, a reported upload
  stays visible, ids are resolved or all unknown. A copy is missing only where a later request for the
  same chunk, perhaps of an upload that has given up since, has emptied it. Two uploads of one name
  overlap in every order and share a chunk; a file of two chunks with three ids has chunks on
  different pairs; one restart separates offer, storing and registration in every way (a second one
  would only repeat the loss). A machine can be offered twice with three ids on two machines.
* Positions never mislead the client about whose address it reads, even cut; every saved chunk is
  that of some file of the name at its place; no replica is passed over unless a cut reply of another
  download had spoilt its address. Two ids are two copies; two versions of a file, of one and two
  chunks with different first chunks, make torn, shortened and lengthened replies. The sharing of the
  cache needs two downloads, and one chunk is enough for it. `Restored` bounds which copies a machine may
  empty: those of the chunk both files have in `download.cfg`, none in the other two, where a node may
  answer that it has no chunk, or with wrong data, whatever it holds.
* `Run` never sets `running` again behind a `Shutdown`; the keep-alive thread is over before the
  registry is destroyed; but for a thread that cannot be started, `std::terminate` is called only where
  a signal interrupted `Run`, and a detached client thread meets a destroyed catalogue only where the
  handler has a thread of its own; a signal ends the process, unless a POSIX `accept` waits for ever for
  a connection: one that comes lets the process end. Two clients are one being served and one in the
  queue. What a lack of memory does (`std::bad_alloc`, which nothing catches either) is left out.
* The lists never show another server's files than the managers talk to, whatever boxes nest and in
  whatever order they are answered. A session lasts until the user has answered the file dialog or the
  confirmation asked in it; from then until the handler goes on it may end, and the transfer that is
  started then belongs to a session that is over. While the window stays connected only one thing takes
  its client: the message about an earlier connection that failed, left open behind a result box and
  closed late (`main_window.cpp:450`). The process crashes only over a session that has ended or lost
  its client. The outcome of a download is shown though boxes stay open, and that of an upload once it
  has ended. Three connections are one that fails and two that succeed; two transfers let results
  nest in each other.
* Lines are read as they were sent, and a request or a chunk whole or not at all, though a line cut
  by the end of the connection counts as one and the data may contain CR LF. Lines of one and two
  bytes fit the limit with their CR LF, those of three and four lose it, those of five leave a rest
  that looks like the end line; there are messages with as many lines as the limit, one and two more.
* A download that reports success has what was uploaded, up to the last chunk of its reply, unless
  one of two errors the code does not look at occurred: the reading of the local file ends in an
  error, taken for its end, or the closing of the output loses what the stream held. An acknowledged
  copy stays whole unless a later request for the same chunk, which empties the file first, fails.
  The files have no chunk, one, a short last one, and two equal ones; three calls are a reader, a
  writer and a third that has been given up.

The violated properties are statements of the code's own comments and messages; each is a finding in
`PROJECT.json`: the reply's first line can disagree with its lines; a truncated reply is saved as a
complete file; a stop from the handler's thread destroys the thread object of the keep-alive loop
unjoined, which terminates the process.

Other statements of the code that the models refute have a definition and no run of their own. To
see them: `INVARIANT NodeLimit` (the limit of nodes) or `INVARIANT DrawnIdIsUnused` (the uniqueness of
a drawn id) with `MaxNodes = 2` in `registry.cfg`, as test and insertion are in two lock scopes;
`SPECIFICATION SpecWithDelete` and `PROPERTY DeleteReturns` in `catalog.cfg`, as `DeleteFile` locks a
mutex it holds (no command reaches it); `INVARIANT CopiesOnDistinctMachines` in `upload.cfg`, as a
node that starts again has a new id beside its old one. The exceptions in `SavedIsSource` and
`CopiesKept` are of the same kind.

The deadlock check is off where everything may come to rest: in `upload.cfg` when all uploads have
ended, all ids are used and the server has had its restart; in `server.cfg` and `server_stop.cfg` when
the process has ended; in `gui.cfg` when it has, or the user does nothing; in `framing.cfg` when the
reader has ended or waits for ever; in `chunks.cfg` when upload and download are over.

## Fairness

* `NodeRegistry`: the clock advances, and the keep-alive thread, a loop of a sleep and a sweep, is
  scheduled and gets the mutex. Nothing is assumed of connections, whose threads wait for peers.
* `FileCatalog`: a thread that has taken a request continues; between taking it and answering there
  is only memory access and a mutex that no thread holds for long.
* `Download`: a call that was begun continues: every `ReceiveMessage` and `ReceiveBinaryData` has a
  time limit, and a failed read is an outcome in the model. The start of a download, uploads,
  restarts and listings are not fair.
* `ServerLife`: the threads are scheduled, the sleep of the keep-alive loop ends, `accept` takes a
  connection that is there. Signals, connections, answers of clients and failures need not come.
* `GuiSession`: threads are scheduled, a handler whose box was answered goes on when it is the
  innermost, and downloads end, as every call of theirs has a time limit. Uploads need not end:
  `RequestUploadNodes` reads and `StoreChunk` sends without one. Messages that were posted are strongly
  fair, because a loop takes them before it takes input, so that no sequence of clicks can keep them
  waiting. Nothing is assumed of the user, who may leave a box open for ever.
* `Framing`: `recv` returns when there is something, or the connection has ended; in `ReceiveMessage`
  and `ReceiveBinaryData` also when the time is over. Nothing makes `recv` fail in
  `RequestUploadNodes`, which sets no time limit: with a server that falls silent it waits for ever,
  and `ReaderEnds` excepts it.
* `Upload` claims no liveness for that reason, and `ChunkFiles` none.

## The proofs

All theorems are for every value of the constants, under the named assumptions only.

`NodeRegistryProofs` (`RegistryAssumption`: finitely many connections, numbers are numbers):

* `TypeCorrect`: `[]TypeOK`, by one step per action.
* `NoContactLost`: `[]InactiveMeansSilent`. The invariant is inductive together with
  `SamplesArePast`, the sweep's sample is not in the future: a node silent at the sample is silent
  now, unless a contact cleared the flag, and a contact sets both fields in one scope.
* `OvershootBounded`: `[]RegistryBounded`. `SlotsBounded` strengthens it: the nodes *and* the
  registrations past the capacity test together are at most `MaxNodes - 1 + Cardinality(Workers)`.
  Passing the test adds a registration when there are fewer than `MaxNodes` nodes; inserting turns a
  registration into a node.

`UploadProofs` (`UploadAssumption`: contents are non-empty, at least one copy):

* `UploadTypeCorrect`: `[]TypeOK`, inductive with `ProgressSound`: an upload under way has an offer of
  enough different nodes, all of them handed out, and known as long as the epoch lasts.
* `CatalogIsReplicated`: `[]CatalogReplicated`, with `HeldInv`, which says the same of the chunks
  placed and of the copies acknowledged: stored, and in `disk` or in `torn` since. The core is `SelectionDistinct`: the round robin selects
  different nodes for one chunk when the offer has at least `ReplicationFactor`, a fact about
  remainders (`RemaindersDiffer`). What was stored and who owns an id only grow (`OnlyAdded`), though disks do not.
* `CatalogIsWhole`: `[]CatalogWhole`; an upload in the inbox has placed all its chunks.
* `UploadStaysVisible`: `[]VisibleUntilRestart`, with `AnsweredVisible`.
* `ListedIdsAreKnown`: `[]ListedIdsKnown`, with `OfferedKnown` over the uploads of the current epoch.

* `UploadImplementsFileStore`: `Spec => FileStore!Spec` with the history of the catalogue hidden. Each
  action of `Upload` is one of the five of `FileStore` or changes nothing of it. The registration is
  the step that needs one more invariant: `OneServer`, the ids an upload has kept for its chunks come
  from the offer of one server, and an offer of a server that was restarted is unknown to the new one,
  so the ids listed are resolved together or not at all.

`FileCatalogProofs` (`CatalogAssumption`):

* `StatisticsAreNotAhead` and `ListingsMatch`, from `CatalogSound`: what a thread holds is numbered as a
  file in the catalogue is, and its count is no larger than what there has been.
* `RepliesAreTheFile`, with `RepliesSound`: as long as its entry was not replaced, a reader's header is
  that of the entry, its iterator is over the entry's chunks and not dangling, and its lines are the
  first of them; a registration under another key leaves the entry where it is.
* `TypeCorrect` and `FilesAreWellFormed`, from `CatalogTyped`, inductive with `CatalogSound`. The size
  of a file is a sum over its chunks, and `RegisterFile` adds the sizes up in the order of the lines,
  before it sorts them: `SortSum` says that the sorted chunks have the same sum, because sorting is a
  permutation and a sum does not depend on the order (`SumPermuted`).

`DownloadProofs` (`DownloadAssumption`: one or two copies, and contents are sequences of chunks):

* `SavedFilesWerePublished`. `DownloadSound` follows the hash of place *i* from the catalogue to the
  reply, to what the client wants, to what it saves; `WasAt` says that a file there has been under the
  name has it at place *i*, and survives every later change as the history only grows.
* `TypeCorrect`, `CacheIsHonest` and `EveryReplicaIsAsked`, from `DownloadTyped`. `Together` is the core:
  the nodes of a chunk were all known to the server when the file was registered or all unknown, new
  ids are never old ones, and a restart forgets all. So a line has either an address behind every id or
  behind none (`Written`); with two copies, a line without addresses has no third word. Whatever a cut
  leaves, the words at positions 3k-2 and 3k-1 are then an id and its ip, and only the last word can be
  wrong (`BeginningTeaches`): the cache has a node's own address, or one whose port was cut, whose id
  is in `spoilt` (`CacheSound`). `Asking` counts the nodes of the current chunk that have been asked.

`FramingProofs` (`BytesAssumption`, `MessagesAssumption`, `RequestsAssumption`, `LimitsAssumption`):
`TypeCorrect`, `LinesCorrect` and `AllOrNothingCorrect`, for any limit, any messages and any cut. The invariant `Inv` says where the
reader is: the bytes it has taken are those of the lines it returned, each with its CR LF, followed by
the line it is in (`Reading`), and what is left on the connection is the rest of the message up to the
cut. `AllOrNothing` is then a matter of what the end line can be confused with.

`ChunkFilesProofs` (`ChunkFilesAssumption`): `TypeCorrect`, `SavedCorrect` and `CopiesCorrect`, for any
file, chunk size and number of calls. `Inv` says that the chunks read are the pieces of the file in their
order and of full size up to the last, that a chunk file is the beginning of its chunk, whole unless
a writer has it open or a write of it has failed (`torn`), that a writer has its file for itself, and
that what has been assembled is a beginning of the source.

`ServerLifeProofs` (`PlatformsAssumption`: the platforms are the two): the five invariants of
`server.cfg`. They are inductive only
together: `StepsOfFunctions` says which steps a function has, `KeepAliveStops` and `ServedIsAccepted`
what the loops guarantee to who has joined them (the process may end at once where a thread cannot be
started, which all of them allow), `RunNeedsHandler` and `CrashIsInRun` that what goes
wrong needs a handler past its test of `running`.

`GuiSessionProofs` (`SessionsAssumption`: `MaxSessions` is a number): the five safety properties of
`gui.cfg`, one of them an action property. `CallSound` is the core: a question of the user disables the
window and belongs to the session that is open for as long as it is unanswered, since only the user at
an enabled window ends a session; a message about a failed connection is older than any session that
opens later; whose session a box belongs to is the open one if its client is there at all. No step but
an answer changes a box (`Kept`), so `CallsLast` carries this over every change of the session; with
`SessionSound`, `ClientExplained` (a client without a session is behind the message that failed) and
`TransfersSound` it is inductive.

With these every safety property of the passing runs is a theorem. Only model-checked are the liveness
properties, which are out of the prover's reach: `SilentNodeDeactivated`, `RequestAnswered`,
`DownloadEnds`, `SignalEndsProcess`, `ResultIsShown` and `ReaderEnds`.

Induction over numbers is carried out on sets of them: `Induction` (a set with 0 and the successors
of its members contains every number) follows from the least number of a set, which follows from
`NatLessThanWellFounded`. A fold or a recursive function is the CHOSEN function that satisfies its
equations, so a lemma first shows that one exists (`FoldExists`, `FlattenTwo`) before it can say
anything of its values (`SumOfSizesIs`, `WordsIs`).

Four things in the models changed because a proof did not go through:

* `Framing`: a request of one line, or one with a line behind the first that begins with the end line,
  would break `AllOrNothing`. `UPLOAD_COMPLETE` is the only request of several lines and those behind
  its first begin with a hash: `RequestsAssumption` says so of requests only, since a line of a
  listing begins with the name of a file, which may look like `END_FILES`. `recv` is asked for no more than what is missing of the data, and two overlapping cases of
  a CASE in `AfterRequestLine` are told apart.
* `FileCatalog`: the lines accepted are collected by the loop of the handler, a fold, in place of
  `SelectSeq`.
* `ChunkFiles`: the bytes and the contents of the local file are typed by an assumption.
* `Download`: `FlattenSeq` in place of a fold of its own, and the cache after a reply is described by
  the last line that has an address for the node.

## Not modelled

* `ChunkViewer` and the layout of the window: they show what one call returned and keep no state of
  the system. `list`, `help` and the arguments of the command-line client, likewise.
* The process of the storage node, which is not in the repository: `NodeRegistry`, `Upload`,
  `Download` and `ChunkFiles` take it from how the server and `NodeClient` use it.
* `UnregisterNode`, `RemoveInactiveNodes`, `DeleteFile` and the directory calls of the file handler,
  `VerifyHash` and the hash of a file: nothing calls them. (`MetadataManager::DeleteFile` is modelled
  all the same.)
* `MAX_CLIENTS`, compared with a vector that is always empty: `ServerLife` has no limit.
* A `std::unordered_map` damaged by two writers at once, which is possible in `nodeCache`: the memory
  of a library is below these models. `Download` has the lost and stale entries of the sharing.
* Formatting, logging and progress reports, which no property is about. Errors of Winsock are
  outcomes of calls.

## Plan

1. Registry, catalogue, upload, download with their abstract store (done).
2. Framing, server life cycle, graphical client, chunk files (done).
3. Theorems: every safety property of the passing runs, and the refinement (done).
4. Left: what `MetadataClient::ListFiles` makes of names with blanks; replies of more than two
   replicas, for which `CacheHonest` would not hold of a line of ids alone; larger instances for the
   liveness properties.
