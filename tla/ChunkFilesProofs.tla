-------------------------- MODULE ChunkFilesProofs --------------------------
(***************************************************************************)
(* Proofs about ChunkFiles, for all files, any size of a chunk and any     *)
(* number of threads of the node.                                          *)
(***************************************************************************)
EXTENDS ChunkFiles, TLAPS

USE ChunkFilesAssumption

File == Seq(Byte)
Name == [sha256 : File]

CallType ==
    [op : {"none", "write", "read"}, id : Name, client : {"other", "sender", "receiver"},
     at : {"idle", "opening", "open", "used", "failed"}, ok : BOOLEAN, data : File]

SenderType ==
    [at : {"reading", "storing", "waiting", "done", "failed"}, chunks : Seq(File), stored : Nat]

ReceiverType ==
    [at : {"idle", "fetching", "waiting", "writing", "done", "failed"},
     wanted : Seq(Name), got : Seq(File), written : Nat]

Types ==
    /\ source \in Sources
    /\ sender \in SenderType
    /\ disk \in [DOMAIN disk -> File]
    /\ call \in [Calls -> CallType]
    /\ receiver \in ReceiverType
    /\ output \in File
    /\ readError \in BOOLEAN /\ flushError \in BOOLEAN
    /\ torn \subseteq Ids

----------------------------------------------------------------------------
(* The invariant, in the order a chunk takes.                              *)

Least(m, n) == IF m < n THEN m ELSE n

(* The source up to the end of its i-th chunk, and that chunk.             *)
EndOf(i)  == Least(i * ChunkSize, Len(source))
UpTo(i)   == SubSeq(source, 1, EndOf(i))
Slice(i)  == SubSeq(source, ((i - 1) * ChunkSize) + 1, EndOf(i))

(* The chunks are the slices of the source as long as reading has not      *)
(* failed, and when it is over they are all of them.                       *)
SplitSound ==
    /\ \A i \in 1..Len(sender.chunks) : sender.chunks[i] # <<>> /\ Hash(sender.chunks[i]) \in Ids
    /\ ~readError => \A i \in 1..Len(sender.chunks) : sender.chunks[i] = Slice(i)
    /\ sender.at = "reading" => ~readError /\ Len(sender.chunks) * ChunkSize <= Len(source)
    /\ sender.at \notin {"reading", "failed"} /\ ~readError =>
          Len(source) <= Len(sender.chunks) * ChunkSize

(* One thread's call, with the file it is about.                           *)
CallSound(c) ==
    /\ c.ok => c.at = "used"
    /\ c.at \in {"open", "used"} => c.id \in DOMAIN disk
    /\ c.op = "write" =>
          /\ c.id = Hash(c.data) /\ c.id \in Ids
          /\ c.ok => disk[c.id] = c.data
          /\ c.at = "used" /\ ~c.ok => c.id \in torn
    /\ c.op = "read" /\ c.ok => c.id = Hash(c.data) \/ c.id \in torn

CallsSound == \A t \in Calls : CallSound(call[t])

(* A file that is being written is open in one thread only.                *)
WritersExclude ==
    \A t, u \in Calls : \A id \in Name :
        t # u /\ Holds(t, id) /\ Holds(u, id) => call[t].op # "write"

(* A chunk file is whole, or has been torn, or is being written.           *)
DiskSound ==
    /\ DOMAIN disk \subseteq Ids
    /\ \A id \in DOMAIN disk :
          /\ IsPrefix(disk[id], id.sha256)
          /\ id = Hash(disk[id]) \/ id \in torn \/ Writing(id)

(* What each of the two clients waits for.                                 *)
SenderWaits(c) ==
    /\ sender.at = "waiting" /\ sender.stored < Len(sender.chunks)
    /\ c.op = "write" /\ c.id = Hash(sender.chunks[sender.stored + 1])

ReceiverWaits(c) ==
    /\ receiver.at = "waiting" /\ Len(receiver.got) < Len(receiver.wanted)
    /\ c.op = "read" /\ c.id = receiver.wanted[Len(receiver.got) + 1]

ClientsSound ==
    \A t \in Calls :
        /\ call[t].client = "sender" => SenderWaits(call[t])
        /\ call[t].client = "receiver" => ReceiverWaits(call[t])
        /\ \A u \in Calls \ {t} : call[t].client = call[u].client => call[t].client = "other"

StoredSound ==
    /\ sender.stored <= Len(sender.chunks)
    /\ \A i \in 1..sender.stored : Hash(sender.chunks[i]) \in DOMAIN disk

(* What has been fetched are the first chunks, and what has been written   *)
(* are the first bytes.                                                    *)
LoadSound ==
    /\ IF receiver.at = "idle" THEN receiver.got = <<>> ELSE sender.at = "done"
    /\ Len(receiver.wanted) <= Len(sender.chunks)
    /\ \A i \in 1..Len(receiver.wanted) : receiver.wanted[i] = Hash(sender.chunks[i])
    /\ Len(receiver.got) <= Len(receiver.wanted)
    /\ \A i \in 1..Len(receiver.got) : receiver.got[i] = sender.chunks[i]

OutputSound ==
    /\ receiver.at \in {"idle", "fetching", "waiting"} => receiver.written = 0
    /\ receiver.at = "writing" =>
          /\ receiver.written <= Len(receiver.got)
          /\ Len(receiver.got) = Len(receiver.wanted)
          /\ ~readError => output = UpTo(receiver.written)
    /\ receiver.at = "done" /\ ~readError /\ ~flushError => output = UpTo(Len(receiver.wanted))

Inv ==
    /\ Types
    /\ SplitSound
    /\ CallsSound /\ WritersExclude
    /\ DiskSound
    /\ ClientsSound
    /\ StoredSound
    /\ LoadSound
    /\ OutputSound

----------------------------------------------------------------------------
(* Files and chunks.                                                       *)

LEMMA HashTellsApart ==
    ASSUME NEW a, NEW b
    PROVE  /\ Hash(a) = Hash(b) <=> a = b
           /\ Hash(a).sha256 = a
  BY DEF Hash

LEMMA HashIsName ==
    ASSUME NEW a \in File
    PROVE  Hash(a) \in Name
  BY DEF Hash, Name

LEMMA SubSeqIsFile ==
    ASSUME NEW f \in File, NEW m \in Nat \ {0}, NEW n \in Nat, n <= Len(f)
    PROVE  /\ SubSeq(f, m, n) \in File
           /\ Len(SubSeq(f, m, n)) = IF m <= n THEN (n - m) + 1 ELSE 0
  BY DEF File

LEMMA PrefixIsFile ==
    ASSUME NEW f \in File, NEW n \in Nat, n <= Len(f)
    PROVE  /\ SubSeq(f, 1, n) \in File
           /\ IsPrefix(SubSeq(f, 1, n), f)
           /\ n = Len(f) => SubSeq(f, 1, n) = f
  BY DEF File, IsPrefix

LEMMA PrefixOfSubSeq ==
    ASSUME NEW f \in File, NEW m \in Nat, NEW e \in Nat, e <= Len(f), NEW n \in Nat, m + n <= e
    PROVE  SubSeq(SubSeq(f, m + 1, e), 1, n) = SubSeq(f, m + 1, m + n)
  BY DEF File

LEMMA Appending ==
    ASSUME NEW s \in Seq(File), NEW e \in File
    PROVE  /\ Append(s, e) \in Seq(File) /\ Append(s, e) # <<>>
           /\ Len(Append(s, e)) = Len(s) + 1
           /\ \A i \in 1..Len(s) : Append(s, e)[i] = s[i]
           /\ Append(s, e)[Len(s) + 1] = e
  OBVIOUS

(* Where the slices of the source begin and end.                           *)
LEMMA SliceBounds ==
    ASSUME source \in File, NEW i \in Nat
    PROVE  /\ i * ChunkSize \in Nat
           /\ (i + 1) * ChunkSize = (i * ChunkSize) + ChunkSize
           /\ EndOf(i) \in 0..Len(source)
           /\ UpTo(i) \in File
  <1>1. i * ChunkSize \in Nat /\ (i + 1) * ChunkSize = (i * ChunkSize) + ChunkSize
    OBVIOUS
  <1>2. EndOf(i) \in 0..Len(source)
    BY <1>1 DEF EndOf, Least, File
  <1> QED
    BY <1>1, <1>2, PrefixIsFile DEF UpTo

LEMMA NextPiece ==
    ASSUME Types, Len(sender.chunks) * ChunkSize <= Len(source)
    PROVE  /\ Piece = Slice(Len(sender.chunks) + 1)
           /\ Piece \in File
           /\ Len(Piece) = Least(ChunkSize, Len(source) - (Len(sender.chunks) * ChunkSize))
<1> DEFINE k == Len(sender.chunks)
<1>1. k \in Nat /\ source \in File
  BY DEF Types, SenderType, File
<1>2. PICK from : from = k * ChunkSize
  OBVIOUS
<1>3. from \in Nat /\ (k + 1) * ChunkSize = from + ChunkSize
  BY <1>1, <1>2, SliceBounds
<1>4. (k + 1) - 1 = k
  BY <1>1
<1>5. Slice(k + 1) = SubSeq(source, from + 1, Least(from + ChunkSize, Len(source)))
  BY <1>2, <1>3, <1>4 DEF Slice, EndOf
<1>6. from <= Len(source) /\ Len(source) \in Nat
  BY <1>1, <1>2 DEF File
<1>7. /\ Least(ChunkSize, Len(source) - from) \in Nat
      /\ from + Least(ChunkSize, Len(source) - from) <= Len(source)
      /\ from + Least(ChunkSize, Len(source) - from) = Least(from + ChunkSize, Len(source))
  BY <1>3, <1>6 DEF Least
<1>8. Piece = SubSeq(source, from + 1, from + Least(ChunkSize, Len(source) - from))
  <2>1. Piece = SubSeq(source, from + 1,
                       from + (IF Len(source) - from < ChunkSize THEN Len(source) - from ELSE ChunkSize))
    BY <1>2 DEF Piece
  <2>2. (IF Len(source) - from < ChunkSize THEN Len(source) - from ELSE ChunkSize)
           = Least(ChunkSize, Len(source) - from)
    BY <1>3, <1>6 DEF Least
  <2> QED
    BY <2>1, <2>2
<1>9. /\ Piece \in File
      /\ Len(Piece) = Least(ChunkSize, Len(source) - from)
  BY <1>1, <1>3, <1>7, <1>8, SubSeqIsFile
<1> QED
  BY <1>2, <1>5, <1>7, <1>8, <1>9

LEMMA SliceIsId ==
    ASSUME NEW f \in Sources, NEW i \in 1..Len(f), NEW j \in i..Len(f), (j - i) + 1 <= ChunkSize
    PROVE  Hash(SubSeq(f, i, j)) \in Ids /\ SubSeq(f, i, j) # <<>>
<1>1. f \in File /\ i \in Nat \ {0} /\ j \in Nat /\ j <= Len(f) /\ j \in 1..Len(f)
  BY DEF File
<1>2. Len(SubSeq(f, i, j)) = (j - i) + 1
  BY <1>1, SubSeqIsFile
<1>3. SubSeq(f, i, j) # <<>>
  BY <1>1, <1>2
<1>4. SubSeq(f, i, j) \in Pieces(f)
  BY <1>1, <1>3 DEF Pieces
<1> QED
  BY <1>2, <1>3, <1>4 DEF Ids

LEMMA SameSlices ==
    ASSUME source' = source
    PROVE  \A i : Slice(i)' = Slice(i) /\ UpTo(i)' = UpTo(i) /\ EndOf(i)' = EndOf(i)
  BY DEF Slice, UpTo, EndOf, Least

----------------------------------------------------------------------------
(* SplitFile.                                                              *)

LEMMA SplitKept ==
    ASSUME SplitSound, source' = source, sender'.chunks = sender.chunks, readError' = readError,
           sender'.at = sender.at
              \/ sender'.at = "failed"
              \/ (sender.at \notin {"reading", "failed"} /\ sender'.at # "reading")
    PROVE  SplitSound'
<1>1. \A i : Slice(i)' = Slice(i)
  BY SameSlices
<1> QED
  BY <1>1 DEF SplitSound

LEMMA SplitByReadChunk ==
    ASSUME Types, SplitSound, NEW n \in 0..ChunkSize, ReadChunk(n)
    PROVE  SplitSound' /\ sender' \in SenderType /\ readError' \in BOOLEAN
<1>0. PICK k, from, piece : k = Len(sender.chunks) /\ from = k * ChunkSize /\ piece = SubSeq(Piece, 1, n)
  OBVIOUS
<1>1. /\ sender.at = "reading" /\ n <= Len(Piece) /\ source' = source
      /\ ~readError /\ from <= Len(source)
      /\ readError' \in BOOLEAN /\ (readError' <=> n < Len(Piece))
  BY <1>0 DEF ReadChunk, SplitSound, Types
<1>2. k \in Nat /\ source \in File /\ sender \in SenderType /\ source \in Sources
  BY <1>0 DEF Types, SenderType, File
<1>3. from \in Nat /\ (k + 1) * ChunkSize = from + ChunkSize
  BY <1>0, <1>2, SliceBounds
<1>4. /\ Piece = Slice(k + 1)
      /\ Piece \in File
      /\ Len(Piece) = Least(ChunkSize, Len(source) - from)
  BY <1>0, <1>1, NextPiece
<1>5. \A i : Slice(i)' = Slice(i)
  BY <1>1, SameSlices
<1>6. piece \in File /\ (n = Len(Piece) => piece = Piece)
  BY <1>0, <1>1, <1>4, PrefixIsFile
<1>7. Len(source) \in Nat /\ Len(Piece) \in Nat /\ Len(Piece) <= ChunkSize /\ Len(Piece) <= Len(source) - from
      /\ (Len(Piece) < ChunkSize => from + Len(Piece) = Len(source))
  BY <1>1, <1>2, <1>3, <1>4 DEF Least, File
<1>8. readError' \in BOOLEAN /\ (~readError' <=> n = Len(Piece))
  BY <1>1, <1>7
<1>9. CASE n = 0
  <2>1. sender' = [sender EXCEPT !.chunks = sender.chunks, !.at = SplitEnds(sender.chunks)]
    <3>1. n < ChunkSize
      BY <1>9
    <3> QED
      BY <1>9, <3>1 DEF ReadChunk
  <2>2. /\ sender'.chunks = sender.chunks /\ sender'.at \in {"failed", "storing"}
        /\ sender' \in SenderType
    BY <1>2, <2>1 DEF SenderType, SplitEnds
  <2>3. ~readError' => Len(source) <= from
    BY <1>3, <1>7, <1>8, <1>9
  <2> QED
    BY <1>0, <1>1, <1>5, <1>8, <2>2, <2>3 DEF SplitSound
<1>10. CASE n # 0
  <2>1. sender' = [sender EXCEPT !.chunks = Append(sender.chunks, piece),
                     !.at = IF n < ChunkSize THEN SplitEnds(Append(sender.chunks, piece)) ELSE "reading"]
    BY <1>0, <1>10 DEF ReadChunk
  <2>2. /\ Append(sender.chunks, piece) \in Seq(File)
        /\ Append(sender.chunks, piece) # <<>>
        /\ Len(Append(sender.chunks, piece)) = k + 1
        /\ \A i \in 1..k : Append(sender.chunks, piece)[i] = sender.chunks[i]
        /\ Append(sender.chunks, piece)[k + 1] = piece
    <3>1. sender.chunks \in Seq(File) /\ piece \in File /\ k = Len(sender.chunks)
      BY <1>0, <1>2, <1>6 DEF SenderType
    <3> QED
      BY <3>1, Appending
  <2>3. /\ sender'.chunks = Append(sender.chunks, piece)
        /\ sender'.at = IF n < ChunkSize THEN "storing" ELSE "reading"
        /\ sender' \in SenderType
    BY <1>2, <2>1, <2>2 DEF SenderType, SplitEnds
  <2>4. piece # <<>> /\ Hash(piece) \in Ids
    <3>1. (k + 1) - 1 = k
      BY <1>2
    <3>2. Piece = SubSeq(source, from + 1, EndOf(k + 1))
      BY <1>0, <1>4, <3>1 DEF Slice
    <3>3. EndOf(k + 1) \in 0..Len(source) /\ EndOf(k + 1) = Least(from + ChunkSize, Len(source))
      <4>1. k + 1 \in Nat
        BY <1>2
      <4>2. EndOf(k + 1) \in 0..Len(source)
        BY <1>2, <4>1, SliceBounds
      <4> QED
        BY <1>3, <4>2 DEF EndOf
    <3>4. from + 1 \in 1..Len(source) /\ from + n \in (from + 1)..Len(source) /\ from + n <= EndOf(k + 1)
      BY <1>1, <1>3, <1>4, <1>7, <1>10, <3>3 DEF Least, File
    <3>5. piece = SubSeq(source, from + 1, from + n)
      <4>1. EndOf(k + 1) \in Nat /\ EndOf(k + 1) <= Len(source) /\ n \in Nat /\ from + n <= EndOf(k + 1)
        BY <1>2, <1>7, <3>3, <3>4
      <4>2. /\ source \in File /\ from \in Nat
            /\ piece = SubSeq(SubSeq(source, from + 1, EndOf(k + 1)), 1, n)
        BY <1>0, <1>2, <1>3, <3>2
      <4> QED
        BY <4>1, <4>2, PrefixOfSubSeq
    <3> QED
      <4>1. ((from + n) - (from + 1)) + 1 <= ChunkSize
        BY <1>3
      <4> QED
        BY <1>2, <3>4, <3>5, <4>1, SliceIsId
  <2>5. ~readError' => piece = Slice(k + 1)
    BY <1>0, <1>4, <1>6, <1>8
  <2>6. n = ChunkSize => ~readError' /\ from + ChunkSize <= Len(source)
    <3> SUFFICES ASSUME n = ChunkSize PROVE n = Len(Piece) /\ from + ChunkSize <= Len(source)
      BY <1>8
    <3> QED
      BY <1>1, <1>3, <1>7
  <2>7. n < ChunkSize /\ ~readError' => Len(source) <= from + ChunkSize
    BY <1>3, <1>7, <1>8
  <2>8. \A i \in 1..(k + 1) : i \in 1..k \/ i = k + 1
    BY <1>2
  <2>9. \A i \in 1..(k + 1) :
           sender'.chunks[i] # <<>> /\ Hash(sender'.chunks[i]) \in Ids
    BY <1>0, <2>2, <2>3, <2>4, <2>8 DEF SplitSound
  <2>10. ~readError' => \A i \in 1..(k + 1) : sender'.chunks[i] = Slice(i)'
    BY <1>0, <1>1, <1>5, <2>2, <2>3, <2>5, <2>8 DEF SplitSound
  <2>11. Len(sender'.chunks) * ChunkSize = from + ChunkSize /\ Len(sender'.chunks) = k + 1
    BY <1>3, <2>2, <2>3
  <2>12. n = ChunkSize \/ n < ChunkSize
    OBVIOUS
  <2> QED
    BY <1>0, <1>1, <1>8, <2>3, <2>6, <2>7, <2>9, <2>10, <2>11, <2>12 DEF SplitSound
<1> QED
  BY <1>9, <1>10

----------------------------------------------------------------------------
(* The node.                                                               *)

LEMMA IdleIsCall == Idle \in CallType /\ Idle.op = "none" /\ Idle.at = "idle" /\ ~Idle.ok /\ Idle.client = "other"
  BY DEF Idle, CallType, Name, File, Hash

(* A call that goes on, ends or begins, without touching a file.  It opens *)
(* none but one nobody is writing, to read it, and it does not stop        *)
(* writing.                                                                *)
LEMMA NodeStep ==
    ASSUME Types, CallsSound, WritersExclude, DiskSound,
           NEW t \in Calls, NEW c \in CallType, call' = [call EXCEPT ![t] = c],
           disk' = disk, torn' = torn,
           CallSound(c),
           c.at \in {"open", "used"} =>
              /\ c.id = call[t].id /\ c.op = call[t].op
              /\ call[t].at \in {"open", "used"} \/ (c.op = "read" /\ ~Writing(c.id)),
           call[t].op = "write" /\ call[t].at = "open" => c.op = "write" /\ c.at = "open" /\ c.id = call[t].id
    PROVE  CallsSound' /\ WritersExclude' /\ DiskSound' /\ call' \in [Calls -> CallType]
<1>1. call' \in [Calls -> CallType] /\ call'[t] = c /\ \A u \in Calls \ {t} : call'[u] = call[u]
  BY DEF Types
<1>2. CallsSound'
  BY <1>1 DEF CallsSound, CallSound
<1>3. \A u \in Calls : \A id \in Name :
         Holds(u, id)' => \/ Holds(u, id) /\ call'[u].op = call[u].op
                          \/ u = t /\ c.op = "read" /\ ~Writing(id)
  BY <1>1 DEF Holds
<1>4. WritersExclude'
  <2> SUFFICES ASSUME NEW u \in Calls, NEW v \in Calls, NEW id \in Name, u # v, Holds(u, id)', Holds(v, id)'
               PROVE  call'[u].op # "write"
    BY DEF WritersExclude
  <2>1. CASE Holds(u, id) /\ Holds(v, id)
    BY <1>3, <2>1 DEF WritersExclude
  <2>2. CASE ~Holds(u, id)
    BY <1>1, <1>3, <2>2
  <2>3. CASE Holds(u, id) /\ ~Holds(v, id)
    BY <1>1, <1>3, <2>3 DEF Writing
  <2> QED
    BY <2>1, <2>2, <2>3
<1>5. DiskSound'
  <2> SUFFICES ASSUME NEW id \in DOMAIN disk, id # Hash(disk[id]), id \notin torn, Writing(id)
               PROVE  Writing(id)'
    BY DEF DiskSound
  <2>1. PICK u \in Calls : Holds(u, id) /\ call[u].op = "write"
    BY DEF Writing
  <2>2. call[u].at = "open"
    <3>1. CallSound(call[u]) /\ call[u].id = id
      BY <2>1 DEF CallsSound, Holds
    <3> QED
      BY <2>1, <3>1 DEF CallSound, Holds
  <2> QED
    BY <1>1, <2>1, <2>2 DEF Writing, Holds
<1> QED
  BY <1>1, <1>2, <1>4, <1>5

LEMMA NodeOpens ==
    ASSUME Types, CallsSound, WritersExclude, DiskSound, NEW t \in Calls, OpenForWriting(t)
    PROVE  /\ CallsSound' /\ WritersExclude' /\ DiskSound' /\ call' \in [Calls -> CallType]
           /\ disk' \in [DOMAIN disk' -> File] /\ DOMAIN disk \subseteq DOMAIN disk'
<1>0. PICK id : id = call[t].id
  OBVIOUS
<1>1. /\ call[t].op = "write" /\ call[t].at = "opening" /\ ~InUse(id)
      /\ call' = [call EXCEPT ![t] = [call[t] EXCEPT !.at = "open"]]
      /\ disk' = Emptied(id) /\ torn' = torn
  BY <1>0 DEF OpenForWriting, Step
<1>2. call[t] \in CallType /\ call \in [Calls -> CallType]
  BY DEF Types
<1>3. /\ [call[t] EXCEPT !.at = "open"] \in CallType
      /\ call' \in [Calls -> CallType] /\ call'[t] = [call[t] EXCEPT !.at = "open"]
      /\ \A u \in Calls \ {t} : call'[u] = call[u]
  BY <1>1, <1>2 DEF CallType
<1>4. /\ DOMAIN disk' = DOMAIN disk \cup {id} /\ disk'[id] = <<>>
      /\ \A i \in DOMAIN disk : i # id => disk'[i] = disk[i]
  BY <1>1 DEF Emptied
<1>5. disk' \in [DOMAIN disk' -> File]
  BY <1>1, <1>4 DEF Types, Emptied, File
<1>6. CallSound(call[t]) /\ id = Hash(call[t].data) /\ id \in Ids /\ call[t].data \in File /\ id \in Name
  BY <1>0, <1>1, <1>2 DEF CallsSound, CallSound, CallType
<1>7. CallsSound'
  <2> SUFFICES ASSUME NEW u \in Calls PROVE CallSound(call[u])'
    BY DEF CallsSound
  <2>1. CASE u = t
    BY <1>0, <1>1, <1>2, <1>3, <1>4, <1>6, <2>1 DEF CallSound, CallType
  <2>2. CASE u # t
    <3>1. CallSound(call[u]) /\ call'[u] = call[u]
      BY <1>3, <2>2 DEF CallsSound
    <3>2. call[u].id = id => call[u].at \notin {"open", "used"}
      BY <1>1 DEF InUse, Holds
    <3>3. call[u].at \in {"open", "used"} /\ call[u].id \in DOMAIN disk => disk'[call[u].id] = disk[call[u].id]
      BY <1>4, <3>2
    <3>4. torn' = torn /\ \A i \in DOMAIN disk : i \in DOMAIN disk'
      BY <1>1, <1>4
    <3> QED
      BY <3>1, <3>3, <3>4 DEF CallSound
  <2> QED
    BY <2>1, <2>2
<1>8. \A u \in Calls : \A i \in Name : Holds(u, i)' <=> Holds(u, i) \/ (u = t /\ i = id)
  <2>1. ASSUME NEW u \in Calls, NEW i PROVE Holds(u, i)' <=> Holds(u, i) \/ (u = t /\ i = id)
    <3>1. CASE u = t
      BY <1>0, <1>1, <1>2, <1>3, <3>1 DEF Holds, CallType
    <3>2. CASE u # t
      <4>1. call'[u] = call[u]
        BY <1>3, <3>2
      <4> QED
        BY <3>2, <4>1 DEF Holds
    <3> QED
      BY <3>1, <3>2
  <2> QED
    BY <2>1
<1>9. \A u \in Calls : call'[u].op = call[u].op
  BY <1>2, <1>3 DEF CallType
<1>10. WritersExclude'
  BY <1>1, <1>8, <1>9 DEF WritersExclude, InUse
<1>11. DiskSound'
  <2>1. DOMAIN disk' \subseteq Ids
    BY <1>4, <1>6 DEF DiskSound
  <2>2. ASSUME NEW i \in DOMAIN disk', i # id
        PROVE  IsPrefix(disk'[i], i.sha256) /\ (i = Hash(disk'[i]) \/ i \in torn' \/ Writing(i)')
    <3>1. i \in DOMAIN disk /\ disk'[i] = disk[i]
      BY <1>4, <2>2
    <3>2. Writing(i) => Writing(i)'
      BY <1>1, <1>3 DEF Writing, Holds
    <3> QED
      BY <1>1, <3>1, <3>2 DEF DiskSound
  <2>3. IsPrefix(disk'[id], id.sha256)
    <3>1. id.sha256 \in File
      BY <1>6, HashTellsApart
    <3> QED
      BY <1>4, <3>1 DEF IsPrefix, File
  <2>4. Writing(id)'
    BY <1>1, <1>3, <1>6, <1>8, <1>9 DEF Writing
  <2> QED
    BY <2>1, <2>2, <2>3, <2>4 DEF DiskSound
<1> QED
  BY <1>3, <1>4, <1>5, <1>7, <1>10, <1>11

LEMMA NodeWrites ==
    ASSUME Types, CallsSound, WritersExclude, DiskSound, NEW t \in Calls, NEW n \in 0..ChunkSize, Write(t, n)
    PROVE  /\ CallsSound' /\ WritersExclude' /\ DiskSound' /\ call' \in [Calls -> CallType]
           /\ disk' \in [DOMAIN disk' -> File] /\ DOMAIN disk' = DOMAIN disk /\ torn' \subseteq Ids
<1> DEFINE id == call[t].id
           data == call[t].data
           c == [call[t] EXCEPT !.at = "used", !.ok = (n = Len(data))]
<1>1. /\ call[t].op = "write" /\ call[t].at = "open" /\ n <= Len(data)
      /\ call' = [call EXCEPT ![t] = c]
      /\ disk' = [disk EXCEPT ![id] = SubSeq(data, 1, n)]
      /\ torn' = IF n < Len(data) THEN torn \cup {id} ELSE torn
  BY DEF Write, Step
<1>2. call[t] \in CallType /\ call \in [Calls -> CallType] /\ data \in File /\ id \in Name
  BY DEF Types, CallType
<1>3. /\ c \in CallType /\ c.op = "write" /\ c.at = "used" /\ c.id = id /\ c.data = data
      /\ (c.ok <=> n = Len(data))
  BY <1>1, <1>2 DEF CallType
<1>4. call' \in [Calls -> CallType] /\ call'[t] = c /\ \A u \in Calls \ {t} : call'[u] = call[u]
  BY <1>1, <1>2, <1>3
<1>5. id = Hash(data) /\ id \in Ids /\ id \in DOMAIN disk
  BY <1>1 DEF CallsSound, CallSound
<1>6. DOMAIN disk' = DOMAIN disk /\ disk'[id] = SubSeq(data, 1, n) /\ \A i \in DOMAIN disk : i # id => disk'[i] = disk[i]
  BY <1>1, <1>5 DEF Types
<1>7. /\ SubSeq(data, 1, n) \in File /\ IsPrefix(SubSeq(data, 1, n), data)
      /\ n = Len(data) => SubSeq(data, 1, n) = data
  BY <1>1, <1>2, PrefixIsFile
<1>8. disk' \in [DOMAIN disk' -> File] /\ torn' \subseteq Ids
  BY <1>1, <1>5, <1>6, <1>7 DEF Types
<1>9. torn \subseteq torn' /\ (n = Len(data) \/ id \in torn')
  BY <1>1, <1>2 DEF File
<1>10. CallsSound'
  <2> SUFFICES ASSUME NEW u \in Calls PROVE CallSound(call[u])'
    BY DEF CallsSound
  <2>1. CASE u = t
    BY <1>3, <1>4, <1>5, <1>6, <1>7, <1>9, <2>1 DEF CallSound
  <2>2. CASE u # t
    <3>1. CallSound(call[u]) /\ call'[u] = call[u]
      BY <1>4, <2>2 DEF CallsSound
    <3>2. call[u].id = id => call[u].at \notin {"open", "used"}
      BY <1>1, <1>2, <2>2 DEF WritersExclude, Holds
    <3> QED
      BY <1>6, <1>9, <3>1, <3>2 DEF CallSound
  <2> QED
    BY <2>1, <2>2
<1>11. \A u \in Calls : \A i : (Holds(u, i)' <=> Holds(u, i)) /\ call'[u].op = call[u].op
  BY <1>1, <1>3, <1>4 DEF Holds
<1>12. WritersExclude'
  BY <1>11 DEF WritersExclude
<1>13. DiskSound'
  <2>1. ASSUME NEW i \in DOMAIN disk', i # id
        PROVE  IsPrefix(disk'[i], i.sha256) /\ (i = Hash(disk'[i]) \/ i \in torn' \/ Writing(i)')
    <3>1. i \in DOMAIN disk /\ disk'[i] = disk[i]
      BY <1>6, <2>1
    <3>2. Writing(i) => Writing(i)'
      BY <1>11 DEF Writing
    <3> QED
      BY <1>9, <3>1, <3>2 DEF DiskSound
  <2>2. IsPrefix(disk'[id], id.sha256) /\ (id = Hash(disk'[id]) \/ id \in torn')
    <3>1. id.sha256 = data
      BY <1>5, HashTellsApart
    <3>2. CASE n = Len(data)
      BY <1>5, <1>6, <1>7, <3>1, <3>2
    <3>3. CASE id \in torn'
      BY <1>6, <1>7, <3>1, <3>3
    <3> QED
      BY <1>9, <3>2, <3>3
  <2> QED
    BY <1>6, <2>1, <2>2 DEF DiskSound
<1> QED
  BY <1>4, <1>6, <1>8, <1>10, <1>12, <1>13

LEMMA NodeCrashes ==
    ASSUME Types, CallsSound, DiskSound, Crash
    PROVE  CallsSound' /\ WritersExclude' /\ DiskSound' /\ call' \in [Calls -> CallType] /\ torn' \subseteq Ids
<1>1. /\ \A t \in Calls : call'[t] = Idle
      /\ call' \in [Calls -> CallType] /\ disk' = disk
      /\ torn' = torn \cup {call[t].id : t \in {u \in Calls : call[u].op = "write" /\ call[u].at = "open"}}
  BY IdleIsCall DEF Crash
<1>2. CallsSound' /\ WritersExclude'
  BY <1>1, IdleIsCall DEF CallsSound, CallSound, WritersExclude, Holds
<1>3. torn' \subseteq Ids
  BY <1>1 DEF CallsSound, CallSound, Types
<1>4. DiskSound'
  <2> SUFFICES ASSUME NEW id \in DOMAIN disk, id # Hash(disk[id]), id \notin torn, Writing(id)
               PROVE  id \in torn'
    BY <1>1 DEF DiskSound
  <2>1. PICK u \in Calls : Holds(u, id) /\ call[u].op = "write"
    BY DEF Writing
  <2>2. CallSound(call[u]) /\ call[u].id = id
    BY <2>1 DEF CallsSound, Holds
  <2>3. call[u].at = "open"
    BY <2>1, <2>2 DEF CallSound, Holds
  <2> QED
    BY <1>1, <2>1, <2>2, <2>3
<1> QED
  BY <1>1, <1>2, <1>3, <1>4

----------------------------------------------------------------------------
(* The two clients, while a call of theirs goes on.                        *)

LEMMA ClientsStep ==
    ASSUME ClientsSound, call \in [Calls -> CallType],
           NEW t \in Calls, NEW c \in CallType, call' = [call EXCEPT ![t] = c],
           \A u \in Calls \ {t} : call[u].client = c.client => c.client = "other",
           sender' = sender \/ \A u \in Calls \ {t} : call[u].client # "sender",
           receiver' = receiver \/ \A u \in Calls \ {t} : call[u].client # "receiver",
           c.client = "sender" => SenderWaits(c)',
           c.client = "receiver" => ReceiverWaits(c)'
    PROVE  ClientsSound'
<1>1. call'[t] = c /\ \A u \in Calls \ {t} : call'[u] = call[u]
  OBVIOUS
<1>2. ASSUME NEW u \in Calls
      PROVE  /\ call'[u].client = "sender" => SenderWaits(call[u])'
             /\ call'[u].client = "receiver" => ReceiverWaits(call[u])'
  <2>1. CASE u = t
    BY <1>1, <2>1 DEF SenderWaits, ReceiverWaits
  <2>2. CASE u # t
    BY <1>1, <2>2 DEF ClientsSound, SenderWaits, ReceiverWaits
  <2> QED
    BY <2>1, <2>2
<1>3. ASSUME NEW u \in Calls, NEW v \in Calls \ {u}, call'[u].client = call'[v].client
      PROVE  call'[u].client = "other"
  BY <1>1, <1>3 DEF ClientsSound
<1> QED
  BY <1>2, <1>3 DEF ClientsSound

LEMMA ClientsKept ==
    ASSUME ClientsSound, call' = call,
           sender' = sender \/ sender.at # "waiting",
           receiver' = receiver \/ receiver.at # "waiting"
    PROVE  ClientsSound'
  BY DEF ClientsSound, SenderWaits, ReceiverWaits

(* A call that goes on for whoever asked for it.                           *)
LEMMA ClientsUnmoved ==
    ASSUME ClientsSound, call \in [Calls -> CallType],
           NEW t \in Calls, NEW c \in CallType, call' = [call EXCEPT ![t] = c],
           sender' = sender, receiver' = receiver,
           c.client \in {call[t].client, "other"}, c.op = call[t].op, c.id = call[t].id
    PROVE  ClientsSound'
<1>1. \A u \in Calls \ {t} : call[u].client = c.client => c.client = "other"
  BY DEF ClientsSound
<1>2. /\ c.client = "sender" => SenderWaits(c)'
      /\ c.client = "receiver" => ReceiverWaits(c)'
  BY DEF ClientsSound, SenderWaits, ReceiverWaits
<1> QED
  BY <1>1, <1>2, ClientsStep

----------------------------------------------------------------------------
(* The steps of the upload.                                                *)

LEMMA ReadChunkKept ==
    ASSUME Inv, NEW n \in 0..ChunkSize, ReadChunk(n)
    PROVE  Inv'
<1>1. /\ UNCHANGED <<source, node, loading>> /\ sender.at = "reading"
      /\ sender'.stored = sender.stored
      /\ Len(sender.chunks) <= Len(sender'.chunks)
      /\ \A i \in 1..Len(sender.chunks) : sender'.chunks[i] = sender.chunks[i]
  <2>1. sender.chunks \in Seq(File) /\ sender \in SenderType
    BY DEF Inv, Types, SenderType
  <2>2. PICK piece, at : sender' = [sender EXCEPT !.chunks = IF n = 0 THEN sender.chunks ELSE Append(sender.chunks, piece), !.at = at]
                         /\ piece = SubSeq(Piece, 1, n)
    BY DEF ReadChunk
  <2> QED
    BY <2>1, <2>2 DEF ReadChunk, SenderType
<1>2. SplitSound' /\ sender' \in SenderType /\ readError' \in BOOLEAN
  BY SplitByReadChunk DEF Inv
<1>3. Types'
  BY <1>1, <1>2 DEF Inv, Types, node, loading
<1>4. CallsSound' /\ WritersExclude' /\ DiskSound'
  BY <1>1 DEF Inv, CallsSound, CallSound, WritersExclude, DiskSound, Writing, Holds, node
<1>5. ClientsSound'
  BY <1>1, ClientsKept DEF Inv, node, loading
<1>6. StoredSound'
  <2>1. sender.stored \in Nat /\ Len(sender.chunks) \in Nat /\ Len(sender'.chunks) \in Nat
    BY <1>2 DEF Inv, Types, SenderType
  <2> QED
    BY <1>1, <2>1 DEF Inv, StoredSound, node
<1>7. LoadSound' /\ OutputSound'
  <2>1. receiver.at = "idle" /\ receiver'= receiver
    BY <1>1 DEF Inv, LoadSound, loading
  <2>2. receiver.wanted \in Seq(Name) /\ receiver.got \in Seq(File)
    BY DEF Inv, Types, ReceiverType
  <2>3. LoadSound'
    <3>1. Len(receiver.wanted) <= Len(sender'.chunks)
      BY <1>1, <1>2, <2>2 DEF Inv, LoadSound, Types, SenderType
    <3> QED
      BY <1>1, <2>1, <2>2, <3>1 DEF Inv, LoadSound, Types, SenderType
  <2> QED
    BY <2>1, <2>3 DEF Inv, OutputSound
<1> QED
  BY <1>2, <1>3, <1>4, <1>5, <1>6, <1>7 DEF Inv

(* Any other step that leaves the calls, the download and the chunks alone. *)
LEMMA SenderStep ==
    ASSUME Inv, UNCHANGED <<source, node, loading, readError>>,
           NEW at \in {"storing", "done", "failed"}, sender' = [sender EXCEPT !.at = at],
           sender.at \in {"reading", "storing"}, sender.at = "reading" => at = "failed"
    PROVE  Inv'
<1>1. /\ sender'.at = at /\ sender'.chunks = sender.chunks /\ sender'.stored = sender.stored
      /\ sender' \in SenderType
  BY DEF Inv, Types, SenderType
<1>2. Types'
  BY <1>1 DEF Inv, Types, node, loading
<1>3. SplitSound'
  BY <1>1, SplitKept DEF Inv
<1>4. CallsSound' /\ WritersExclude' /\ DiskSound'
  BY DEF Inv, CallsSound, CallSound, WritersExclude, DiskSound, Writing, Holds, node
<1>5. ClientsSound'
  BY ClientsKept DEF Inv, node, loading
<1>6. StoredSound'
  BY <1>1 DEF Inv, StoredSound, node
<1>7. LoadSound'
  BY <1>1 DEF Inv, LoadSound, loading
<1>8. OutputSound'
  <2>1. \A i : UpTo(i)' = UpTo(i)
    BY SameSlices
  <2> QED
    BY <2>1 DEF Inv, OutputSound, loading
<1> QED
  BY <1>2, <1>3, <1>4, <1>5, <1>6, <1>7, <1>8 DEF Inv

LEMMA SplitFailsKept ==
    ASSUME Inv, SplitFails
    PROVE  Inv'
  BY SenderStep DEF SplitFails

LEMMA UploadDoneKept ==
    ASSUME Inv, UploadDone
    PROVE  Inv'
  BY SenderStep DEF UploadDone

----------------------------------------------------------------------------
(* The steps of a call.                                                    *)

LEMMA CallKept ==
    ASSUME Inv, UNCHANGED <<source, sender, disk, torn, loading, readError>>,
           NEW t \in Calls, NEW c \in CallType, call' = [call EXCEPT ![t] = c],
           CallSound(c),
           c.at \in {"open", "used"} =>
              /\ c.id = call[t].id /\ c.op = call[t].op
              /\ call[t].at \in {"open", "used"} \/ (c.op = "read" /\ ~Writing(c.id)),
           call[t].op = "write" => call[t].at # "open",
           c.client # "other" => c.client = call[t].client /\ c.op = call[t].op /\ c.id = call[t].id
    PROVE  Inv'
<1>1. CallsSound' /\ WritersExclude' /\ DiskSound' /\ call' \in [Calls -> CallType]
  BY NodeStep DEF Inv
<1>2. Types' /\ SplitSound' /\ StoredSound' /\ LoadSound' /\ OutputSound'
  <2>1. \A i : UpTo(i)' = UpTo(i)
    BY SameSlices
  <2> QED
    BY <1>1, <2>1, SplitKept DEF Inv, Types, StoredSound, LoadSound, OutputSound, loading
<1>3. ClientsSound'
  <2>1. call \in [Calls -> CallType]
    BY DEF Inv, Types
  <2>2. c.client \in {"other", "sender", "receiver"}
    BY DEF CallType
  <2>3. \A u \in Calls \ {t} : call[u].client = c.client => c.client = "other"
    BY DEF Inv, ClientsSound
  <2>4. /\ c.client = "sender" => SenderWaits(c)'
        /\ c.client = "receiver" => ReceiverWaits(c)'
    BY DEF Inv, ClientsSound, SenderWaits, ReceiverWaits, loading
  <2> QED
    BY <2>1, <2>3, <2>4, ClientsStep DEF Inv, loading
<1> QED
  BY <1>1, <1>2, <1>3 DEF Inv

LEMMA IdleCallKept ==
    ASSUME Inv, NEW t \in Calls, call[t].at \in {"used", "failed", "idle"},
           call[t].client = "other",
           UNCHANGED <<source, sender, disk, torn, loading, readError>>,
           call' = [call EXCEPT ![t] = Idle]
    PROVE  Inv'
<1>1. CallSound(Idle) /\ Idle \in CallType
  BY IdleIsCall DEF CallSound
<1> QED
  BY <1>1, IdleIsCall, CallKept

LEMMA OtherAnsweredKept ==
    ASSUME Inv, NEW t \in Calls, OtherAnswered(t)
    PROVE  Inv'
  BY IdleCallKept DEF OtherAnswered, Step

LEMMA OpenFailsKept ==
    ASSUME Inv, NEW t \in Calls, OpenFails(t)
    PROVE  Inv'
<1> DEFINE c == [call[t] EXCEPT !.at = "failed"]
<1>1. call[t] \in CallType /\ call[t].at = "opening" /\ call' = [call EXCEPT ![t] = c] /\ CallSound(call[t])
  BY DEF OpenFails, Step, Inv, Types, CallsSound
<1>2. /\ c \in CallType /\ c.at = "failed" /\ c.op = call[t].op /\ c.id = call[t].id
      /\ c.client = call[t].client /\ c.ok = call[t].ok /\ c.data = call[t].data
  BY <1>1 DEF CallType
<1>3. CallSound(c)
  BY <1>1, <1>2 DEF CallSound
<1> HIDE DEF c
<1> QED
  BY <1>1, <1>2, <1>3, CallKept DEF OpenFails

LEMMA OpenForReadingKept ==
    ASSUME Inv, NEW t \in Calls, OpenForReading(t)
    PROVE  Inv'
<1> DEFINE c == [call[t] EXCEPT !.at = "open"]
<1>1. /\ call[t] \in CallType /\ call[t].at = "opening" /\ call[t].op = "read" /\ ~Writing(call[t].id)
      /\ call[t].id \in DOMAIN disk
      /\ call' = [call EXCEPT ![t] = c] /\ CallSound(call[t])
  BY DEF OpenForReading, Step, Inv, Types, CallsSound
<1>2. /\ c \in CallType /\ c.at = "open" /\ c.op = call[t].op /\ c.id = call[t].id
      /\ c.client = call[t].client /\ c.ok = call[t].ok /\ c.data = call[t].data
  BY <1>1 DEF CallType
<1>3. CallSound(c)
  BY <1>1, <1>2 DEF CallSound
<1> HIDE DEF c
<1> QED
  BY <1>1, <1>2, <1>3, CallKept DEF OpenForReading

(* What a reader finds is whole or torn: nobody is writing the file.       *)
LEMMA ReadKept ==
    ASSUME Inv, NEW t \in Calls, Read(t)
    PROVE  Inv'
<1> DEFINE c == [call[t] EXCEPT !.at = "used", !.ok = TRUE, !.data = disk[call[t].id]]
<1>1. /\ call[t] \in CallType /\ call[t].at = "open" /\ call[t].op = "read"
      /\ call' = [call EXCEPT ![t] = c] /\ CallSound(call[t])
  BY DEF Read, Step, Inv, Types, CallsSound
<1>2. /\ c.at = "used" /\ c.op = call[t].op /\ c.id = call[t].id
      /\ c.client = call[t].client /\ c.ok /\ c.data = disk[call[t].id]
  BY <1>1 DEF CallType
<1>3. call[t].id \in DOMAIN disk /\ c.data \in File
  BY <1>1, <1>2 DEF CallSound, Inv, Types
<1>4. c \in CallType
  BY <1>1, <1>2, <1>3 DEF CallType
<1>5. ~Writing(call[t].id)
  BY <1>1 DEF Inv, WritersExclude, Writing, Holds, CallType
<1>6. CallSound(c)
  BY <1>1, <1>2, <1>3, <1>5 DEF CallSound, Inv, DiskSound
<1> HIDE DEF c
<1> QED
  BY <1>1, <1>2, <1>4, <1>6, CallKept DEF Read

LEMMA ReadFailsKept ==
    ASSUME Inv, NEW t \in Calls, ReadFails(t)
    PROVE  Inv'
<1> DEFINE c == [call[t] EXCEPT !.at = "used"]
<1>1. /\ call[t] \in CallType /\ call[t].at = "open" /\ call[t].op = "read"
      /\ call' = [call EXCEPT ![t] = c] /\ CallSound(call[t])
  BY DEF ReadFails, Step, Inv, Types, CallsSound
<1>2. /\ c \in CallType /\ c.at = "used" /\ c.op = call[t].op /\ c.id = call[t].id
      /\ c.client = call[t].client /\ c.ok = call[t].ok /\ c.data = call[t].data
  BY <1>1 DEF CallType
<1>3. CallSound(c)
  BY <1>1, <1>2 DEF CallSound
<1> HIDE DEF c
<1> QED
  BY <1>1, <1>2, <1>3, CallKept DEF ReadFails

LEMMA OtherStoresKept ==
    ASSUME Inv, NEW t \in Calls, NEW i \in 1..Len(sender.chunks), OtherStores(t, sender.chunks[i])
    PROVE  Inv'
<1> DEFINE chunk == sender.chunks[i]
           c == [op |-> "write", id |-> Hash(chunk), client |-> "other", at |-> "opening",
                 ok |-> FALSE, data |-> chunk]
<1>1. call[t] = Idle /\ call' = [call EXCEPT ![t] = c]
  BY DEF OtherStores, Request
<1>2. chunk \in File /\ Hash(chunk) \in Ids
  BY DEF Inv, Types, SenderType, SplitSound
<1>3. c \in CallType /\ CallSound(c)
  BY <1>2, HashIsName DEF CallType, CallSound
<1> QED
  <2>1. c.client = "other" /\ c.at = "opening"
    OBVIOUS
  <2> HIDE DEF c
  <2> QED
    BY <1>1, <1>3, <2>1, IdleIsCall, CallKept DEF OtherStores, Request

LEMMA DiskStepKept ==
    ASSUME Inv, NEW t \in Calls, NEW at, NEW ok,
           call' = [call EXCEPT ![t] = [call[t] EXCEPT !.at = at, !.ok = ok]],
           UNCHANGED <<source, sender, loading, readError>>,
           CallsSound', WritersExclude', DiskSound', call' \in [Calls -> CallType],
           disk' \in [DOMAIN disk' -> File], DOMAIN disk \subseteq DOMAIN disk', torn' \subseteq Ids
    PROVE  Inv'
<1>1. Types' /\ SplitSound' /\ StoredSound' /\ LoadSound' /\ OutputSound'
  <2>1. \A i : UpTo(i)' = UpTo(i)
    BY SameSlices
  <2>2. SplitSound' /\ LoadSound' /\ OutputSound'
    BY <2>1, SplitKept DEF Inv, LoadSound, OutputSound, loading
  <2>3. Types' /\ StoredSound'
    BY DEF Inv, Types, StoredSound, loading
  <2> QED
    BY <2>2, <2>3
<1>2. ClientsSound'
  <2>1. call[t] \in CallType /\ call \in [Calls -> CallType]
    BY DEF Inv, Types
  <2>2. PICK c : c = call'[t]
    OBVIOUS
  <2>3. /\ c \in CallType /\ call' = [call EXCEPT ![t] = c]
        /\ c.op = call[t].op /\ c.id = call[t].id /\ c.client = call[t].client
    BY <2>1, <2>2 DEF CallType
  <2> QED
    BY <2>1, <2>3, ClientsUnmoved DEF Inv, loading
<1> QED
  BY <1>1, <1>2 DEF Inv

LEMMA OpenForWritingKept ==
    ASSUME Inv, NEW t \in Calls, OpenForWriting(t)
    PROVE  Inv'
<1>1. call[t] \in CallType /\ call' = [call EXCEPT ![t] = [call[t] EXCEPT !.at = "open", !.ok = call[t].ok]]
  <2>1. call[t] \in CallType
    BY DEF Inv, Types
  <2> QED
    BY <2>1 DEF OpenForWriting, Step, CallType
<1>2. torn' \subseteq Ids /\ UNCHANGED <<source, sender, loading, readError>>
  BY DEF OpenForWriting, Inv, Types
<1> QED
  BY <1>1, <1>2, NodeOpens, DiskStepKept DEF Inv

LEMMA WriteKept ==
    ASSUME Inv, NEW t \in Calls, NEW n \in 0..ChunkSize, Write(t, n)
    PROVE  Inv'
<1>1. /\ call' = [call EXCEPT ![t] = [call[t] EXCEPT !.at = "used", !.ok = (n = Len(call[t].data))]]
      /\ UNCHANGED <<source, sender, loading, readError>>
  BY DEF Write, Step
<1>2. /\ CallsSound' /\ WritersExclude' /\ DiskSound' /\ call' \in [Calls -> CallType]
      /\ disk' \in [DOMAIN disk' -> File] /\ DOMAIN disk \subseteq DOMAIN disk' /\ torn' \subseteq Ids
  BY NodeWrites DEF Inv
<1> QED
  BY <1>1, <1>2, DiskStepKept

----------------------------------------------------------------------------
(* What the sender and the receiver do about their calls.                  *)

LEMMA SenderMoves ==
    ASSUME Inv, UNCHANGED <<source, disk, readError>>, UNCHANGED loading,
           NEW at \in {"storing", "waiting", "failed"}, NEW stored \in Nat,
           sender' = [sender EXCEPT !.at = at, !.stored = stored],
           sender.at \in {"storing", "waiting"},
           \/ stored = sender.stored
           \/ /\ stored = sender.stored + 1 /\ stored <= Len(sender.chunks)
              /\ Hash(sender.chunks[stored]) \in DOMAIN disk
    PROVE  sender' \in SenderType /\ SplitSound' /\ StoredSound' /\ LoadSound' /\ OutputSound'
<1>1. /\ sender'.at = at /\ sender'.chunks = sender.chunks /\ sender'.stored = stored
      /\ sender' \in SenderType
  BY DEF Inv, Types, SenderType
<1>2. SplitSound'
  BY <1>1, SplitKept DEF Inv
<1>3. StoredSound'
  <2>1. sender.stored \in Nat /\ Len(sender.chunks) \in Nat
    BY DEF Inv, Types, SenderType
  <2> QED
    BY <1>1, <2>1 DEF Inv, StoredSound
<1>4. LoadSound'
  BY <1>1 DEF Inv, LoadSound, loading
<1>5. OutputSound'
  <2>1. \A i : UpTo(i)' = UpTo(i)
    BY SameSlices
  <2> QED
    BY <2>1 DEF Inv, OutputSound, loading
<1> QED
  BY <1>1, <1>2, <1>3, <1>4, <1>5

LEMMA StoreChunkKept ==
    ASSUME Inv, NEW t \in Calls, StoreChunk(t)
    PROVE  Inv'
<1>0. PICK chunk : chunk = sender.chunks[sender.stored + 1]
  OBVIOUS
<1> DEFINE c == [op |-> "write", id |-> Hash(chunk), client |-> "sender", at |-> "opening",
                 ok |-> FALSE, data |-> chunk]
<1>1. /\ call[t] = Idle /\ call' = [call EXCEPT ![t] = c]
      /\ sender.at = "storing" /\ sender.stored < Len(sender.chunks)
      /\ sender' = [sender EXCEPT !.at = "waiting"]
      /\ UNCHANGED <<source, disk, torn, loading, readError>>
  BY <1>0 DEF StoreChunk, Request
<1>2. sender \in SenderType /\ sender.stored \in Nat /\ sender.stored + 1 \in 1..Len(sender.chunks)
      /\ call \in [Calls -> CallType]
  BY <1>1 DEF Inv, Types, SenderType
<1>3. chunk \in File /\ Hash(chunk) \in Ids
  BY <1>0, <1>2 DEF Inv, SenderType, SplitSound
<1>4. c \in CallType /\ CallSound(c)
  BY <1>3, HashIsName DEF CallType, CallSound
<1>5. c.client = "sender" /\ c.at = "opening" /\ c.op = "write" /\ c.id = Hash(chunk)
  OBVIOUS
<1>6. sender' = [sender EXCEPT !.at = "waiting", !.stored = sender.stored]
  BY <1>1, <1>2 DEF SenderType
<1>7. sender' \in SenderType /\ SplitSound' /\ StoredSound' /\ LoadSound' /\ OutputSound'
  BY <1>1, <1>2, <1>6, SenderMoves
<1>8. CallsSound' /\ WritersExclude' /\ DiskSound' /\ call' \in [Calls -> CallType]
  <2> HIDE DEF c
  <2> QED
    BY <1>1, <1>4, <1>5, IdleIsCall, NodeStep DEF Inv
<1>9. ClientsSound'
  <2>1. \A u \in Calls : call[u].client # "sender"
    BY <1>1 DEF Inv, ClientsSound, SenderWaits
  <2>2. SenderWaits(c)'
    BY <1>0, <1>1, <1>2 DEF SenderWaits, SenderType
  <2> HIDE DEF c
  <2> QED
    BY <1>1, <1>2, <1>4, <1>5, <2>1, <2>2, ClientsStep DEF Inv, loading
<1>10. Types'
  BY <1>1, <1>7, <1>8 DEF Inv, Types, loading
<1> QED
  BY <1>7, <1>8, <1>9, <1>10 DEF Inv

LEMMA ChunkStoredKept ==
    ASSUME Inv, NEW t \in Calls, ChunkStored(t)
    PROVE  Inv'
<1>1. /\ call[t].client = "sender" /\ call[t].at \in {"used", "failed"}
      /\ call' = [call EXCEPT ![t] = Idle]
      /\ UNCHANGED <<source, disk, torn, loading, readError>>
  BY DEF ChunkStored, Step
<1>2. /\ sender.at = "waiting" /\ sender.stored < Len(sender.chunks)
      /\ call[t].op = "write" /\ call[t].id = Hash(sender.chunks[sender.stored + 1])
  BY <1>1 DEF Inv, ClientsSound, SenderWaits
<1>3. sender \in SenderType /\ sender.stored \in Nat /\ call \in [Calls -> CallType] /\ CallSound(call[t])
      /\ Len(sender.chunks) \in Nat
  BY DEF Inv, Types, SenderType, CallsSound
<1>4. PICK at \in {"storing", "failed"}, stored \in Nat :
         /\ sender' = [sender EXCEPT !.at = at, !.stored = stored]
         /\ stored = IF call[t].ok THEN sender.stored + 1 ELSE sender.stored
  <2>1. CASE call[t].ok
    <3>1. sender' = [sender EXCEPT !.at = "storing", !.stored = sender.stored + 1]
      BY <2>1 DEF ChunkStored
    <3>2. sender.stored + 1 \in Nat
      BY <1>3
    <3> QED
      BY <2>1, <3>1, <3>2
  <2>2. CASE ~call[t].ok
    <3>1. sender' = [sender EXCEPT !.at = "failed", !.stored = sender.stored]
      BY <1>3, <2>2 DEF ChunkStored, SenderType
    <3> QED
      BY <1>3, <2>2, <3>1
  <2> QED
    BY <2>1, <2>2
<1>5. \/ stored = sender.stored
      \/ /\ stored = sender.stored + 1 /\ stored <= Len(sender.chunks)
         /\ Hash(sender.chunks[stored]) \in DOMAIN disk
  BY <1>2, <1>3, <1>4 DEF CallSound
<1>6. sender' \in SenderType /\ SplitSound' /\ StoredSound' /\ LoadSound' /\ OutputSound'
  BY <1>1, <1>2, <1>4, <1>5, SenderMoves
<1>7. CallsSound' /\ WritersExclude' /\ DiskSound' /\ call' \in [Calls -> CallType]
  <2>1. CallSound(Idle)
    BY IdleIsCall DEF CallSound
  <2> QED
    BY <1>1, <2>1, IdleIsCall, NodeStep DEF Inv
<1>8. ClientsSound'
  <2>1. \A u \in Calls \ {t} : call[u].client # "sender"
    BY <1>1 DEF Inv, ClientsSound
  <2> QED
    BY <1>1, <1>3, <2>1, IdleIsCall, ClientsStep DEF Inv, loading
<1>9. Types'
  BY <1>1, <1>6, <1>7 DEF Inv, Types, loading
<1> QED
  BY <1>6, <1>7, <1>8, <1>9 DEF Inv

LEMMA SenderGivesUpKept ==
    ASSUME Inv, NEW t \in Calls, SenderGivesUp(t)
    PROVE  Inv'
<1> DEFINE c == [call[t] EXCEPT !.client = "other"]
<1>1. /\ call[t].client = "sender" /\ call[t] \in CallType /\ call \in [Calls -> CallType] /\ CallSound(call[t])
      /\ call' = [call EXCEPT ![t] = c]
      /\ UNCHANGED <<source, disk, torn, loading, readError>>
  BY DEF SenderGivesUp, Inv, Types, CallsSound
<1>2. /\ c \in CallType /\ c.client = "other" /\ c.op = call[t].op /\ c.id = call[t].id
      /\ c.at = call[t].at /\ c.ok = call[t].ok /\ c.data = call[t].data
  BY <1>1 DEF CallType
<1>3. CallSound(c)
  BY <1>1, <1>2 DEF CallSound
<1>4. sender.at = "waiting" /\ sender' = [sender EXCEPT !.at = "failed", !.stored = sender.stored]
      /\ sender.stored \in Nat
  <2>1. sender \in SenderType
    BY DEF Inv, Types
  <2> QED
    BY <1>1, <2>1 DEF SenderGivesUp, Inv, ClientsSound, SenderWaits, SenderType
<1>5. sender' \in SenderType /\ SplitSound' /\ StoredSound' /\ LoadSound' /\ OutputSound'
  BY <1>1, <1>4, SenderMoves
<1> HIDE DEF c
<1>6. CallsSound' /\ WritersExclude' /\ DiskSound' /\ call' \in [Calls -> CallType]
  BY <1>1, <1>2, <1>3, NodeStep DEF Inv
<1>7. ClientsSound'
  <2>1. \A u \in Calls \ {t} : call[u].client # "sender"
    BY <1>1 DEF Inv, ClientsSound
  <2> QED
    BY <1>1, <1>2, <2>1, ClientsStep DEF Inv, loading
<1>8. Types'
  BY <1>1, <1>5, <1>6 DEF Inv, Types, loading
<1> QED
  BY <1>5, <1>6, <1>7, <1>8 DEF Inv

LEMMA ReceiverMoves ==
    ASSUME Inv, UNCHANGED <<source, sender, readError, output, flushError>>,
           NEW at \in {"fetching", "waiting", "failed"}, NEW got \in Seq(File),
           receiver' = [receiver EXCEPT !.at = at, !.got = got],
           receiver.at \in {"fetching", "waiting"},
           \/ got = receiver.got
           \/ /\ Len(receiver.got) < Len(receiver.wanted)
              /\ got = Append(receiver.got, sender.chunks[Len(receiver.got) + 1])
    PROVE  receiver' \in ReceiverType /\ LoadSound' /\ OutputSound'
<1>1. receiver \in ReceiverType /\ receiver.got \in Seq(File) /\ Len(receiver.got) \in Nat
      /\ receiver.wanted \in Seq(Name) /\ Len(receiver.wanted) \in Nat
      /\ sender.chunks \in Seq(File) /\ Len(sender.chunks) \in Nat
  BY DEF Inv, Types, ReceiverType, SenderType
<1>2. /\ receiver'.at = at /\ receiver'.got = got
      /\ receiver'.wanted = receiver.wanted /\ receiver'.written = receiver.written
      /\ receiver' \in ReceiverType
  BY <1>1 DEF ReceiverType
<1>3. OutputSound'
  BY <1>2 DEF Inv, OutputSound
<1>4. Len(got) <= Len(receiver.wanted) /\ \A i \in 1..Len(got) : got[i] = sender.chunks[i]
  <2>1. CASE got = receiver.got
    BY <2>1 DEF Inv, LoadSound
  <2>2. CASE got # receiver.got
    <3>1. PICK d : d = sender.chunks[Len(receiver.got) + 1]
      OBVIOUS
    <3>2. d \in File /\ Len(receiver.got) < Len(receiver.wanted) /\ got = Append(receiver.got, d)
      BY <1>1, <2>2, <3>1 DEF Inv, LoadSound
    <3>3. /\ Len(got) = Len(receiver.got) + 1 /\ got[Len(receiver.got) + 1] = d
          /\ \A i \in 1..Len(receiver.got) : got[i] = receiver.got[i]
      BY <1>1, <3>2, Appending
    <3>4. \A i \in 1..Len(receiver.got) : receiver.got[i] = sender.chunks[i]
      BY DEF Inv, LoadSound
    <3> QED
      BY <1>1, <3>1, <3>2, <3>3, <3>4
  <2> QED
    BY <2>1, <2>2
<1>5. LoadSound'
  BY <1>2, <1>4 DEF Inv, LoadSound
<1> QED
  BY <1>2, <1>3, <1>5

LEMMA GetChunkKept ==
    ASSUME Inv, NEW t \in Calls, GetChunk(t)
    PROVE  Inv'
<1>0. PICK id : id = receiver.wanted[Len(receiver.got) + 1]
  OBVIOUS
<1> DEFINE c == [op |-> "read", id |-> id, client |-> "receiver", at |-> "opening",
                 ok |-> FALSE, data |-> <<>>]
<1>1. /\ call[t] = Idle /\ call' = [call EXCEPT ![t] = c]
      /\ receiver.at = "fetching" /\ ~Fetched
      /\ receiver' = [receiver EXCEPT !.at = "waiting"]
      /\ UNCHANGED <<source, sender, disk, torn, output, flushError, readError>>
  BY <1>0 DEF GetChunk, Request
<1>2. /\ receiver \in ReceiverType /\ receiver.got \in Seq(File)
      /\ Len(receiver.got) \in Nat /\ Len(receiver.wanted) \in Nat /\ Len(receiver.got) < Len(receiver.wanted)
      /\ call \in [Calls -> CallType]
  BY <1>1 DEF Inv, Types, ReceiverType, Fetched, LoadSound
<1>3. id \in Name
  BY <1>0, <1>2 DEF Inv, ReceiverType
<1>4. c \in CallType /\ CallSound(c)
  BY <1>3 DEF CallType, CallSound, File
<1>5. c.client = "receiver" /\ c.at = "opening" /\ c.op = "read" /\ c.id = id
  OBVIOUS
<1>6. receiver' = [receiver EXCEPT !.at = "waiting", !.got = receiver.got]
  BY <1>1, <1>2 DEF ReceiverType
<1>7. receiver' \in ReceiverType /\ LoadSound' /\ OutputSound'
  BY <1>1, <1>2, <1>6, ReceiverMoves
<1>8. CallsSound' /\ WritersExclude' /\ DiskSound' /\ call' \in [Calls -> CallType]
  <2> HIDE DEF c
  <2> QED
    BY <1>1, <1>4, <1>5, IdleIsCall, NodeStep DEF Inv
<1>9. ClientsSound'
  <2>1. \A u \in Calls : call[u].client # "receiver"
    BY <1>1 DEF Inv, ClientsSound, ReceiverWaits
  <2>2. ReceiverWaits(c)'
    BY <1>0, <1>1, <1>2 DEF ReceiverWaits, ReceiverType
  <2> HIDE DEF c
  <2> QED
    BY <1>1, <1>2, <1>4, <1>5, <2>1, <2>2, ClientsStep DEF Inv
<1>10. Types' /\ SplitSound' /\ StoredSound'
  BY <1>1, <1>7, <1>8, SplitKept DEF Inv, Types, StoredSound
<1> QED
  BY <1>7, <1>8, <1>9, <1>10 DEF Inv

LEMMA ChunkFetchedKept ==
    ASSUME Inv, NEW t \in Calls, ChunkFetched(t)
    PROVE  Inv'
<1>1. /\ call[t].client = "receiver" /\ call[t].at \in {"used", "failed"}
      /\ call' = [call EXCEPT ![t] = Idle]
      /\ UNCHANGED <<source, sender, disk, torn, output, flushError, readError>>
  BY DEF ChunkFetched, Step
<1>2. /\ receiver.at = "waiting" /\ Len(receiver.got) < Len(receiver.wanted)
      /\ call[t].op = "read" /\ call[t].id = receiver.wanted[Len(receiver.got) + 1]
  BY <1>1 DEF Inv, ClientsSound, ReceiverWaits
<1>3. /\ receiver \in ReceiverType /\ receiver.got \in Seq(File) /\ Len(receiver.got) \in Nat
      /\ Len(receiver.wanted) \in Nat
      /\ call \in [Calls -> CallType] /\ call[t] \in CallType
  BY DEF Inv, Types, ReceiverType
<1>4. receiver' \in ReceiverType /\ LoadSound' /\ OutputSound'
  <2>1. CASE call[t].ok /\ Hash(call[t].data) = call[t].id
    <3>1. call[t].data = sender.chunks[Len(receiver.got) + 1]
      BY <1>2, <1>3, <2>1, HashTellsApart DEF Inv, LoadSound
    <3>2. PICK got : got = Append(receiver.got, call[t].data)
      OBVIOUS
    <3>3. got \in Seq(File)
      BY <1>3, <3>2, Appending DEF CallType
    <3>4. receiver' = [receiver EXCEPT !.at = "fetching", !.got = got]
      BY <2>1, <3>2 DEF ChunkFetched
    <3> QED
      BY <1>1, <1>2, <3>1, <3>2, <3>3, <3>4, ReceiverMoves
  <2>2. CASE ~(call[t].ok /\ Hash(call[t].data) = call[t].id)
    <3>1. receiver' = [receiver EXCEPT !.at = "failed", !.got = receiver.got]
      BY <1>3, <2>2 DEF ChunkFetched, ReceiverType
    <3> QED
      BY <1>1, <1>2, <1>3, <3>1, ReceiverMoves
  <2> QED
    BY <2>1, <2>2
<1>5. CallsSound' /\ WritersExclude' /\ DiskSound' /\ call' \in [Calls -> CallType]
  <2>1. CallSound(Idle)
    BY IdleIsCall DEF CallSound
  <2> QED
    BY <1>1, <1>2, <2>1, IdleIsCall, NodeStep DEF Inv
<1>6. ClientsSound'
  <2>1. \A u \in Calls \ {t} : call[u].client # "receiver"
    BY <1>1 DEF Inv, ClientsSound
  <2> QED
    BY <1>1, <1>3, <2>1, IdleIsCall, ClientsStep DEF Inv
<1>7. Types' /\ SplitSound' /\ StoredSound'
  BY <1>1, <1>4, <1>5, SplitKept DEF Inv, Types, StoredSound
<1> QED
  BY <1>4, <1>5, <1>6, <1>7 DEF Inv

LEMMA ReceiverGivesUpKept ==
    ASSUME Inv, NEW t \in Calls, ReceiverGivesUp(t)
    PROVE  Inv'
<1> DEFINE c == [call[t] EXCEPT !.client = "other"]
<1>1. /\ call[t].client = "receiver" /\ call[t] \in CallType /\ call \in [Calls -> CallType] /\ CallSound(call[t])
      /\ call' = [call EXCEPT ![t] = c]
      /\ UNCHANGED <<source, sender, disk, torn, output, flushError, readError>>
  BY DEF ReceiverGivesUp, Inv, Types, CallsSound
<1>2. /\ c \in CallType /\ c.client = "other" /\ c.op = call[t].op /\ c.id = call[t].id
      /\ c.at = call[t].at /\ c.ok = call[t].ok /\ c.data = call[t].data
  BY <1>1 DEF CallType
<1>3. CallSound(c)
  BY <1>1, <1>2 DEF CallSound
<1>4. /\ receiver.at = "waiting" /\ receiver.got \in Seq(File)
      /\ receiver' = [receiver EXCEPT !.at = "failed", !.got = receiver.got]
  <2>1. receiver \in ReceiverType
    BY DEF Inv, Types
  <2> QED
    BY <1>1, <2>1 DEF ReceiverGivesUp, Inv, ClientsSound, ReceiverWaits, ReceiverType
<1>5. receiver' \in ReceiverType /\ LoadSound' /\ OutputSound'
  BY <1>1, <1>4, ReceiverMoves
<1> HIDE DEF c
<1>6. CallsSound' /\ WritersExclude' /\ DiskSound' /\ call' \in [Calls -> CallType]
  BY <1>1, <1>2, <1>3, NodeStep DEF Inv
<1>7. ClientsSound'
  <2>1. \A u \in Calls \ {t} : call[u].client # "receiver"
    BY <1>1 DEF Inv, ClientsSound
  <2> QED
    BY <1>1, <1>2, <2>1, ClientsStep DEF Inv
<1>8. Types' /\ SplitSound' /\ StoredSound'
  BY <1>1, <1>5, <1>6, SplitKept DEF Inv, Types, StoredSound
<1> QED
  BY <1>5, <1>6, <1>7, <1>8 DEF Inv

LEMMA CrashKept ==
    ASSUME Inv, Crash
    PROVE  Inv'
<1>1. /\ call' = [t \in Calls |-> Idle]
      /\ UNCHANGED <<source, disk, output, flushError, readError>>
      /\ sender' = IF sender.at = "waiting" THEN [sender EXCEPT !.at = "failed"] ELSE sender
      /\ receiver' = IF receiver.at = "waiting" THEN [receiver EXCEPT !.at = "failed"] ELSE receiver
  BY DEF Crash
<1>2. CallsSound' /\ WritersExclude' /\ DiskSound' /\ call' \in [Calls -> CallType] /\ torn' \subseteq Ids
  BY NodeCrashes DEF Inv
<1>3. sender \in SenderType /\ receiver \in ReceiverType
  BY DEF Inv, Types
<1>4. /\ sender' \in SenderType /\ sender'.chunks = sender.chunks /\ sender'.stored = sender.stored
      /\ sender'.at \in {sender.at, "failed"} /\ (sender.at # "waiting" => sender' = sender)
  BY <1>1, <1>3 DEF SenderType
<1>5. /\ receiver' \in ReceiverType /\ receiver'.got = receiver.got /\ receiver'.wanted = receiver.wanted
      /\ receiver'.written = receiver.written
      /\ (receiver.at # "waiting" => receiver' = receiver) /\ (receiver.at = "waiting" => receiver'.at = "failed")
  BY <1>1, <1>3 DEF ReceiverType
<1>6. Types' /\ SplitSound' /\ StoredSound'
  BY <1>1, <1>2, <1>4, <1>5, SplitKept DEF Inv, Types, StoredSound
<1>7. ClientsSound'
  BY <1>1, IdleIsCall DEF ClientsSound
<1>8. LoadSound'
  BY <1>4, <1>5 DEF Inv, LoadSound
<1>9. OutputSound'
  <2>1. \A i : UpTo(i)' = UpTo(i)
    BY <1>1, SameSlices
  <2>2. CASE receiver.at = "waiting"
    BY <1>5, <2>2 DEF OutputSound
  <2>3. CASE receiver.at # "waiting"
    BY <1>1, <1>5, <2>1, <2>3 DEF Inv, OutputSound
  <2> QED
    BY <2>2, <2>3
<1> QED
  BY <1>2, <1>6, <1>7, <1>8, <1>9 DEF Inv

----------------------------------------------------------------------------
(* The steps of the download, and the bytes it has written.                *)

LEMMA SubSeqsJoin ==
    ASSUME NEW f \in File, NEW m \in Nat, NEW n \in Nat, m <= n, n <= Len(f)
    PROVE  SubSeq(f, 1, m) \o SubSeq(f, m + 1, n) = SubSeq(f, 1, n)
  BY DEF File

LEMMA SlicesJoin ==
    ASSUME source \in File, NEW i \in Nat
    PROVE  UpTo(i) \o Slice(i + 1) = UpTo(i + 1)
<1>1. PICK m, n, k : m = EndOf(i) /\ n = EndOf(i + 1) /\ k = i * ChunkSize
  OBVIOUS
<1>2. /\ k \in Nat /\ (i + 1) * ChunkSize = k + ChunkSize
      /\ m \in Nat /\ n \in Nat /\ m <= Len(source) /\ n <= Len(source)
  BY <1>1, SliceBounds DEF File
<1>3. m = Least(k, Len(source)) /\ n = Least(k + ChunkSize, Len(source)) /\ Len(source) \in Nat
  BY <1>1, <1>2 DEF EndOf, File
<1>4. m <= n
  BY <1>2, <1>3 DEF Least
<1>5. UpTo(i) = SubSeq(source, 1, m) /\ UpTo(i + 1) = SubSeq(source, 1, n)
  BY <1>1 DEF UpTo
<1>6. Slice(i + 1) = SubSeq(source, k + 1, n)
  <2>1. (i + 1) - 1 = i
    OBVIOUS
  <2> QED
    BY <1>1, <2>1 DEF Slice
<1>7. CASE k <= Len(source)
  <2>1. m = k
    BY <1>2, <1>3, <1>7 DEF Least
  <2> QED
    BY <1>2, <1>4, <1>5, <1>6, <2>1, SubSeqsJoin
<1>8. CASE k > Len(source)
  <2>1. m = Len(source) /\ n = Len(source)
    BY <1>2, <1>3, <1>8 DEF Least
  <2>2. SubSeq(source, k + 1, n) = <<>>
    BY <1>2, <1>8, <2>1 DEF File
  <2>3. SubSeq(source, 1, m) = source
    BY <2>1, <1>2, PrefixIsFile
  <2> QED
    <3>1. source \o <<>> = source
      BY DEF File
    <3> QED
      BY <1>5, <1>6, <2>1, <2>2, <2>3, <3>1
<1> QED
  BY <1>2, <1>3, <1>7, <1>8

LEMMA ReceiverStep ==
    ASSUME Inv, UNCHANGED <<source, sender, node, readError>>, receiver.at # "waiting",
           receiver' \in ReceiverType, output' \in File, flushError' \in BOOLEAN,
           LoadSound', OutputSound'
    PROVE  Inv'
<1>1. Types' /\ SplitSound' /\ StoredSound'
  BY SplitKept DEF Inv, Types, StoredSound, node
<1>2. CallsSound' /\ WritersExclude' /\ DiskSound'
  BY DEF Inv, CallsSound, CallSound, WritersExclude, DiskSound, Writing, Holds, node
<1>3. ClientsSound'
  BY ClientsKept DEF Inv, node
<1> QED
  BY <1>1, <1>2, <1>3 DEF Inv

LEMMA RequestDownloadKept ==
    ASSUME Inv, NEW n \in 1..Len(sender.chunks), RequestDownload(n)
    PROVE  Inv'
<1>1. /\ receiver \in ReceiverType /\ sender \in SenderType /\ sender.chunks \in Seq(File)
      /\ n \in Nat /\ Len(sender.chunks) \in Nat
  BY DEF Inv, Types, SenderType
<1>2. PICK wanted : wanted = [i \in 1..n |-> Hash(sender.chunks[i])]
  OBVIOUS
<1>3. wanted \in Seq(Name) /\ Len(wanted) = n /\ \A i \in 1..n : wanted[i] = Hash(sender.chunks[i])
  <2>1. \A i \in 1..n : Hash(sender.chunks[i]) \in Name
    BY <1>1, HashIsName
  <2> QED
    BY <1>1, <1>2, <2>1
<1>4. /\ receiver' = [receiver EXCEPT !.at = "fetching", !.wanted = wanted]
      /\ sender.at = "done" /\ receiver.at = "idle" /\ n <= Len(sender.chunks)
      /\ UNCHANGED <<source, sender, node, output, flushError, readError>>
  BY <1>2 DEF RequestDownload
<1>5. /\ receiver' \in ReceiverType /\ receiver'.at = "fetching" /\ receiver'.wanted = wanted
      /\ receiver'.got = receiver.got /\ receiver'.written = receiver.written
  BY <1>1, <1>3, <1>4 DEF ReceiverType
<1>6. LoadSound'
  <2>1. receiver.got = <<>>
    BY <1>4 DEF Inv, LoadSound
  <2>2. Len(receiver.got) = 0
    BY <2>1
  <2> QED
    BY <1>1, <1>3, <1>4, <1>5, <2>2 DEF LoadSound
<1>7. OutputSound'
  BY <1>4, <1>5 DEF Inv, OutputSound
<1> QED
  BY <1>4, <1>5, <1>6, <1>7, ReceiverStep DEF Inv, Types

LEMMA AssembleFailsKept ==
    ASSUME Inv, AssembleFails
    PROVE  Inv'
<1>1. /\ receiver' = [receiver EXCEPT !.at = "failed"] /\ receiver.at = "fetching"
      /\ UNCHANGED <<source, sender, node, output, flushError, readError>>
      /\ receiver \in ReceiverType
  BY DEF AssembleFails, Fetched, Inv, Types
<1>2. /\ receiver' \in ReceiverType /\ receiver'.at = "failed" /\ receiver'.wanted = receiver.wanted
      /\ receiver'.got = receiver.got
  BY <1>1 DEF ReceiverType
<1>3. LoadSound' /\ OutputSound'
  BY <1>1, <1>2 DEF Inv, LoadSound, OutputSound
<1> QED
  BY <1>1, <1>2, <1>3, ReceiverStep DEF Inv, Types

LEMMA CreateOutputKept ==
    ASSUME Inv, CreateOutput
    PROVE  Inv'
<1>1. /\ receiver' = [receiver EXCEPT !.at = "writing"] /\ receiver.at = "fetching"
      /\ Len(receiver.got) = Len(receiver.wanted) /\ output' = <<>>
      /\ UNCHANGED <<source, sender, node, flushError, readError>>
      /\ receiver \in ReceiverType /\ source \in File
  BY DEF CreateOutput, Fetched, Inv, Types, File
<1>2. /\ receiver' \in ReceiverType /\ receiver'.at = "writing" /\ receiver'.wanted = receiver.wanted
      /\ receiver'.got = receiver.got /\ receiver'.written = receiver.written
  BY <1>1 DEF ReceiverType
<1>3. LoadSound'
  BY <1>1, <1>2 DEF Inv, LoadSound
<1>4. OutputSound'
  <2>1. receiver.written = 0 /\ Len(receiver.got) \in Nat
    BY <1>1 DEF Inv, OutputSound, ReceiverType
  <2>2. UpTo(0) = <<>>
    <3>1. EndOf(0) = 0
      BY <1>1 DEF EndOf, Least, File
    <3> QED
      BY <1>1, <3>1 DEF UpTo, File
  <2>3. \A i : UpTo(i)' = UpTo(i)
    BY <1>1, SameSlices
  <2> QED
    BY <1>1, <1>2, <2>1, <2>2, <2>3 DEF OutputSound
<1>5. output' \in File
  BY <1>1 DEF File
<1> QED
  BY <1>1, <1>2, <1>3, <1>4, <1>5, ReceiverStep DEF Inv, Types

(* The next chunk of the file, as long as it could be read.                *)
LEMMA NextToWrite ==
    ASSUME Inv, receiver.at = "writing", receiver.written < Len(receiver.got)
    PROVE  /\ receiver.got[receiver.written + 1] \in File
           /\ ~readError => receiver.got[receiver.written + 1] = Slice(receiver.written + 1)
<1>1. /\ receiver.written \in Nat /\ receiver.got \in Seq(File) /\ Len(receiver.got) \in Nat
      /\ receiver.written + 1 \in 1..Len(receiver.got)
      /\ Len(receiver.wanted) \in Nat /\ Len(sender.chunks) \in Nat
  BY DEF Inv, Types, ReceiverType, SenderType
<1>2. /\ receiver.got[receiver.written + 1] = sender.chunks[receiver.written + 1]
      /\ receiver.written + 1 \in 1..Len(sender.chunks)
  BY <1>1 DEF Inv, LoadSound
<1> QED
  BY <1>1, <1>2 DEF Inv, SplitSound

LEMMA WriteOutputKept ==
    ASSUME Inv, WriteOutput
    PROVE  Inv'
<1>0. PICK w, chunk : w = receiver.written /\ chunk = receiver.got[receiver.written + 1]
  OBVIOUS
<1>1. /\ receiver' = [receiver EXCEPT !.written = w + 1] /\ receiver.at = "writing"
      /\ w < Len(receiver.got) /\ output' = output \o chunk
      /\ UNCHANGED <<source, sender, node, flushError, readError>>
      /\ receiver \in ReceiverType /\ w \in Nat /\ source \in File /\ output \in File
      /\ Len(receiver.got) \in Nat
  BY <1>0 DEF WriteOutput, Inv, Types, File, ReceiverType
<1>2. /\ receiver' \in ReceiverType /\ receiver'.at = "writing" /\ receiver'.wanted = receiver.wanted
      /\ receiver'.got = receiver.got /\ receiver'.written = w + 1
  <2>1. w + 1 \in Nat
    BY <1>1
  <2> QED
    BY <1>1, <2>1 DEF ReceiverType
<1>3. chunk \in File /\ (~readError => chunk = Slice(w + 1))
  BY <1>0, <1>1, NextToWrite
<1>4. LoadSound'
  BY <1>1, <1>2 DEF Inv, LoadSound
<1>5. OutputSound'
  <2>1. \A i : UpTo(i)' = UpTo(i)
    BY <1>1, SameSlices
  <2>2. ~readError => output' = UpTo(w + 1)
    <3>1. ~readError => output = UpTo(w)
      BY <1>0, <1>1 DEF Inv, OutputSound
    <3> QED
      BY <1>1, <1>3, <3>1, SlicesJoin
  <2>3. Len(receiver.got) = Len(receiver.wanted) /\ w + 1 <= Len(receiver.got)
    BY <1>1 DEF Inv, OutputSound
  <2> QED
    BY <1>1, <1>2, <2>1, <2>2, <2>3 DEF OutputSound
<1>6. output' \in File
  BY <1>1, <1>3 DEF File
<1> QED
  BY <1>1, <1>2, <1>4, <1>5, <1>6, ReceiverStep DEF Inv, Types

LEMMA WriteOutputFailsKept ==
    ASSUME Inv, NEW n \in 0..ChunkSize, WriteOutputFails(n)
    PROVE  Inv'
<1>0. PICK chunk : chunk = receiver.got[receiver.written + 1]
  OBVIOUS
<1>1. /\ receiver' = [receiver EXCEPT !.at = "failed"] /\ receiver.at = "writing"
      /\ receiver.written < Len(receiver.got) /\ n < Len(chunk)
      /\ output' = output \o SubSeq(chunk, 1, n)
      /\ UNCHANGED <<source, sender, node, flushError, readError>>
      /\ receiver \in ReceiverType /\ output \in File
  BY <1>0 DEF WriteOutputFails, Inv, Types
<1>2. /\ receiver' \in ReceiverType /\ receiver'.at = "failed" /\ receiver'.wanted = receiver.wanted
      /\ receiver'.got = receiver.got
  BY <1>1 DEF ReceiverType
<1>3. LoadSound' /\ OutputSound'
  BY <1>1, <1>2 DEF Inv, LoadSound, OutputSound
<1>4. output' \in File
  <2>1. chunk \in File /\ n \in Nat /\ n <= Len(chunk)
    BY <1>0, <1>1, NextToWrite DEF File
  <2>2. SubSeq(chunk, 1, n) \in File
    BY <2>1, PrefixIsFile
  <2> QED
    BY <1>1, <2>2 DEF File
<1> QED
  BY <1>1, <1>2, <1>3, <1>4, ReceiverStep DEF Inv, Types

LEMMA CloseOutputKept ==
    ASSUME Inv, NEW n \in 0..ChunkSize, CloseOutput(n)
    PROVE  Inv'
<1>1. /\ receiver' = [receiver EXCEPT !.at = "done"] /\ receiver.at = "writing"
      /\ receiver.written = Len(receiver.got)
      /\ output' = SubSeq(output, 1, Len(output) - n)
      /\ flushError' \in BOOLEAN /\ (flushError' <=> n > 0)
      /\ UNCHANGED <<source, sender, node, readError>>
      /\ receiver \in ReceiverType /\ output \in File /\ n \in Nat
  <2>1. flushError' = (n > 0)
    BY DEF CloseOutput
  <2>2. flushError' \in BOOLEAN
    BY <2>1
  <2>3. flushError' <=> n > 0
    BY <2>1
  <2>4. receiver \in ReceiverType /\ output \in File /\ n \in Nat
    BY DEF Inv, Types
  <2> QED
    BY <2>2, <2>3, <2>4 DEF CloseOutput
<1>2. /\ receiver' \in ReceiverType /\ receiver'.at = "done" /\ receiver'.wanted = receiver.wanted
      /\ receiver'.got = receiver.got
  BY <1>1 DEF ReceiverType
<1>3. LoadSound'
  BY <1>1, <1>2 DEF Inv, LoadSound
<1>4. output' \in File /\ (n = 0 => output' = output)
  <2>1. Len(output) \in Nat /\ Len(output) - n <= Len(output)
    BY <1>1 DEF File
  <2>2. CASE Len(output) - n \in Nat
    BY <1>1, <2>1, <2>2, PrefixIsFile
  <2>3. CASE Len(output) - n < 0
    <3>1. output' = <<>>
      BY <1>1, <2>1, <2>3 DEF File
    <3> QED
      BY <2>1, <2>3, <3>1 DEF File
  <2> QED
    BY <1>1, <2>1, <2>2, <2>3
<1>5. OutputSound'
  <2>1. \A i : UpTo(i)' = UpTo(i)
    BY <1>1, SameSlices
  <2>2. ~flushError' => output' = output
    BY <1>1, <1>4
  <2> QED
    BY <1>1, <1>2, <2>1, <2>2 DEF Inv, OutputSound
<1> QED
  BY <1>1, <1>2, <1>3, <1>4, <1>5, ReceiverStep DEF Inv, Types

----------------------------------------------------------------------------

LEMMA InvInit ==
    ASSUME Init
    PROVE  Inv
<1>1. Types
  <2>1. disk \in [DOMAIN disk -> File] /\ call \in [Calls -> CallType]
    BY IdleIsCall DEF Init
  <2>2. sender \in SenderType /\ receiver \in ReceiverType
    BY DEF Init, SenderType, ReceiverType
  <2>3. source \in Sources /\ output \in File
    BY DEF Init, File
  <2> QED
    BY <2>1, <2>2, <2>3 DEF Init, Types
<1>2. SplitSound
  <2>1. Len(source) \in Nat /\ Len(sender.chunks) = 0 /\ sender.at = "reading" /\ readError = FALSE
    BY DEF Init
  <2>2. 0 * ChunkSize = 0
    OBVIOUS
  <2> QED
    BY <2>1, <2>2 DEF SplitSound
<1>3. CallsSound /\ WritersExclude /\ ClientsSound
  BY IdleIsCall DEF Init, CallsSound, CallSound, WritersExclude, Holds, ClientsSound
<1>4. DiskSound /\ StoredSound
  BY DEF Init, DiskSound, StoredSound
<1>5. LoadSound /\ OutputSound
  BY DEF Init, LoadSound, OutputSound
<1> QED
  BY <1>1, <1>2, <1>3, <1>4, <1>5 DEF Inv

LEMMA InvNext ==
    ASSUME Inv, [Next]_vars
    PROVE  Inv'
<1>1. CASE Upload
  BY <1>1, ReadChunkKept, SplitFailsKept, UploadDoneKept, StoreChunkKept, ChunkStoredKept,
     SenderGivesUpKept DEF Upload
<1>2. CASE Download
  BY <1>2, RequestDownloadKept, GetChunkKept, ChunkFetchedKept, ReceiverGivesUpKept, AssembleFailsKept,
     CreateOutputKept, WriteOutputKept, WriteOutputFailsKept, CloseOutputKept DEF Download
<1>3. CASE Crash
  BY <1>3, CrashKept
<1>4. ASSUME NEW t \in Calls, HandleFile(t) PROVE Inv'
  BY <1>4, OtherStoresKept, OpenFailsKept, OpenForWritingKept, OpenForReadingKept, ReadKept,
     ReadFailsKept, OtherAnsweredKept, WriteKept DEF HandleFile
<1>5. CASE UNCHANGED vars
  <2>1. \A i : UpTo(i)' = UpTo(i) /\ Slice(i)' = Slice(i)
    BY <1>5, SameSlices DEF vars
  <2>2. UNCHANGED <<source, sender, node, readError>> /\ UNCHANGED loading
    BY <1>5 DEF vars, node, loading
  <2>3. SplitSound' /\ LoadSound' /\ OutputSound'
    BY <2>1, <2>2, SplitKept DEF Inv, LoadSound, OutputSound, loading
  <2>4. Types' /\ CallsSound' /\ WritersExclude' /\ DiskSound' /\ StoredSound'
    BY <2>2 DEF Inv, Types, CallsSound, CallSound, WritersExclude, DiskSound, Writing, Holds, StoredSound,
                node, loading
  <2>5. ClientsSound'
    BY <2>2, ClientsKept DEF Inv, node, loading
  <2> QED
    BY <2>3, <2>4, <2>5 DEF Inv
<1> QED
  BY <1>1, <1>2, <1>3, <1>4, <1>5 DEF Next

THEOREM Invariance == Spec => []Inv
  BY InvInit, InvNext, PTL DEF Spec

(* The types, and what the type invariant adds: a chunk file holds the     *)
(* beginning of its chunk, all of it when its writer is about to report    *)
(* success, and each client waits for one call at most.                    *)
THEOREM TypeCorrect == Spec => []TypeOK
<1>1. Inv => TypeOK
  <2> SUFFICES ASSUME Inv PROVE TypeOK
    OBVIOUS
  <2>1. ASSUME NEW t \in Calls, call[t].op = "write", call[t].ok
        PROVE  Hash(disk[call[t].id]) = call[t].id
    BY <2>1 DEF Inv, CallsSound, CallSound
  <2>2. ASSUME NEW t \in Calls
        PROVE  /\ call[t].client = "sender"   => sender.at = "waiting"
               /\ call[t].client = "receiver" => receiver.at = "waiting"
               /\ \A u \in Calls \ {t} : call[t].client = call[u].client => call[t].client = "other"
    BY DEF Inv, ClientsSound, SenderWaits, ReceiverWaits
  <2> QED
    BY <2>1, <2>2 DEF TypeOK, Inv, Types, SenderType, ReceiverType, DiskSound
<1> QED
  BY <1>1, Invariance, PTL

(* AssembleFile writes the chunks in the order of the file, and they are   *)
(* the chunks SplitFile made: the saved file is the uploaded one.          *)
THEOREM SavedCorrect == Spec => []SavedIsSource
<1>1. Inv => SavedIsSource
  <2> SUFFICES ASSUME Inv, receiver.at = "done", ~readError, ~flushError
               PROVE  /\ IsPrefix(output, source)
                      /\ Len(receiver.wanted) = Len(sender.chunks) => output = source
    BY DEF SavedIsSource
  <2>1. PICK k : k = Len(receiver.wanted)
    OBVIOUS
  <2>2. k \in Nat /\ source \in File /\ Len(source) \in Nat
    BY <2>1 DEF Inv, Types, ReceiverType, File
  <2>3. output = SubSeq(source, 1, EndOf(k)) /\ EndOf(k) \in Nat /\ EndOf(k) <= Len(source)
    <3>1. output = UpTo(k)
      BY <2>1 DEF Inv, OutputSound
    <3>2. output = SubSeq(source, 1, EndOf(k))
      BY <3>1 DEF UpTo
    <3>3. EndOf(k) \in Nat /\ EndOf(k) <= Len(source)
      BY <2>2, SliceBounds
    <3> QED
      BY <3>2, <3>3
  <2>4. IsPrefix(output, source) /\ (EndOf(k) = Len(source) => output = source)
    BY <2>2, <2>3, PrefixIsFile
  <2>5. ASSUME k = Len(sender.chunks) PROVE EndOf(k) = Len(source)
    <3>1. Len(source) <= k * ChunkSize /\ k * ChunkSize \in Nat
      BY <2>2, <2>5, SliceBounds DEF Inv, LoadSound, SplitSound
    <3> QED
      BY <2>2, <3>1 DEF EndOf, Least
  <2> QED
    BY <2>1, <2>4, <2>5
<1> QED
  BY <1>1, Invariance, PTL

(* WriteFile and ReadFile share a file with readers only: what a node has  *)
(* acknowledged stays whole until a later request for the same chunk fails *)
(* or is cut, and no reader finds a chunk half written but after that.     *)
THEOREM CopiesCorrect == Spec => []CopiesKept
<1>1. Inv => CopiesKept
  <2> SUFFICES ASSUME Inv PROVE CopiesKept
    OBVIOUS
  <2>1. ASSUME NEW i \in 1..sender.stored
        PROVE  LET id == Hash(sender.chunks[i])
               IN  id \in DOMAIN disk /\ (Hash(disk[id]) = id \/ id \in torn \/ Writing(id))
    BY DEF Inv, StoredSound, DiskSound
  <2>2. ASSUME NEW t \in Calls, call[t].op = "read", call[t].ok
        PROVE  Hash(call[t].data) = call[t].id \/ call[t].id \in torn
    BY <2>2 DEF Inv, CallsSound, CallSound
  <2> QED
    BY <2>1, <2>2 DEF CopiesKept
<1> QED
  BY <1>1, Invariance, PTL

=============================================================================
