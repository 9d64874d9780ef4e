--------------------------- MODULE DownloadProofs ---------------------------
(***************************************************************************)
(* Proofs about Download, for any files, machines and downloads.  The      *)
(* first part follows every hash from the catalogue over the reply, cut or *)
(* not, to the chunk saved: a download saves chunks of files there have    *)
(* been, each at its place.  The second part follows the words of a line   *)
(* by their positions: what a cut line teaches the client, what the cache  *)
(* that all downloads share then holds, and which nodes have been asked    *)
(* when a download gives up on a chunk.                                    *)
(***************************************************************************)
EXTENDS Download, WellFoundedInduction, TLAPS

(* A file of that name has had that chunk at that place.                   *)
WasAt(name, i, hash) ==
    \E file \in published : file[1] = name /\ i \in DOMAIN file[2] /\ file[2][i] = hash

Listed(s) == Len(s) \in Nat /\ s = [i \in 1 .. Len(s) |-> s[i]]

(* A reply being written, from a file that is in the catalogue for as long *)
(* as there is a line to come.                                             *)
AnswerSound(x) ==
    /\ DOMAIN x = {"pc", "name", "view", "lines"}
    /\ Listed(x.view) /\ Listed(x.lines)
    /\ Len(x.lines) < Len(x.view) => x.name \in DOMAIN catalog
    /\ \A i \in 1 .. Len(x.view) : WasAt(x.name, i, x.view[i].hash)
    /\ \A i \in 1 .. Len(x.lines) :
          /\ DOMAIN x.lines[i] = {"entry", "words", "resolved"}
          /\ WasAt(x.name, i, x.lines[i].entry.hash)

(* Chunks saved and chunks wanted, which follow them.                      *)
FetchSound(x) ==
    /\ DOMAIN x = {"pc", "name", "whole", "saved", "rest", "tried", "asked"}
    /\ Listed(x.saved) /\ Listed(x.rest)
    /\ \A i \in 1 .. Len(x.saved) : WasAt(x.name, i, x.saved[i])
    /\ \A i \in 1 .. Len(x.rest) : WasAt(x.name, Len(x.saved) + i, x.rest[i].entry.hash)

TransferSound(x) ==
    /\ x.pc = "answering" => AnswerSound(x)
    /\ x.pc \in {"fetching", "done", "failed"} => FetchSound(x)

StoreSound ==
    \A name \in DOMAIN catalog :
        /\ Listed(catalog[name])
        /\ \A i \in 1 .. Len(catalog[name]) : WasAt(name, i, catalog[name][i].hash)

(* The inductive invariant.                                                *)
DownloadSound ==
    /\ StoreSound
    /\ download = [d \in Downloads |-> download[d]]
    /\ \A d \in Downloads : TransferSound(download[d])

----------------------------------------------------------------------------

(* Sequences whose members have no common type.                            *)
LEMMA ListedIsSeq ==
    ASSUME NEW s, Listed(s)
    PROVE  s \in Seq({s[i] : i \in 1 .. Len(s)})
  BY DEF Listed

LEMMA SeqIsListed ==
    ASSUME NEW S, NEW s \in Seq(S)
    PROVE  Listed(s)
  BY DEF Listed

LEMMA EmptyListed == Listed(<<>>) /\ Len(<<>>) = 0
<1>1. PICK s : s = <<>> /\ Len(s) = 0
  OBVIOUS
<1>2. s = [i \in 1 .. Len(s) |-> s[i]]
  BY <1>1
<1>3. Listed(s)
  BY <1>1, <1>2 DEF Listed
<1> QED
  BY <1>1, <1>3

LEMMA AppendListed ==
    ASSUME NEW s, Listed(s), NEW e
    PROVE  /\ Listed(Append(s, e))
           /\ Len(Append(s, e)) = Len(s) + 1
           /\ \A i \in 1 .. Len(s) : Append(s, e)[i] = s[i]
           /\ Append(s, e)[Len(s) + 1] = e
<1> DEFINE S == {s[i] : i \in 1 .. Len(s)} \cup {e}
<1>1. s \in Seq(S) /\ e \in S
  BY DEF Listed
<1> HIDE DEF S
<1>2. Append(s, e) \in Seq(S)
  BY <1>1
<1>3. /\ Len(Append(s, e)) = Len(s) + 1
      /\ \A i \in 1 .. Len(s) : Append(s, e)[i] = s[i]
      /\ Append(s, e)[Len(s) + 1] = e
  BY <1>1
<1> QED
  BY <1>2, <1>3, SeqIsListed

LEMMA PrefixListed ==
    ASSUME NEW s, Listed(s), NEW k \in 0 .. Len(s)
    PROVE  /\ Listed(SubSeq(s, 1, k))
           /\ Len(SubSeq(s, 1, k)) = k
           /\ \A i \in 1 .. k : SubSeq(s, 1, k)[i] = s[i]
<1> DEFINE S == {s[i] : i \in 1 .. Len(s)}
<1>1. s \in Seq(S) /\ Len(s) \in Nat
  BY ListedIsSeq DEF Listed
<1> HIDE DEF S
<1>2. SubSeq(s, 1, k) \in Seq(S)
  BY <1>1
<1>3. Len(SubSeq(s, 1, k)) = k
  BY <1>1
<1>4. \A i \in 1 .. k : SubSeq(s, 1, k)[i] = s[i]
  BY <1>1
<1> QED
  BY <1>2, <1>3, <1>4, SeqIsListed

LEMMA TailListed ==
    ASSUME NEW s, Listed(s), s # <<>>
    PROVE  /\ Listed(Tail(s)) /\ Len(s) \in Nat /\ Len(s) >= 1
           /\ Len(Tail(s)) = Len(s) - 1
           /\ \A i \in 1 .. Len(s) - 1 : Tail(s)[i] = s[i + 1]
           /\ Head(s) = s[1]
<1> DEFINE S == {s[i] : i \in 1 .. Len(s)}
<1>1. s \in Seq(S)
  BY ListedIsSeq
<1> HIDE DEF S
<1>2. Tail(s) \in Seq(S) /\ Len(s) >= 1 /\ Len(s) \in Nat
  BY <1>1
<1>3. Len(Tail(s)) = Len(s) - 1 /\ \A i \in 1 .. Len(s) - 1 : Tail(s)[i] = s[i + 1]
  BY <1>1, <1>2
<1>4. Head(s) = s[1]
  BY <1>1, <1>2
<1> QED
  BY <1>2, <1>3, <1>4, SeqIsListed

----------------------------------------------------------------------------

(* Files stay in the history, and in the catalogue until it is forgotten:  *)
(* a transfer that needs the catalogue no more stays sound even then.      *)
LEMMA TransferStays ==
    ASSUME NEW x, TransferSound(x), published \subseteq published',
           \/ DOMAIN catalog \subseteq DOMAIN catalog'
           \/ x.pc = "answering" => Len(x.lines) = Len(x.view)
    PROVE  TransferSound(x)'
<1>1. ASSUME NEW name, NEW i, NEW hash, WasAt(name, i, hash)
      PROVE  WasAt(name, i, hash)'
  BY <1>1 DEF WasAt
<1>2. x.pc = "answering" => AnswerSound(x)'
  BY <1>1 DEF TransferSound, AnswerSound, Listed
<1>3. x.pc \in {"fetching", "done", "failed"} => FetchSound(x)'
  BY <1>1 DEF TransferSound, FetchSound
<1> QED
  BY <1>2, <1>3 DEF TransferSound

(* A step of one download.                                                 *)
LEMMA DownloadSteps ==
    ASSUME DownloadSound, NEW d \in Downloads, NEW x,
           download' = [download EXCEPT ![d] = x], TransferSound(x),
           UNCHANGED <<storeVars, published>>
    PROVE  DownloadSound'
<1>1. /\ download' = [e \in Downloads |-> download'[e]]
      /\ \A e \in Downloads : download'[e] = IF e = d THEN x ELSE download[e]
  BY DEF DownloadSound
<1>2. \A e \in Downloads : TransferSound(download'[e])
  BY <1>1 DEF DownloadSound
<1>3. \A e \in Downloads : TransferSound(download[e])'
  BY <1>2 DEF TransferSound, AnswerSound, FetchSound, WasAt, storeVars
<1>4. StoreSound'
  BY DEF DownloadSound, StoreSound, WasAt, storeVars
<1> QED
  BY <1>1, <1>3, <1>4 DEF DownloadSound

LEMMA RequestKeeps ==
    ASSUME DownloadSound, NEW d \in Downloads, NEW name \in Names, RequestDownload(d, name)
    PROVE  DownloadSound'
<1> DEFINE x == [pc |-> "answering", name |-> name, view |-> catalog[name], lines |-> <<>>]
<1>1. /\ name \in DOMAIN catalog /\ download' = [download EXCEPT ![d] = x]
      /\ UNCHANGED <<storeVars, published>>
  BY DEF RequestDownload, history
<1>2. AnswerSound(x)
  BY <1>1, EmptyListed DEF AnswerSound, DownloadSound, StoreSound
<1>3. TransferSound(x)
  BY <1>2 DEF TransferSound
<1> HIDE DEF x
<1> QED
  BY <1>1, <1>3, DownloadSteps

(* Nothing is saved of a reply that has not come.                          *)
LEMMA RefusalKeeps ==
    ASSUME DownloadSound, NEW d \in Downloads, RequestFails(d) \/ ReceiveNothing(d)
    PROVE  DownloadSound'
  BY DownloadSteps DEF RequestFails, ReceiveNothing, Refused, TransferSound, history

LEMMA WriteLineKeeps ==
    ASSUME DownloadSound, NEW d \in Downloads, WriteLine(d)
    PROVE  DownloadSound'
<1> DEFINE old == download[d]
<1> DEFINE i == Len(old.lines) + 1
<1>1. PICK source \in {old.view, catalog[old.name]} :
          /\ i \in DOMAIN source
          /\ download' = [download EXCEPT ![d].lines = Append(@, LineOf(source[i]))]
  BY DEF WriteLine
<1>2. /\ old.pc = "answering" /\ i \in DOMAIN old.view /\ UNCHANGED <<storeVars, published>>
      /\ AnswerSound(old)
  BY DEF WriteLine, history, DownloadSound, TransferSound
<1>3. PICK x : x = [old EXCEPT !.lines = Append(@, LineOf(source[i]))]
  OBVIOUS
<1>4. download' = [download EXCEPT ![d] = x]
  BY <1>1, <1>3
<1> HIDE DEF old
<1>5. /\ DOMAIN x = DOMAIN old /\ x.pc = "answering" /\ x.name = old.name /\ x.view = old.view
      /\ x.lines = Append(old.lines, LineOf(source[i]))
  BY <1>2, <1>3 DEF AnswerSound
<1>6. Len(old.view) \in Nat /\ Len(old.lines) \in Nat /\ DOMAIN old.view = 1 .. Len(old.view)
  BY <1>2 DEF AnswerSound, Listed
<1>7. old.name \in DOMAIN catalog
  BY <1>2, <1>6 DEF AnswerSound
<1>8. WasAt(old.name, i, source[i].hash)
  <2>1. CASE source = old.view
    BY <1>2, <1>6, <2>1 DEF AnswerSound
  <2>2. CASE source = catalog[old.name]
    <3>1. Listed(source) /\ \A j \in 1 .. Len(source) : WasAt(old.name, j, source[j].hash)
      BY <1>7, <2>2 DEF DownloadSound, StoreSound
    <3>2. i \in 1 .. Len(source)
      BY <1>1, <3>1 DEF Listed
    <3> QED
      BY <3>1, <3>2
  <2> QED
    BY <2>1, <2>2
<1>9. /\ Listed(x.lines) /\ Len(x.lines) = i
      /\ \A j \in 1 .. Len(old.lines) : x.lines[j] = old.lines[j]
      /\ x.lines[i] = LineOf(source[i])
  BY <1>2, <1>5, AppendListed DEF AnswerSound
<1>10. /\ DOMAIN LineOf(source[i]) = {"entry", "words", "resolved"}
       /\ LineOf(source[i]).entry = source[i]
  BY DEF LineOf
<1>11. ASSUME NEW j \in 1 .. Len(x.lines)
       PROVE  /\ DOMAIN x.lines[j] = {"entry", "words", "resolved"}
              /\ WasAt(x.name, j, x.lines[j].entry.hash)
  <2>1. CASE j = i
    BY <1>5, <1>8, <1>9, <1>10, <2>1
  <2>2. CASE j # i
    <3>1. j \in 1 .. Len(old.lines)
      BY <1>6, <1>9, <2>2
    <3> QED
      BY <1>2, <1>5, <1>9, <3>1 DEF AnswerSound
  <2> QED
    BY <2>1, <2>2
<1>12. AnswerSound(x)
  BY <1>2, <1>5, <1>7, <1>9, <1>11 DEF AnswerSound
<1> QED
  BY <1>2, <1>4, <1>5, <1>12, DownloadSteps DEF TransferSound

(* What is parsed are lines of the reply, from the first on.               *)
LEMMA ParseKeeps ==
    ASSUME DownloadSound, NEW d \in Downloads, NEW lines, NEW whole \in BOOLEAN,
           Parse(d, lines, whole), Listed(lines),
           \A i \in 1 .. Len(lines) : WasAt(download[d].name, i, lines[i].entry.hash)
    PROVE  DownloadSound'
<1> DEFINE rest == [i \in DOMAIN lines |-> WantedBy(lines[i])]
<1> DEFINE x == [pc |-> "fetching", name |-> download[d].name, whole |-> whole,
                 saved |-> <<>>, rest |-> rest, tried |-> 0, asked |-> {}]
<1>1. download' = [download EXCEPT ![d] = x] /\ UNCHANGED <<storeVars, published>>
  BY DEF Parse
<1>2. DOMAIN lines = 1 .. Len(lines) /\ Len(lines) \in Nat
  BY DEF Listed
<1>3. Listed(rest) /\ Len(rest) = Len(lines)
  <2>1. rest \in Seq({WantedBy(lines[i]) : i \in 1 .. Len(lines)}) /\ Len(rest) = Len(lines)
    BY <1>2
  <2> HIDE DEF rest
  <2> QED
    BY <2>1, SeqIsListed
<1>4. \A i \in 1 .. Len(lines) : rest[i].entry = lines[i].entry
  BY <1>2 DEF WantedBy
<1> HIDE DEF rest
<1>5. \A i \in 1 .. Len(rest) : WasAt(x.name, Len(<<>>) + i, rest[i].entry.hash)
  BY <1>2, <1>3, <1>4, EmptyListed
<1>6. FetchSound(x)
  BY <1>3, <1>5, EmptyListed DEF FetchSound
<1>7. TransferSound(x)
  BY <1>6 DEF TransferSound
<1> HIDE DEF x
<1> QED
  BY <1>1, <1>7, DownloadSteps

LEMMA ReceiveKeeps ==
    ASSUME DownloadSound, NEW d \in Downloads, ReceiveReply(d) \/ ReceivePart(d)
    PROVE  DownloadSound'
<1> DEFINE lines == download[d].lines
<1> DEFINE name == download[d].name
<1>1. /\ Listed(lines)
      /\ \A i \in 1 .. Len(lines) : /\ DOMAIN lines[i] = {"entry", "words", "resolved"}
                                    /\ WasAt(name, i, lines[i].entry.hash)
  BY DEF ReceiveReply, ReceivePart, IsSent, DownloadSound, TransferSound, AnswerSound
<1>2. DOMAIN lines = 1 .. Len(lines) /\ Len(lines) \in Nat
  BY <1>1 DEF Listed
<1>3. CASE ReceiveReply(d)
  BY <1>1, <1>3, ParseKeeps DEF ReceiveReply
<1>4. ASSUME NEW k \in DOMAIN lines, Parse(d, SubSeq(lines, 1, k), FALSE)
      PROVE  DownloadSound'
  <2>1. PICK part : part = SubSeq(lines, 1, k)
    OBVIOUS
  <2>2. Listed(part) /\ Len(part) = k /\ \A i \in 1 .. k : part[i] = lines[i]
    BY <1>1, <1>2, <2>1, PrefixListed
  <2>3. \A i \in 1 .. Len(part) : WasAt(name, i, part[i].entry.hash)
    BY <1>1, <1>2, <2>2
  <2> QED
    BY <1>4, <2>1, <2>2, <2>3, ParseKeeps
<1>5. ASSUME NEW k \in DOMAIN lines, NEW rest \in CutShort(lines[k]),
             Parse(d, Append(SubSeq(lines, 1, k - 1), rest), FALSE)
      PROVE  DownloadSound'
  <2>1. PICK part : part = SubSeq(lines, 1, k - 1)
    OBVIOUS
  <2>2. Listed(part) /\ Len(part) = k - 1 /\ \A i \in 1 .. k - 1 : part[i] = lines[i]
    BY <1>1, <1>2, <2>1, PrefixListed
  <2>3. rest.entry = lines[k].entry
    BY <1>1, <1>2 DEF CutShort
  <2>4. PICK all : all = Append(part, rest)
    OBVIOUS
  <2>5. /\ Listed(all) /\ Len(all) = k
        /\ \A i \in 1 .. k - 1 : all[i] = lines[i]
        /\ all[k] = rest
    BY <1>2, <2>2, <2>4, AppendListed
  <2>6. ASSUME NEW i \in 1 .. Len(all)
        PROVE  WasAt(name, i, all[i].entry.hash)
    <3>1. all[i].entry = lines[i].entry /\ i \in 1 .. Len(lines)
      BY <1>2, <2>3, <2>5
    <3> QED
      BY <1>1, <3>1
  <2> QED
    BY <1>5, <2>1, <2>4, <2>5, <2>6, ParseKeeps
<1> QED
  BY <1>3, <1>4, <1>5 DEF ReceivePart

LEMMA TryNodeKeeps ==
    ASSUME DownloadSound, NEW d \in Downloads, NEW data, TryNode(d, data)
    PROVE  DownloadSound'
<1> DEFINE old == download[d]
<1>1. /\ old.pc = "fetching" /\ old.rest # <<>> /\ FetchSound(old)
      /\ UNCHANGED <<storeVars, published>>
  BY DEF TryNode, GetChunk, IsFetching, history, DownloadSound, TransferSound
<1> DEFINE next == old.tried + 1
<1> DEFINE id == Current(d).ids[next]
<1> DEFINE hosts == IF id \in DOMAIN cache THEN At(cache[id]) ELSE {}
<1> DEFINE asked == IF hosts # {} THEN old.asked \cup {id} ELSE old.asked
<1> DEFINE taken == [old EXCEPT !.saved = Append(old.saved, data), !.rest = Tail(old.rest),
                                !.tried = 0, !.asked = {}]
<1> DEFINE missed == [old EXCEPT !.tried = next, !.asked = asked]
<1>2. PICK x : /\ download' = [download EXCEPT ![d] = x]
               /\ \/ data = Current(d).entry.hash /\ x = taken
                  \/ x = missed
  <2>1. GetChunk(d, data, next)
    BY DEF TryNode
  <2>2. CASE data # NoData /\ Matches(data, Current(d).entry.hash)
    <3>1. download' = [download EXCEPT ![d] = taken]
      BY <2>1, <2>2 DEF GetChunk
    <3>2. data = Current(d).entry.hash
      BY <2>2 DEF Matches
    <3> HIDE DEF taken
    <3> QED
      BY <3>1, <3>2
  <2>3. CASE ~(data # NoData /\ Matches(data, Current(d).entry.hash))
    <3>1. download' = [download EXCEPT ![d] = missed]
      BY <2>1, <2>3 DEF GetChunk
    <3> HIDE DEF missed
    <3> QED
      BY <3>1
  <2> QED
    BY <2>2, <2>3
<1> HIDE DEF asked
<1>3. Current(d) = old.rest[1]
  BY <1>1, TailListed DEF Current, FetchSound
<1>4. /\ Listed(Tail(old.rest)) /\ Len(old.rest) >= 1
      /\ Len(Tail(old.rest)) = Len(old.rest) - 1
      /\ \A i \in 1 .. Len(old.rest) - 1 : Tail(old.rest)[i] = old.rest[i + 1]
      /\ Len(old.rest) \in Nat /\ Len(old.saved) \in Nat
  BY <1>1, TailListed DEF FetchSound, Listed
<1>5. /\ Listed(Append(old.saved, data)) /\ Len(Append(old.saved, data)) = Len(old.saved) + 1
      /\ \A i \in 1 .. Len(old.saved) : Append(old.saved, data)[i] = old.saved[i]
      /\ Append(old.saved, data)[Len(old.saved) + 1] = data
  BY <1>1, AppendListed DEF FetchSound
<1> HIDE DEF old
<1>6. ASSUME data = old.rest[1].entry.hash,
             x = taken
      PROVE  TransferSound(x)
  <2>1. /\ DOMAIN x = DOMAIN old /\ x.pc = "fetching" /\ x.name = old.name
        /\ x.saved = Append(old.saved, data) /\ x.rest = Tail(old.rest)
    BY <1>1, <1>6 DEF FetchSound
  <2>2. WasAt(old.name, Len(old.saved) + 1, data)
    BY <1>1, <1>4, <1>6 DEF FetchSound
  <2>3. ASSUME NEW i \in 1 .. Len(x.saved)
        PROVE  WasAt(x.name, i, x.saved[i])
    <3>1. CASE i = Len(old.saved) + 1
      BY <1>5, <2>1, <2>2, <3>1
    <3>2. CASE i # Len(old.saved) + 1
      <4>1. i \in 1 .. Len(old.saved)
        BY <1>4, <1>5, <2>1, <3>2
      <4> QED
        BY <1>1, <1>5, <2>1, <4>1 DEF FetchSound
    <3> QED
      BY <3>1, <3>2
  <2>4. ASSUME NEW i \in 1 .. Len(x.rest)
        PROVE  WasAt(x.name, Len(x.saved) + i, x.rest[i].entry.hash)
    <3>1. i \in 1 .. Len(old.rest) - 1
      BY <1>4, <2>1
    <3>2. i + 1 \in 1 .. Len(old.rest)
      BY <1>4, <3>1
    <3>3. x.rest[i] = old.rest[i + 1]
      BY <1>4, <2>1, <3>1
    <3>4. Len(x.saved) + i = Len(old.saved) + (i + 1)
      <4>1. Len(x.saved) = Len(old.saved) + 1
        BY <1>5, <2>1
      <4>2. PICK n \in Nat : n = Len(old.saved)
        BY <1>4
      <4>3. PICK j \in Nat : j = i
        BY <1>4, <3>1
      <4>4. (n + 1) + j = n + (j + 1)
        OBVIOUS
      <4> QED
        BY <4>1, <4>2, <4>3, <4>4
    <3> QED
      BY <1>1, <2>1, <3>2, <3>3, <3>4 DEF FetchSound
  <2>5. FetchSound(x)
    BY <1>1, <1>4, <1>5, <2>1, <2>3, <2>4 DEF FetchSound
  <2> QED
    BY <2>1, <2>5 DEF TransferSound
<1>7. ASSUME x = missed
      PROVE  TransferSound(x)
  <2>1. /\ DOMAIN x = DOMAIN old /\ x.pc = "fetching" /\ x.name = old.name
        /\ x.saved = old.saved /\ x.rest = old.rest
    BY <1>1, <1>7 DEF FetchSound
  <2> QED
    BY <1>1, <2>1 DEF TransferSound, FetchSound
<1> QED
  BY <1>1, <1>2, <1>3, <1>6, <1>7, DownloadSteps

(* A download that ends keeps what it has.                                 *)
LEMMA EndKeeps ==
    ASSUME DownloadSound, NEW d \in Downloads,
           ChunkFails(d) \/ \E ok \in BOOLEAN : AssembleFile(d, ok)
    PROVE  DownloadSound'
<1> DEFINE old == download[d]
<1>1. /\ old.pc = "fetching" /\ FetchSound(old) /\ UNCHANGED <<storeVars, published>>
  BY DEF ChunkFails, AssembleFile, IsFetching, history, DownloadSound, TransferSound
<1>2. PICK pc \in {"done", "failed"} : download' = [download EXCEPT ![d].pc = pc]
  BY DEF ChunkFails, AssembleFile
<1>3. PICK x : x = [old EXCEPT !.pc = pc]
  OBVIOUS
<1>4. download' = [download EXCEPT ![d] = x]
  BY <1>2, <1>3
<1> HIDE DEF old
<1>5. /\ DOMAIN x = DOMAIN old /\ x.pc = pc /\ x.name = old.name
      /\ x.saved = old.saved /\ x.rest = old.rest
  BY <1>1, <1>3 DEF FetchSound
<1>6. TransferSound(x)
  BY <1>1, <1>5 DEF TransferSound, FetchSound
<1> QED
  BY <1>1, <1>4, <1>6, DownloadSteps

----------------------------------------------------------------------------

(* A step that adds to the store only.                                     *)
LEMMA TransfersStay ==
    ASSUME DownloadSound, StoreSound', UNCHANGED download, published \subseteq published',
           DOMAIN catalog \subseteq DOMAIN catalog'
    PROVE  DownloadSound'
<1>1. ASSUME NEW d \in Downloads
      PROVE  TransferSound(download[d])'
  <2>1. PICK x : x = download[d]
    OBVIOUS
  <2>2. TransferSound(x)'
    BY <2>1, TransferStays DEF DownloadSound
  <2> QED
    BY <2>1, <2>2 DEF TransferSound, AnswerSound, FetchSound, WasAt
<1> QED
  BY <1>1 DEF DownloadSound

(* Every file of the catalogue goes into the history as it is.             *)
LEMMA HistoryComplete ==
    ASSUME \A name \in DOMAIN catalog' : Listed(catalog'[name]),
           published' = published
               \cup {<<name, HashesOf(catalog'[name])>> : name \in DOMAIN catalog'}
    PROVE  StoreSound'
<1>1. ASSUME NEW name \in DOMAIN catalog', NEW i \in 1 .. Len(catalog'[name])
      PROVE  WasAt(name, i, catalog[name][i].hash)'
  <2>1. PICK entries : entries = catalog'[name]
    OBVIOUS
  <2>2. DOMAIN entries = 1 .. Len(entries)
    BY <2>1 DEF Listed
  <2>3. /\ DOMAIN HashesOf(entries) = DOMAIN entries
        /\ HashesOf(entries)[i] = entries[i].hash
    BY <2>1, <2>2 DEF HashesOf
  <2>4. PICK file : file = <<name, HashesOf(entries)>>
    OBVIOUS
  <2>5. file \in published' /\ file[1] = name /\ file[2] = HashesOf(entries)
    BY <2>1, <2>4
  <2> QED
    BY <2>1, <2>2, <2>3, <2>5 DEF WasAt
<1>2. \A name \in DOMAIN catalog' : Listed(catalog[name])'
  BY DEF Listed
<1> QED
  BY <1>1, <1>2 DEF StoreSound

LEMMA StoreKeeps ==
    ASSUME DownloadSound, Store
    PROVE  DownloadSound'
<1>1. published' = published \cup {<<name, HashesOf(catalog'[name])>> : name \in DOMAIN catalog'}
      /\ UNCHANGED download
  BY DEF Store, client
<1>2. DOMAIN catalog \subseteq DOMAIN catalog' /\ \A name \in DOMAIN catalog' : Listed(catalog'[name])
  <2>1. CASE UNCHANGED catalog
    BY <2>1 DEF DownloadSound, StoreSound
  <2>2. ASSUME NEW name \in Names, NEW content \in Contents, NEW ids,
               NEW placed \in [DOMAIN content -> Placements(ids)],
               Publish(name, content, ids, placed)
        PROVE  DOMAIN catalog \subseteq DOMAIN catalog' /\ \A n \in DOMAIN catalog' : Listed(catalog'[n])
    <3> DEFINE file == [i \in DOMAIN content |-> [hash |-> content[i], nodes |-> placed[i]]]
    <3>1. content \in Seq(Chunks)
      BY DownloadAssumption
    <3>2. Len(content) \in Nat /\ DOMAIN content = 1 .. Len(content)
      BY <3>1
    <3>3. catalog' = [n \in DOMAIN catalog \cup {name} |-> IF n = name THEN file ELSE catalog[n]]
      BY <2>2 DEF Publish
    <3>4. file \in Seq({file[i] : i \in 1 .. Len(content)})
      BY <3>2
    <3> HIDE DEF file
    <3>5. Listed(file)
      BY <3>4, SeqIsListed
    <3> QED
      BY <3>3, <3>5 DEF DownloadSound, StoreSound
  <2> QED
    BY <2>1, <2>2 DEF Store, Join, Write, Empty
<1>3. StoreSound'
  BY <1>1, <1>2, HistoryComplete
<1> QED
  BY <1>1, <1>2, <1>3, TransfersStay

LEMMA RestartKeeps ==
    ASSUME DownloadSound, RestartServer
    PROVE  DownloadSound'
<1>1. /\ UNCHANGED published /\ DOMAIN catalog' = {}
      /\ download' = [d \in Downloads |->
                         IF download[d].pc = "answering" /\ ~IsSent(d) THEN Refused ELSE download[d]]
  BY DEF RestartServer, Forget, history
<1>2. ASSUME NEW d \in Downloads
      PROVE  TransferSound(download[d])'
  <2>1. CASE download'[d] = Refused
    BY <2>1 DEF Refused, TransferSound
  <2>2. CASE download'[d] = download[d] /\ (download[d].pc = "answering" => IsSent(d))
    <3>1. PICK x : x = download[d]
      OBVIOUS
    <3>2. TransferSound(x) /\ (x.pc = "answering" => Len(x.lines) = Len(x.view))
      BY <2>2, <3>1 DEF DownloadSound, IsSent
    <3>3. TransferSound(x)'
      BY <1>1, <3>2, TransferStays
    <3> QED
      BY <2>2, <3>1, <3>3 DEF TransferSound, AnswerSound, FetchSound, WasAt
  <2> QED
    BY <1>1, <2>1, <2>2
<1>3. StoreSound'
  BY <1>1 DEF StoreSound
<1>4. download' = [d \in Downloads |-> download'[d]]
  BY <1>1
<1> QED
  BY <1>2, <1>3, <1>4 DEF DownloadSound

LEMMA SoundHolds == Spec => []DownloadSound
<1>1. Init => DownloadSound
  <2> SUFFICES ASSUME Init PROVE DownloadSound
    OBVIOUS
  <2>1. DOMAIN catalog = {} /\ download = [d \in Downloads |-> New]
    BY DEF Init, StoreInit
  <2> QED
    BY <2>1 DEF DownloadSound, StoreSound, TransferSound, New
<1>2. DownloadSound /\ [Next]_vars => DownloadSound'
  <2> SUFFICES ASSUME DownloadSound, [Next]_vars PROVE DownloadSound'
    OBVIOUS
  <2>1. CASE UNCHANGED <<catalog, download, published>>
    <3>1. StoreSound'
      BY <2>1 DEF DownloadSound, StoreSound, WasAt
    <3> QED
      BY <2>1, <3>1, TransfersStay
  <2>2. CASE \E active \in SUBSET known : ListNodes(active)
    BY <2>1, <2>2 DEF ListNodes, storeVars, history
  <2>3. ASSUME NEW d \in Downloads, DownloadFile(d)
        PROVE  DownloadSound'
    BY <2>3, WriteLineKeeps, ReceiveKeeps, RefusalKeeps, TryNodeKeeps, EndKeeps DEF DownloadFile
  <2>4. CASE UNCHANGED vars
    BY <2>1, <2>4 DEF vars, storeVars, history
  <2> QED
    BY <2>2, <2>3, <2>4, StoreKeeps, RestartKeeps, RequestKeeps, RefusalKeeps DEF Next
<1> QED
  BY <1>1, <1>2, PTL DEF Spec

(* Whatever is replaced, cut or corrupted on the way, and however often    *)
(* the server restarts, chunk i of a saved file is chunk i of a file there *)
(* has been under that name.                                               *)
THEOREM SavedFilesWerePublished == Spec => []SavedWasPublished
<1>1. DownloadSound => SavedWasPublished
  <2> SUFFICES ASSUME DownloadSound, NEW d \in Downloads, download[d].pc = "done",
                      NEW i \in DOMAIN download[d].saved
               PROVE  WasAt(download[d].name, i, download[d].saved[i])
    BY DEF SavedWasPublished, WasAt
  <2>1. PICK x : x = download[d]
    OBVIOUS
  <2>2. FetchSound(x)
    BY <2>1 DEF DownloadSound, TransferSound
  <2>3. DOMAIN x.saved = 1 .. Len(x.saved)
    BY <2>2 DEF FetchSound, Listed
  <2> QED
    BY <2>1, <2>2, <2>3 DEF FetchSound
<1> QED
  BY SoundHolds, <1>1, PTL

----------------------------------------------------------------------------

(* Nodes the server can resolve all or none of.                            *)
Together(nodes) ==
    /\ \A r \in 1 .. ReplicationFactor : nodes[r] \in DOMAIN owner
    /\ \/ \A r \in 1 .. ReplicationFactor : nodes[r] \in known
       \/ \A r \in 1 .. ReplicationFactor : nodes[r] \notin known

(* A line as the server wrote it.                                          *)
Written(line) ==
    LET nodes == line.entry.nodes
        words == line.words
    IN  /\ \A r \in 1 .. ReplicationFactor : nodes[r] \in DOMAIN owner
        /\ line.resolved =>
              /\ Len(words) = 3 * ReplicationFactor
              /\ \A r \in 1 .. ReplicationFactor :
                    /\ words[(3 * r) - 2] = nodes[r]
                    /\ words[(3 * r) - 1] = Ip(owner[nodes[r]])
                    /\ words[3 * r] = Port(owner[nodes[r]])
        /\ ~line.resolved => Len(words) = ReplicationFactor

(* What a line, cut or not, teaches the client.                            *)
Teaches(words) ==
    \A k \in 1 .. Triples(words) :
        LET id == words[(3 * k) - 2]
        IN  /\ id \in DOMAIN owner
            /\ words[(3 * k) - 1] = Ip(owner[id])
            /\ words[3 * k] \in {Port(owner[id]), Garbage}

(* A wrong address is one that a reply was cut in.                         *)
CacheSound ==
    /\ cache = [id \in DOMAIN cache |-> cache[id]]
    /\ DOMAIN cache \subseteq DOMAIN owner
    /\ \A id \in DOMAIN cache :
          \/ cache[id] = Address(owner[id])
          \/ cache[id] = <<Ip(owner[id]), Garbage>> /\ id \in spoilt

(* The ids wanted of a whole line are its nodes, which are in the cache.   *)
Lists(wanted) ==
    /\ Len(wanted.ids) = ReplicationFactor
    /\ \A r \in 1 .. ReplicationFactor :
          wanted.ids[r] = wanted.entry.nodes[r] /\ wanted.ids[r] \in DOMAIN cache

(* The first n nodes of a chunk have been asked, or cannot be reached.     *)
AskedFirst(x, n) ==
    \A r \in 1 .. ReplicationFactor :
        r <= n => x.rest[1].entry.nodes[r] \in x.asked \cup spoilt

Asking(x) ==
    x.whole =>
        /\ \A i \in 1 .. Len(x.rest) : x.rest[i].resolved => Lists(x.rest[i])
        /\ x.rest # <<>> /\ x.rest[1].resolved =>
              /\ x.pc = "fetching" => AskedFirst(x, x.tried)
              /\ x.pc = "failed"   => AskedFirst(x, ReplicationFactor)

TransferTyped(x) ==
    /\ x \in {New, Refused} \cup Answering \cup Fetching
    /\ x.pc = "answering" =>
          /\ \A i \in 1 .. Len(x.view) : Together(x.view[i].nodes)
          /\ \A i \in 1 .. Len(x.lines) : Written(x.lines[i])
    /\ x.pc \in {"fetching", "done", "failed"} => Asking(x)

CatalogTyped ==
    /\ catalog = [name \in DOMAIN catalog |-> catalog[name]]
    /\ DOMAIN catalog \subseteq Names
    /\ \A name \in DOMAIN catalog :
          /\ catalog[name] \in Seq(EntryType)
          /\ \A i \in 1 .. Len(catalog[name]) : Together(catalog[name][i].nodes)

NodesTyped ==
    /\ DOMAIN owner \subseteq Ids /\ owner \in [DOMAIN owner -> Hosts]
    /\ known \subseteq DOMAIN owner
    /\ disk \in [Hosts -> SUBSET Chunks]
    /\ torn \subseteq Hosts \X Chunks

(* The inductive invariant of types, addresses and nodes asked.            *)
DownloadTyped ==
    /\ NodesTyped /\ CatalogTyped /\ CacheSound
    /\ \A d \in Downloads : TransferTyped(download[d])
    /\ published \subseteq Names \X Seq(Chunks)
    /\ spoilt \subseteq Ids

----------------------------------------------------------------------------

(* The words of a line.                                                    *)

(* The largest of some indices.                                            *)
LEMMA LeastNumber ==
    ASSUME NEW T, T \subseteq Nat, T # {}
    PROVE  \E n \in T : \A m \in T : n <= m
<1> DEFINE R == OpToRel(<, Nat)
<1>1. IsWellFoundedOn(R, Nat)
  BY NatLessThanWellFounded
<1>2. \E n \in T : \A m \in T : <<m, n>> \notin R
  <2> HIDE DEF R
  <2> QED
    BY <1>1, WFMin
<1>3. \A m, n \in Nat : <<m, n>> \in R <=> m < n
  BY DEF OpToRel
<1> HIDE DEF R
<1>4. PICK n \in T : \A m \in T : <<m, n>> \notin R
  BY <1>2
<1>5. ASSUME NEW m \in T PROVE n <= m
  <2>1. m \in Nat /\ n \in Nat
    OBVIOUS
  <2>2. <<m, n>> \notin R
    BY <1>4
  <2>3. ~(m < n)
    BY <1>3, <2>1, <2>2
  <2> QED
    BY <2>1, <2>3
<1> QED
  BY <1>5

LEMMA MaxIs ==
    ASSUME NEW n \in Nat, NEW s \in SUBSET (1 .. n), s # {}
    PROVE  Max(s) \in s /\ \A i \in s : Max(s) >= i
<1>1. PICK T : T = {n - i : i \in s}
  OBVIOUS
<1>2. T \subseteq Nat /\ T # {}
  <2>1. \A i \in s : n - i \in Nat
    OBVIOUS
  <2>2. \E i : i \in s
    OBVIOUS
  <2> QED
    BY <1>1, <2>1, <2>2
<1>3. PICK k \in T : \A l \in T : k <= l
  BY <1>2, LeastNumber
<1>4. PICK m \in s : k = n - m
  BY <1>1
<1>5. ASSUME NEW i \in s PROVE m >= i
  <2>1. k <= n - i
    BY <1>1, <1>3
  <2> QED
    BY <1>4, <2>1
<1>6. \E x \in s : \A y \in s : x >= y
  BY <1>5
<1> QED
  BY <1>6 DEF Max

(* FlattenSeq of one and of two sequences.                                 *)
LEMMA FlattenOne ==
    ASSUME NEW seqs, Len(seqs) = 1
    PROVE  FlattenSeq(seqs) = seqs[1]
<1> DEFINE Is(f) == f = [i \in 1 .. Len(seqs) |-> IF i = 1 THEN seqs[i] ELSE f[i - 1] \o seqs[i]]
           flatten == CHOOSE f : Is(f)
<1>1. FlattenSeq(seqs) = flatten[Len(seqs)]
  BY DEF FlattenSeq
<1>2. PICK g : g = [i \in 1 .. 1 |-> seqs[1]]
  OBVIOUS
<1>3. \A i \in 1 .. 1 : i = 1
  OBVIOUS
<1>4. Is(g)
  BY <1>2, <1>3
<1>5. Is(flatten)
  <2> HIDE DEF Is
  <2> QED
    BY <1>4
<1>6. flatten[1] = seqs[1]
  <2>1. PICK f : f = flatten
    OBVIOUS
  <2>2. Is(f)
    BY <1>5, <2>1
  <2>3. 1 \in 1 .. Len(seqs)
    OBVIOUS
  <2>4. f[1] = seqs[1]
    BY <2>2, <2>3
  <2> QED
    BY <2>1, <2>4
<1> QED
  BY <1>1, <1>6

LEMMA FlattenTwo ==
    ASSUME NEW seqs, Len(seqs) = 2
    PROVE  FlattenSeq(seqs) = seqs[1] \o seqs[2]
<1> DEFINE Is(f) == f = [i \in 1 .. Len(seqs) |-> IF i = 1 THEN seqs[i] ELSE f[i - 1] \o seqs[i]]
           flatten == CHOOSE f : Is(f)
<1>1. FlattenSeq(seqs) = flatten[Len(seqs)]
  BY DEF FlattenSeq
<1>2. PICK g : g = [i \in 1 .. 2 |-> IF i = 1 THEN seqs[i] ELSE seqs[1] \o seqs[i]]
  OBVIOUS
<1>3. \A i \in 1 .. 2 : i # 1 => i = 2 /\ i - 1 = 1
  OBVIOUS
<1>4. Is(g)
  <2>1. g[1] = seqs[1]
    BY <1>2
  <2>2. \A i \in 1 .. 2 : g[i] = IF i = 1 THEN seqs[i] ELSE g[i - 1] \o seqs[i]
    BY <1>2, <1>3, <2>1
  <2> QED
    BY <1>2, <2>2
<1>5. Is(flatten)
  <2> HIDE DEF Is
  <2> QED
    BY <1>4
<1>6. flatten[2] = seqs[1] \o seqs[2]
  <2>1. PICK f : f = flatten
    OBVIOUS
  <2>2. Is(f)
    BY <1>5, <2>1
  <2>3. 1 \in 1 .. Len(seqs) /\ 2 \in 1 .. Len(seqs) /\ 2 # 1 /\ 2 - 1 = 1
    OBVIOUS
  <2>4. f[1] = seqs[1]
    BY <2>2, <2>3
  <2>5. f[2] = f[2 - 1] \o seqs[2]
    BY <2>2, <2>3
  <2> QED
    BY <2>1, <2>3, <2>4, <2>5
<1> QED
  BY <1>1, <1>6

LEMMA AddressWords ==
    ASSUME NodesTyped, NEW id \in DOMAIN owner
    PROVE  id \in Word /\ Ip(owner[id]) \in Word /\ Port(owner[id]) \in Word
<1>1. id \in Ids /\ owner[id] \in Hosts
  BY DEF NodesTyped
<1> QED
  BY <1>1 DEF Word

(* One or two nodes, with their addresses or without.                      *)
LEMMA WordsIs ==
    ASSUME NodesTyped, NEW nodes \in [1 .. ReplicationFactor -> Ids], Together(nodes)
    PROVE  /\ Words(nodes) \in Seq(Word)
           /\ (\A r \in 1 .. ReplicationFactor : nodes[r] \in known) =>
                 /\ Len(Words(nodes)) = 3 * ReplicationFactor
                 /\ \A r \in 1 .. ReplicationFactor :
                       /\ Words(nodes)[(3 * r) - 2] = nodes[r]
                       /\ Words(nodes)[(3 * r) - 1] = Ip(owner[nodes[r]])
                       /\ Words(nodes)[3 * r] = Port(owner[nodes[r]])
           /\ ~(\A r \in 1 .. ReplicationFactor : nodes[r] \in known) =>
                 Len(Words(nodes)) = ReplicationFactor
<1> DEFINE part(r) == IF nodes[r] \in known
                      THEN <<nodes[r], Ip(owner[nodes[r]]), Port(owner[nodes[r]])>>
                      ELSE <<nodes[r]>>
<1>1. PICK seqs : seqs = [r \in 1 .. ReplicationFactor |-> part(r)]
  OBVIOUS
<1>2. Words(nodes) = FlattenSeq(seqs)
  BY <1>1 DEF Words
<1>3. \A r \in 1 .. ReplicationFactor :
         /\ nodes[r] \in Word /\ Ip(owner[nodes[r]]) \in Word /\ Port(owner[nodes[r]]) \in Word
  BY AddressWords DEF Together
<1>4. ReplicationFactor = 1 \/ ReplicationFactor = 2
  BY DownloadAssumption
<1>5. Len(seqs) = ReplicationFactor
  <2>1. \A r \in 1 .. ReplicationFactor : part(r) \in Seq(Word)
    <3> TAKE r \in 1 .. ReplicationFactor
    <3>1. PICK a \in Word, b \in Word, c \in Word :
             a = nodes[r] /\ b = Ip(owner[nodes[r]]) /\ c = Port(owner[nodes[r]])
      BY <1>3
    <3>2. <<a, b, c>> \in Seq(Word) /\ <<a>> \in Seq(Word)
      OBVIOUS
    <3> QED
      BY <3>1, <3>2
  <2> HIDE DEF part
  <2>2. seqs \in [1 .. ReplicationFactor -> Seq(Word)]
    BY <1>1, <2>1
  <2>3. ReplicationFactor \in Nat
    BY <1>4
  <2> QED
    BY <2>2, <2>3
<1>6. CASE ReplicationFactor = 1
  <2>1. Words(nodes) = part(1)
    <3>1. seqs[1] = part(1)
      <4>1. 1 \in 1 .. ReplicationFactor
        BY <1>6
      <4> HIDE DEF part
      <4> QED
        BY <1>1, <4>1
    <3> QED
      BY <1>2, <1>5, <1>6, <3>1, FlattenOne
  <2>2. PICK a \in Word, b \in Word, c \in Word :
           a = nodes[1] /\ b = Ip(owner[nodes[1]]) /\ c = Port(owner[nodes[1]])
    BY <1>3, <1>6
  <2>3. \A r \in 1 .. ReplicationFactor : r = 1 /\ (3 * r) - 2 = 1 /\ (3 * r) - 1 = 2 /\ 3 * r = 3
    BY <1>6
  <2>4. CASE nodes[1] \in known
    <3>1. Words(nodes) = <<a, b, c>>
      BY <2>1, <2>2, <2>4
    <3>2. PICK w : w = Words(nodes)
      OBVIOUS
    <3>3. w \in Seq(Word) /\ Len(w) = 3 /\ w[1] = a /\ w[2] = b /\ w[3] = c
      BY <3>1, <3>2
    <3> QED
      BY <1>6, <2>2, <2>3, <2>4, <3>2, <3>3
  <2>5. CASE nodes[1] \notin known
    <3>1. Words(nodes) = <<a>>
      BY <2>1, <2>2, <2>5
    <3>2. Words(nodes) \in Seq(Word) /\ Len(Words(nodes)) = 1
      BY <3>1
    <3> QED
      BY <1>6, <2>5, <3>2
  <2> QED
    BY <2>4, <2>5
<1>7. CASE ReplicationFactor = 2
  <2>1. Words(nodes) = part(1) \o part(2)
    <3>1. seqs[1] = part(1) /\ seqs[2] = part(2)
      <4>1. 1 \in 1 .. ReplicationFactor /\ 2 \in 1 .. ReplicationFactor
        BY <1>7
      <4> HIDE DEF part
      <4> QED
        BY <1>1, <4>1
    <3> QED
      BY <1>2, <1>5, <1>7, <3>1, FlattenTwo
  <2>2. PICK a \in Word, b \in Word, c \in Word :
           a = nodes[1] /\ b = Ip(owner[nodes[1]]) /\ c = Port(owner[nodes[1]])
    BY <1>3, <1>7
  <2>3. PICK d \in Word, e \in Word, f \in Word :
           d = nodes[2] /\ e = Ip(owner[nodes[2]]) /\ f = Port(owner[nodes[2]])
    BY <1>3, <1>7
  <2>4. \A r \in 1 .. ReplicationFactor :
           \/ r = 1 /\ (3 * r) - 2 = 1 /\ (3 * r) - 1 = 2 /\ 3 * r = 3
           \/ r = 2 /\ (3 * r) - 2 = 4 /\ (3 * r) - 1 = 5 /\ 3 * r = 6
    BY <1>7
  <2>5. CASE nodes[1] \in known /\ nodes[2] \in known
    <3>1. Words(nodes) = <<a, b, c>> \o <<d, e, f>>
      BY <2>1, <2>2, <2>3, <2>5
    <3>2. PICK u, v, w : u = <<a, b, c>> /\ v = <<d, e, f>> /\ w = u \o v
      OBVIOUS
    <3>3. u \in Seq(Word) /\ Len(u) = 3 /\ u[1] = a /\ u[2] = b /\ u[3] = c
      BY <3>2
    <3>4. v \in Seq(Word) /\ Len(v) = 3 /\ v[1] = d /\ v[2] = e /\ v[3] = f
      BY <3>2
    <3>5. w \in Seq(Word) /\ Len(w) = 6
      BY <3>2, <3>3, <3>4
    <3>6. w[1] = a /\ w[2] = b /\ w[3] = c
      BY <3>2, <3>3, <3>4
    <3>7. w[4] = d /\ w[5] = e /\ w[6] = f
      BY <3>2, <3>3, <3>4
    <3>8. w = Words(nodes)
      BY <3>1, <3>2
    <3> QED
      BY <1>7, <2>2, <2>3, <2>4, <2>5, <3>5, <3>6, <3>7, <3>8
  <2>6. CASE nodes[1] \notin known /\ nodes[2] \notin known
    <3>1. Words(nodes) = <<a>> \o <<d>>
      BY <2>1, <2>2, <2>3, <2>6
    <3>2. Words(nodes) \in Seq(Word) /\ Len(Words(nodes)) = 2
      BY <3>1
    <3> QED
      BY <1>7, <2>6, <3>2
  <2>7. 1 \in 1 .. ReplicationFactor /\ 2 \in 1 .. ReplicationFactor
    BY <1>7
  <2> QED
    BY <2>5, <2>6, <2>7 DEF Together
<1> QED
  BY <1>4, <1>6, <1>7

LEMMA LineIs ==
    ASSUME NodesTyped, NEW entry \in EntryType, Together(entry.nodes)
    PROVE  LineOf(entry) \in ReplyLine /\ Written(LineOf(entry)) /\ LineOf(entry).entry = entry
<1>1. PICK nodes \in [1 .. ReplicationFactor -> Ids] : nodes = entry.nodes
  BY DEF EntryType
<1>2. PICK words \in Seq(Word) :
         /\ words = Words(nodes)
         /\ (\A r \in 1 .. ReplicationFactor : nodes[r] \in known) =>
               /\ Len(words) = 3 * ReplicationFactor
               /\ \A r \in 1 .. ReplicationFactor :
                     /\ words[(3 * r) - 2] = nodes[r]
                     /\ words[(3 * r) - 1] = Ip(owner[nodes[r]])
                     /\ words[3 * r] = Port(owner[nodes[r]])
         /\ ~(\A r \in 1 .. ReplicationFactor : nodes[r] \in known) =>
               Len(words) = ReplicationFactor
  BY <1>1, WordsIs
<1>3. PICK resolved \in BOOLEAN :
         resolved = (\A r \in 1 .. ReplicationFactor : nodes[r] \in known)
  OBVIOUS
<1>4. PICK line : line = [entry |-> entry, words |-> words, resolved |-> resolved]
  OBVIOUS
<1>5. LineOf(entry) = line
  BY <1>1, <1>2, <1>3, <1>4 DEF LineOf
<1>6. line \in ReplyLine /\ line.entry = entry /\ line.words = words /\ line.resolved = resolved
  BY <1>4 DEF ReplyLine
<1>7. \A r \in 1 .. ReplicationFactor : nodes[r] \in DOMAIN owner
  BY <1>1 DEF Together
<1>8. Written(line)
  BY <1>1, <1>2, <1>3, <1>6, <1>7 DEF Written
<1> QED
  BY <1>5, <1>6, <1>8

LEMMA ThreeApart ==
    ASSUME NEW n \in Nat, NEW k \in 1 .. (n \div 3)
    PROVE  k \in Nat /\ k >= 1 /\ 3 * k <= n
  OBVIOUS

LEMMA DivOfTriple ==
    ASSUME NEW n \in Nat
    PROVE  (3 * n) \div 3 = n
  OBVIOUS

(* Whole words are taken for what they are, and a cut one ends the line.   *)
LEMMA BeginningTeaches ==
    ASSUME NEW line, Written(line), NEW words, Len(line.words) \in Nat,
           NEW n \in Nat, Len(words) = n, n <= Len(line.words),
           \A i \in 1 .. n : words[i] = line.words[i] \/ (i = n /\ words[i] = Garbage)
    PROVE  Teaches(words)
<1>1. Triples(words) = n \div 3
  BY DEF Triples
<1>2. SUFFICES ASSUME NEW k \in 1 .. (n \div 3)
               PROVE  /\ words[(3 * k) - 2] \in DOMAIN owner
                      /\ words[(3 * k) - 1] = Ip(owner[words[(3 * k) - 2]])
                      /\ words[3 * k] \in {Port(owner[words[(3 * k) - 2]]), Garbage}
  BY <1>1 DEF Teaches
<1>3. k \in Nat /\ k >= 1 /\ 3 * k <= n
  BY ThreeApart
<1>4. ReplicationFactor \in Nat /\ ReplicationFactor < 3
  BY DownloadAssumption
<1>5. CASE line.resolved
  <2>1. Len(line.words) = 3 * ReplicationFactor
    BY <1>5 DEF Written
  <2>2. k \in 1 .. ReplicationFactor
    BY <1>3, <1>4, <2>1
  <2>3. PICK id, ip, port : /\ id = line.words[(3 * k) - 2]
                            /\ ip = line.words[(3 * k) - 1]
                            /\ port = line.words[3 * k]
    OBVIOUS
  <2>4. id \in DOMAIN owner /\ ip = Ip(owner[id]) /\ port = Port(owner[id])
    BY <1>5, <2>2, <2>3 DEF Written
  <2>5. /\ (3 * k) - 2 \in 1 .. n /\ (3 * k) - 2 # n
        /\ (3 * k) - 1 \in 1 .. n /\ (3 * k) - 1 # n
        /\ 3 * k \in 1 .. n
    BY <1>3
  <2>6. words[(3 * k) - 2] = id /\ words[(3 * k) - 1] = ip /\ words[3 * k] \in {port, Garbage}
    BY <2>3, <2>5
  <2> QED
    BY <2>4, <2>6
<1>6. CASE ~line.resolved
  <2>1. Len(line.words) = ReplicationFactor
    BY <1>6 DEF Written
  <2> QED
    BY <1>3, <1>4, <2>1
<1> QED
  BY <1>5, <1>6

LEMMA LineTeaches ==
    ASSUME NEW line \in ReplyLine, Written(line)
    PROVE  Teaches(line.words)
<1>1. PICK words \in Seq(Word) : words = line.words
  BY DEF ReplyLine
<1>2. Len(words) \in Nat
  OBVIOUS
<1> QED
  BY <1>1, <1>2, BeginningTeaches

LEMMA CutTeaches ==
    ASSUME NEW line \in ReplyLine, Written(line), NEW rest \in CutShort(line)
    PROVE  rest \in ReplyLine /\ Teaches(rest.words) /\ rest.entry = line.entry
<1>1. PICK words \in Seq(Word) : words = line.words
  BY DEF ReplyLine
<1>2. Len(words) \in Nat /\ Garbage \in Word
  BY DEF Word
<1>3. PICK part : rest = [line EXCEPT !.words = part] /\
                  \/ \E k \in 1 .. Len(words) : part = SubSeq(words, 1, k)
                  \/ \E k \in 0 .. Len(words) - 1 : part = Append(SubSeq(words, 1, k), Garbage)
  <2>1. CutShort(line) = {[line EXCEPT !.words = SubSeq(words, 1, k)] : k \in 1 .. Len(words)}
           \cup {[line EXCEPT !.words = Append(SubSeq(words, 1, k), Garbage)] :
                    k \in 0 .. Len(words) - 1}
    BY <1>1 DEF CutShort
  <2>2. CASE \E k \in 1 .. Len(words) : rest = [line EXCEPT !.words = SubSeq(words, 1, k)]
    <3>1. PICK k \in 1 .. Len(words) : rest = [line EXCEPT !.words = SubSeq(words, 1, k)]
      BY <2>2
    <3>2. PICK p : p = SubSeq(words, 1, k)
      OBVIOUS
    <3>3. rest = [line EXCEPT !.words = p]
      BY <3>1, <3>2
    <3> QED
      BY <3>2, <3>3
  <2>3. CASE \E k \in 0 .. Len(words) - 1 :
                rest = [line EXCEPT !.words = Append(SubSeq(words, 1, k), Garbage)]
    <3>1. PICK k \in 0 .. Len(words) - 1 :
              rest = [line EXCEPT !.words = Append(SubSeq(words, 1, k), Garbage)]
      BY <2>3
    <3>2. PICK p : p = Append(SubSeq(words, 1, k), Garbage)
      OBVIOUS
    <3>3. rest = [line EXCEPT !.words = p]
      BY <3>1, <3>2
    <3> QED
      BY <3>2, <3>3
  <2> QED
    BY <2>1, <2>2, <2>3
<1>4. /\ part \in Seq(Word) /\ Len(part) <= Len(words)
      /\ \A i \in 1 .. Len(part) : part[i] = words[i] \/ (i = Len(part) /\ part[i] = Garbage)
  <2>1. ASSUME NEW k \in 1 .. Len(words), part = SubSeq(words, 1, k)
        PROVE  /\ part \in Seq(Word) /\ Len(part) <= Len(words)
               /\ \A i \in 1 .. Len(part) : part[i] = words[i]
    <3>1. part \in Seq(Word) /\ Len(part) = k
      BY <1>2, <2>1
    <3>2. \A i \in 1 .. k : part[i] = words[i]
      BY <1>2, <2>1
    <3> QED
      BY <1>2, <3>1, <3>2
  <2>2. ASSUME NEW k \in 0 .. Len(words) - 1, part = Append(SubSeq(words, 1, k), Garbage)
        PROVE  /\ part \in Seq(Word) /\ Len(part) <= Len(words)
               /\ \A i \in 1 .. Len(part) : part[i] = words[i] \/ (i = Len(part) /\ part[i] = Garbage)
    <3>1. PICK p : p = SubSeq(words, 1, k)
      OBVIOUS
    <3>2. p \in Seq(Word) /\ Len(p) = k
      BY <1>2, <3>1
    <3>3. \A i \in 1 .. k : p[i] = words[i]
      BY <1>2, <3>1
    <3>4. part \in Seq(Word) /\ Len(part) = k + 1
      BY <1>2, <2>2, <3>1, <3>2
    <3>5. part[k + 1] = Garbage /\ \A i \in 1 .. k : part[i] = p[i]
      BY <1>2, <2>2, <3>1, <3>2
    <3>6. \A i \in 1 .. (k + 1) : i \in 1 .. k \/ i = k + 1
      OBVIOUS
    <3> QED
      BY <1>2, <3>3, <3>4, <3>5, <3>6
  <2> QED
    BY <1>3, <2>1, <2>2
<1>5. rest \in ReplyLine /\ rest.entry = line.entry /\ rest.words = part
  <2>1. /\ line = [entry |-> line.entry, words |-> words, resolved |-> line.resolved]
        /\ line.entry \in EntryType /\ line.resolved \in BOOLEAN
    BY <1>1 DEF ReplyLine
  <2>2. rest = [entry |-> line.entry, words |-> part, resolved |-> line.resolved]
    BY <1>3, <2>1
  <2> QED
    BY <1>4, <2>1, <2>2 DEF ReplyLine
<1>6. PICK n \in Nat : n = Len(part)
  BY <1>4
<1>7. Teaches(part)
  BY <1>1, <1>2, <1>4, <1>6, BeginningTeaches
<1> QED
  BY <1>5, <1>7

LEMMA LearnedIs ==
    ASSUME NEW words, Teaches(words), NEW c, c = Learned(words)
    PROVE  /\ DOMAIN c = {words[(3 * k) - 2] : k \in 1 .. Triples(words)}
           /\ \A id \in DOMAIN c : /\ id \in DOMAIN owner
                                   /\ c[id] \in {Address(owner[id]), <<Ip(owner[id]), Garbage>>}
<1>1. DOMAIN c = {words[(3 * k) - 2] : k \in 1 .. Triples(words)}
  BY DEF Learned
<1>2. ASSUME NEW id \in DOMAIN c
      PROVE  id \in DOMAIN owner /\ c[id] \in {Address(owner[id]), <<Ip(owner[id]), Garbage>>}
  <2>1. PICK k : k = CHOOSE i \in 1 .. Triples(words) : words[(3 * i) - 2] = id
    OBVIOUS
  <2>2. k \in 1 .. Triples(words) /\ words[(3 * k) - 2] = id
    BY <1>1, <2>1
  <2>3. c[id] = <<words[(3 * k) - 1], words[3 * k]>>
    BY <1>1, <2>1 DEF Learned
  <2>4. /\ id \in DOMAIN owner /\ words[(3 * k) - 1] = Ip(owner[id])
        /\ words[3 * k] \in {Port(owner[id]), Garbage}
    BY <2>2 DEF Teaches
  <2> QED
    BY <2>3, <2>4 DEF Address
<1> QED
  BY <1>1, <1>2

(* The words by threes and the rest are ids, by their positions.           *)
LEMMA ListedTyped ==
    ASSUME NEW words \in Seq(Word)
    PROVE  ListedIds(words) \in Seq(Word)
<1>1. PICK n \in Nat : n = Triples(words) /\ 3 * n <= Len(words)
  <2>1. Len(words) \in Nat
    OBVIOUS
  <2>2. Len(words) \div 3 \in Nat /\ 3 * (Len(words) \div 3) <= Len(words)
    BY <2>1
  <2> QED
    BY <2>2 DEF Triples
<1>2. PICK a : a = [k \in 1 .. n |-> words[(3 * k) - 2]]
  OBVIOUS
<1>3. PICK b : b = SubSeq(words, (3 * n) + 1, Len(words))
  OBVIOUS
<1>4. a \in Seq(Word)
  <2>1. \A k \in 1 .. n : (3 * k) - 2 \in 1 .. Len(words)
    BY <1>1
  <2>2. \A k \in 1 .. n : words[(3 * k) - 2] \in Word
    BY <2>1
  <2> QED
    BY <1>2, <2>2
<1>5. b \in Seq(Word)
  BY <1>1, <1>3
<1>6. a \o b \in Seq(Word)
  BY <1>4, <1>5
<1> QED
  BY <1>1, <1>2, <1>3, <1>6 DEF ListedIds

LEMMA ListedIsNodes ==
    ASSUME NEW line \in ReplyLine, Written(line), line.resolved
    PROVE  /\ Len(ListedIds(line.words)) = ReplicationFactor
           /\ \A r \in 1 .. ReplicationFactor :
                 /\ ListedIds(line.words)[r] = line.entry.nodes[r]
                 /\ line.entry.nodes[r] \in DOMAIN Learned(line.words)
<1>1. PICK words \in Seq(Word) : words = line.words
  BY DEF ReplyLine
<1>2. PICK n \in Nat : n = ReplicationFactor
  BY DownloadAssumption
<1>3. Len(words) = 3 * n /\ \A r \in 1 .. n : words[(3 * r) - 2] = line.entry.nodes[r]
  BY <1>1, <1>2 DEF Written
<1>4. Triples(words) = n
  BY <1>3, DivOfTriple DEF Triples
<1>5. PICK a : a = [k \in 1 .. n |-> words[(3 * k) - 2]]
  OBVIOUS
<1>6. PICK b : b = SubSeq(words, (3 * n) + 1, Len(words))
  OBVIOUS
<1>7. a \in Seq(Word) /\ Len(a) = n /\ \A r \in 1 .. n : a[r] = words[(3 * r) - 2]
  <2>1. \A k \in 1 .. n : (3 * k) - 2 \in 1 .. Len(words)
    BY <1>3
  <2>2. \A k \in 1 .. n : words[(3 * k) - 2] \in Word
    BY <2>1
  <2> QED
    BY <1>5, <2>2
<1>8. b \in Seq(Word) /\ Len(b) = 0
  BY <1>3, <1>6
<1>9. PICK c : c = a \o b
  OBVIOUS
<1>10. c = ListedIds(words)
  BY <1>4, <1>5, <1>6, <1>9 DEF ListedIds
<1>11. Len(c) = n /\ \A r \in 1 .. n : c[r] = a[r]
  BY <1>7, <1>8, <1>9
<1>12. \A r \in 1 .. n : words[(3 * r) - 2] \in DOMAIN Learned(words)
  BY <1>4 DEF Learned
<1> QED
  BY <1>1, <1>2, <1>3, <1>7, <1>10, <1>11, <1>12

----------------------------------------------------------------------------

(* Nodes keep their machines, what is in the cache stays in it, and only a *)
(* restart makes ids unknown.                                              *)
Grows ==
    /\ \A id \in DOMAIN owner : id \in DOMAIN owner' /\ owner'[id] = owner[id]
    /\ \/ \A id \in DOMAIN owner : id \in known' <=> id \in known
       \/ known' = {}
    /\ DOMAIN cache \subseteq DOMAIN cache' /\ spoilt \subseteq spoilt'

LEMMA TogetherStays ==
    ASSUME NEW nodes, Together(nodes), Grows
    PROVE  Together(nodes)'
  BY DEF Together, Grows

LEMMA WrittenStays ==
    ASSUME NEW line, Written(line), Grows
    PROVE  Written(line)'
  BY DEF Written, Grows

LEMMA AskingStays ==
    ASSUME NEW x, Asking(x), Grows
    PROVE  Asking(x)'
<1>1. \A i \in 1 .. Len(x.rest) : Lists(x.rest[i]) => Lists(x.rest[i])'
  BY DEF Lists, Grows
<1>2. AskedFirst(x, x.tried) => AskedFirst(x, x.tried)'
  BY DEF AskedFirst, Grows
<1>3. AskedFirst(x, ReplicationFactor) => AskedFirst(x, ReplicationFactor)'
  BY DEF AskedFirst, Grows
<1> QED
  BY <1>1, <1>2, <1>3 DEF Asking

LEMMA TransferTypeStays ==
    ASSUME NEW x, TransferTyped(x), Grows
    PROVE  TransferTyped(x)'
<1>1. x.pc = "answering" =>
         /\ \A i \in 1 .. Len(x.view) : Together(x.view[i].nodes)'
         /\ \A i \in 1 .. Len(x.lines) : Written(x.lines[i])'
  BY TogetherStays, WrittenStays DEF TransferTyped
<1>2. x.pc \in {"fetching", "done", "failed"} => Asking(x)'
  BY AskingStays DEF TransferTyped
<1>3. x \in {New, Refused} \cup Answering \cup Fetching
  BY DEF TransferTyped
<1> QED
  BY <1>1, <1>2, <1>3 DEF TransferTyped

LEMMA NextTransfer ==
    ASSUME NEW d, NEW y, y = download'[d], TransferTyped(y)'
    PROVE  TransferTyped(download[d])'
<1>1. download'[d] \in {New, Refused} \cup Answering \cup Fetching
  BY DEF TransferTyped
<1>2. ASSUME download'[d].pc = "answering", NEW i \in 1 .. Len(download'[d].view)
      PROVE  Together(download[d].view[i].nodes)'
  BY <1>2 DEF TransferTyped, Together
<1>3. ASSUME download'[d].pc = "answering", NEW i \in 1 .. Len(download'[d].lines)
      PROVE  Written(download[d].lines[i])'
  <2>1. Written(y.lines[i])'
    BY <1>3 DEF TransferTyped
  <2> QED
    BY <2>1 DEF Written
<1>4. ASSUME download'[d].pc \in {"fetching", "done", "failed"} PROVE Asking(download[d])'
  BY <1>4 DEF TransferTyped, Asking, Lists, AskedFirst
<1> QED
  BY <1>1, <1>2, <1>3, <1>4 DEF TransferTyped

LEMMA TransfersTyped ==
    ASSUME DownloadTyped, Grows, UNCHANGED download
    PROVE  \A d \in Downloads : TransferTyped(download[d])'
<1> TAKE d \in Downloads
<1>1. PICK x : x = download[d]
  OBVIOUS
<1>2. TransferTyped(x)'
  BY <1>1, TransferTypeStays DEF DownloadTyped
<1>3. x = download'[d]
  BY <1>1
<1> QED
  BY <1>2, <1>3, NextTransfer

LEMMA CatalogTypeStays ==
    ASSUME CatalogTyped, Grows, UNCHANGED catalog
    PROVE  CatalogTyped'
<1>1. ASSUME NEW name \in DOMAIN catalog, NEW i \in 1 .. Len(catalog[name])
      PROVE  Together(catalog[name][i].nodes)'
  <2>1. PICK nodes : nodes = catalog[name][i].nodes
    OBVIOUS
  <2>2. Together(nodes)'
    BY <2>1, TogetherStays DEF CatalogTyped
  <2>3. nodes = catalog'[name][i].nodes
    BY <2>1
  <2> QED
    BY <2>2, <2>3 DEF Together
<1> QED
  BY <1>1 DEF CatalogTyped

(* A step of one download.                                                 *)
LEMMA DownloadStepTyped ==
    ASSUME DownloadSound, DownloadTyped, NEW d \in Downloads, NEW x,
           download' = [download EXCEPT ![d] = x], TransferTyped(x)', Grows,
           UNCHANGED <<storeVars, published>>, CacheSound', spoilt' \subseteq Ids
    PROVE  DownloadTyped'
<1>1. \A e \in Downloads : download'[e] = IF e = d THEN x ELSE download[e]
  BY DEF DownloadSound
<1>2. ASSUME NEW e \in Downloads
      PROVE  TransferTyped(download[e])'
  <2>1. PICK y : y = download'[e]
    OBVIOUS
  <2>2. TransferTyped(y)'
    <3>1. CASE e = d
      BY <1>1, <2>1, <3>1
    <3>2. CASE e # d
      <4>1. TransferTyped(y)
        BY <1>1, <2>1, <3>2 DEF DownloadTyped
      <4> QED
        BY <4>1, TransferTypeStays
    <3> QED
      BY <3>1, <3>2
  <2> QED
    BY <2>1, <2>2, NextTransfer
<1>3. CatalogTyped'
  BY CatalogTypeStays DEF DownloadTyped, storeVars
<1>4. NodesTyped'
  BY DEF DownloadTyped, NodesTyped, storeVars
<1> QED
  BY <1>2, <1>3, <1>4 DEF DownloadTyped

(* A step of one download that leaves the cache alone.                     *)
LEMMA QuietStepTyped ==
    ASSUME DownloadSound, DownloadTyped, NEW d \in Downloads, NEW x,
           download' = [download EXCEPT ![d] = x], TransferTyped(x),
           UNCHANGED <<storeVars, cache, history>>
    PROVE  DownloadTyped'
<1>1. Grows
  BY DEF Grows, storeVars, history
<1>2. TransferTyped(x)'
  BY <1>1, TransferTypeStays
<1>3. CacheSound'
  BY DEF DownloadTyped, CacheSound, storeVars, history
<1>4. UNCHANGED <<storeVars, published>> /\ spoilt' \subseteq Ids
  BY DEF DownloadTyped, history
<1> QED
  BY <1>1, <1>2, <1>3, <1>4, DownloadStepTyped

LEMMA RequestTyped ==
    ASSUME DownloadSound, DownloadTyped, NEW d \in Downloads, NEW name \in Names,
           RequestDownload(d, name)
    PROVE  DownloadTyped'
<1>1. PICK x : x = [pc |-> "answering", name |-> name, view |-> catalog[name], lines |-> <<>>]
  OBVIOUS
<1>2. /\ name \in DOMAIN catalog /\ download' = [download EXCEPT ![d] = x]
      /\ UNCHANGED <<storeVars, cache, history>>
  BY <1>1 DEF RequestDownload
<1>3. /\ catalog[name] \in Seq(EntryType)
      /\ \A i \in 1 .. Len(catalog[name]) : Together(catalog[name][i].nodes)
  BY <1>2 DEF DownloadTyped, CatalogTyped
<1>4. x \in Answering
  <2>1. <<>> \in Seq(ReplyLine)
    OBVIOUS
  <2> QED
    BY <1>1, <1>3, <2>1 DEF Answering
<1>5. x.pc = "answering" /\ x.view = catalog[name] /\ Len(x.lines) = 0
  BY <1>1
<1>6. TransferTyped(x)
  BY <1>3, <1>4, <1>5 DEF TransferTyped
<1> QED
  BY <1>2, <1>6, QuietStepTyped

LEMMA RefusalTyped ==
    ASSUME DownloadSound, DownloadTyped, NEW d \in Downloads, RequestFails(d) \/ ReceiveNothing(d)
    PROVE  DownloadTyped'
<1>1. TransferTyped(Refused)
  BY DEF TransferTyped, Refused
<1> QED
  BY <1>1, QuietStepTyped DEF RequestFails, ReceiveNothing

(* The states of a transfer are told apart by pc.                          *)
LEMMA AnsweringIs ==
    ASSUME NEW x, TransferTyped(x), x.pc = "answering"
    PROVE  /\ x \in Answering
           /\ x = [pc |-> "answering", name |-> x.name, view |-> x.view, lines |-> x.lines]
           /\ x.name \in Names /\ x.view \in Seq(EntryType) /\ x.lines \in Seq(ReplyLine)
<1>1. x \in Answering
  BY DEF TransferTyped, New, Refused, Fetching
<1> QED
  BY <1>1 DEF Answering

LEMMA FetchingIs ==
    ASSUME NEW x, TransferTyped(x), x.pc \in {"fetching", "done", "failed"}
    PROVE  /\ x \in Fetching /\ Asking(x)
           /\ x = [pc |-> x.pc, name |-> x.name, whole |-> x.whole, saved |-> x.saved,
                   rest |-> x.rest, tried |-> x.tried, asked |-> x.asked]
           /\ x.name \in Names /\ x.whole \in BOOLEAN /\ x.saved \in Seq(Chunks)
           /\ x.rest \in Seq(Wanted) /\ x.tried \in Nat /\ x.asked \subseteq Ids
<1>1. x \in Fetching
  BY DEF TransferTyped, New, Refused, Answering
<1>2. Asking(x)
  BY DEF TransferTyped
<1> QED
  BY <1>1, <1>2 DEF Fetching

LEMMA WriteLineTyped ==
    ASSUME DownloadSound, DownloadTyped, NEW d \in Downloads, WriteLine(d)
    PROVE  DownloadTyped'
<1>1. PICK old : old = download[d]
  OBVIOUS
<1>2. old.pc = "answering" /\ TransferTyped(old) /\ AnswerSound(old)
  BY <1>1 DEF WriteLine, DownloadTyped, DownloadSound, TransferSound
<1>3. /\ old = [pc |-> "answering", name |-> old.name, view |-> old.view, lines |-> old.lines]
      /\ old.name \in Names /\ old.view \in Seq(EntryType) /\ old.lines \in Seq(ReplyLine)
  BY <1>2, AnsweringIs
<1>4. PICK i \in Nat : i = Len(old.lines) + 1
  BY <1>3
<1>5. /\ i \in DOMAIN old.view /\ UNCHANGED <<storeVars, cache, history>>
      /\ \E source \in {old.view, catalog[old.name]} :
            /\ i \in DOMAIN source
            /\ download' = [download EXCEPT ![d].lines = Append(@, LineOf(source[i]))]
  BY <1>1, <1>4 DEF WriteLine
<1>6. PICK source \in {old.view, catalog[old.name]} :
          /\ i \in DOMAIN source
          /\ download' = [download EXCEPT ![d].lines = Append(@, LineOf(source[i]))]
  BY <1>5
<1>7. source \in Seq(EntryType) /\ \A j \in 1 .. Len(source) : Together(source[j].nodes)
  <2>1. CASE source = old.view
    BY <1>2, <1>3, <2>1 DEF TransferTyped
  <2>2. CASE source = catalog[old.name]
    <3>1. DOMAIN old.view = 1 .. Len(old.view) /\ Len(old.view) \in Nat /\ Len(old.lines) \in Nat
      BY <1>3
    <3>2. old.name \in DOMAIN catalog
      BY <1>2, <1>4, <1>5, <3>1 DEF AnswerSound
    <3> QED
      BY <2>2, <3>2 DEF DownloadTyped, CatalogTyped
  <2> QED
    BY <2>1, <2>2
<1>8. PICK entry \in EntryType : entry = source[i] /\ Together(entry.nodes)
  BY <1>6, <1>7
<1>9. PICK line \in ReplyLine : line = LineOf(entry) /\ Written(line)
  BY <1>8, LineIs DEF DownloadTyped
<1>10. PICK lines : lines = Append(old.lines, line)
  OBVIOUS
<1>11. PICK x : x = [pc |-> "answering", name |-> old.name, view |-> old.view, lines |-> lines]
  OBVIOUS
<1>12. download' = [download EXCEPT ![d] = x]
  <2>1. x = [old EXCEPT !.lines = lines]
    BY <1>3, <1>11
  <2>2. [download EXCEPT ![d].lines = Append(@, LineOf(source[i]))]
           = [download EXCEPT ![d] = [old EXCEPT !.lines = Append(@, line)]]
    BY <1>1, <1>8, <1>9
  <2>3. [old EXCEPT !.lines = Append(@, line)] = [old EXCEPT !.lines = lines]
    BY <1>10
  <2> QED
    BY <1>6, <2>1, <2>2, <2>3
<1>13. lines \in Seq(ReplyLine) /\ \A j \in 1 .. Len(lines) : Written(lines[j])
  <2>1. lines \in Seq(ReplyLine) /\ Len(lines) = Len(old.lines) + 1
    BY <1>3, <1>10
  <2>2. lines[Len(old.lines) + 1] = line /\ \A j \in 1 .. Len(old.lines) : lines[j] = old.lines[j]
    BY <1>3, <1>10
  <2>3. \A j \in 1 .. Len(old.lines) : Written(old.lines[j])
    BY <1>2 DEF TransferTyped
  <2>4. Len(old.lines) \in Nat
    BY <1>3
  <2>5. \A j \in 1 .. Len(lines) : j \in 1 .. Len(old.lines) \/ j = Len(old.lines) + 1
    BY <2>1, <2>4
  <2> QED
    BY <1>9, <2>1, <2>2, <2>3, <2>5
<1>14. x \in Answering /\ x.pc = "answering" /\ x.view = old.view /\ x.lines = lines
  BY <1>3, <1>11, <1>13 DEF Answering
<1>15. TransferTyped(x)
  BY <1>2, <1>13, <1>14 DEF TransferTyped
<1> QED
  BY <1>5, <1>12, <1>15, QuietStepTyped

(* What the lines of a reply make of the cache: every address it has then  *)
(* is a node's own, or one that it had wrong, or one that was cut.         *)
LEMMA CacheAfterIs ==
    ASSUME CacheSound, NEW lines, Listed(lines),
           \A i \in 1 .. Len(lines) : Teaches(lines[i].words),
           NEW c, c = CacheAfter(lines)
    PROVE  /\ c = [id \in DOMAIN c |-> c[id]] /\ DOMAIN cache \subseteq DOMAIN c
           /\ \A i \in 1 .. Len(lines) : DOMAIN Learned(lines[i].words) \subseteq DOMAIN c
           /\ \A id \in DOMAIN c :
                 /\ id \in DOMAIN owner
                 /\ \/ c[id] = Address(owner[id])
                    \/ c[id] = <<Ip(owner[id]), Garbage>> /\ (id \in spoilt \/ Garbage \in Range(c[id]))
<1>1. DOMAIN lines = 1 .. Len(lines) /\ Len(lines) \in Nat
  BY DEF Listed
<1>2. PICK dom : dom = DOMAIN cache \cup UNION {DOMAIN Learned(lines[i].words) : i \in 1 .. Len(lines)}
  OBVIOUS
<1>3. /\ c = [id \in dom |-> IF Teaching(id, lines) = {} THEN cache[id]
                             ELSE Learned(lines[Max(Teaching(id, lines))].words)[id]]
  BY <1>1, <1>2 DEF CacheAfter
<1>4. DOMAIN c = dom /\ c = [id \in DOMAIN c |-> c[id]]
  BY <1>3
<1>5. /\ DOMAIN cache \subseteq dom
      /\ \A i \in 1 .. Len(lines) : DOMAIN Learned(lines[i].words) \subseteq dom
  BY <1>2
<1>6. ASSUME NEW id \in dom
      PROVE  /\ id \in DOMAIN owner
             /\ \/ c[id] = Address(owner[id])
                \/ c[id] = <<Ip(owner[id]), Garbage>> /\ (id \in spoilt \/ Garbage \in Range(c[id]))
  <2>1. PICK s : s = Teaching(id, lines)
    OBVIOUS
  <2>2. \A i : i \in s <=> i \in 1 .. Len(lines) /\ id \in DOMAIN Learned(lines[i].words)
    BY <1>1, <2>1 DEF Teaching
  <2>3. CASE s = {}
    <3>1. c[id] = cache[id]
      BY <1>3, <2>1, <2>3
    <3>2. id \in DOMAIN cache
      BY <1>2, <2>2, <2>3
    <3> QED
      BY <3>1, <3>2 DEF CacheSound
  <2>4. CASE s # {}
    <3>1. PICK m : m = Max(s)
      OBVIOUS
    <3>2. m \in s
      <4>1. s \in SUBSET (1 .. Len(lines))
        BY <2>2
      <4> QED
        BY <1>1, <2>4, <3>1, <4>1, MaxIs
    <3>3. PICK learned : learned = Learned(lines[m].words)
      OBVIOUS
    <3>4. c[id] = learned[id]
      BY <1>3, <2>1, <2>4, <3>1, <3>3
    <3>5. m \in 1 .. Len(lines) /\ id \in DOMAIN learned
      BY <2>2, <3>2, <3>3
    <3>6. id \in DOMAIN owner /\ learned[id] \in {Address(owner[id]), <<Ip(owner[id]), Garbage>>}
      BY <3>3, <3>5, LearnedIs
    <3>7. PICK cut : cut = <<Ip(owner[id]), Garbage>>
      OBVIOUS
    <3>8. Garbage \in Range(cut)
      <4>1. 2 \in DOMAIN cut /\ cut[2] = Garbage
        BY <3>7
      <4> QED
        BY <4>1 DEF Range
    <3> QED
      BY <3>4, <3>6, <3>7, <3>8
  <2> QED
    BY <2>3, <2>4
<1> QED
  BY <1>4, <1>5, <1>6

LEMMA ParseTyped ==
    ASSUME DownloadSound, DownloadTyped, NEW d \in Downloads, NEW lines \in Seq(ReplyLine),
           NEW whole \in BOOLEAN, Parse(d, lines, whole), download[d].name \in Names,
           \A i \in 1 .. Len(lines) : Teaches(lines[i].words),
           whole => \A i \in 1 .. Len(lines) : Written(lines[i])
    PROVE  DownloadTyped'
<1>1. PICK name \in Names : name = download[d].name
  OBVIOUS
<1>2. PICK rest : rest = [i \in DOMAIN lines |-> WantedBy(lines[i])]
  OBVIOUS
<1>3. PICK x : x = [pc |-> "fetching", name |-> name, whole |-> whole,
                    saved |-> <<>>, rest |-> rest, tried |-> 0, asked |-> {}]
  OBVIOUS
<1>4. /\ download' = [download EXCEPT ![d] = x] /\ UNCHANGED <<storeVars, published>>
      /\ cache' = CacheAfter(lines)
      /\ spoilt' = spoilt \cup {id \in DOMAIN cache' : Garbage \in Range(cache'[id])}
  BY <1>1, <1>2, <1>3 DEF Parse
<1>5. PICK c : c = CacheAfter(lines)
  OBVIOUS
<1>6. Listed(lines) /\ CacheSound
  BY SeqIsListed DEF DownloadTyped
<1>7. /\ c = [id \in DOMAIN c |-> c[id]] /\ DOMAIN cache \subseteq DOMAIN c
      /\ \A i \in 1 .. Len(lines) : DOMAIN Learned(lines[i].words) \subseteq DOMAIN c
      /\ \A id \in DOMAIN c :
            /\ id \in DOMAIN owner
            /\ \/ c[id] = Address(owner[id])
               \/ c[id] = <<Ip(owner[id]), Garbage>> /\ (id \in spoilt \/ Garbage \in Range(c[id]))
  BY <1>5, <1>6, CacheAfterIs
<1>8. CacheSound'
  <2>1. cache' = c /\ owner' = owner
    BY <1>4, <1>5 DEF storeVars
  <2>2. \A id \in DOMAIN c : Garbage \in Range(c[id]) \/ id \in spoilt => id \in spoilt'
    BY <1>4, <2>1
  <2>3. \A id \in DOMAIN c :
            \/ c[id] = Address(owner[id])
            \/ c[id] = <<Ip(owner[id]), Garbage>> /\ id \in spoilt'
    BY <1>7, <2>2
  <2> QED
    BY <1>7, <2>1, <2>3 DEF CacheSound
<1>9. Grows
  BY <1>4, <1>5, <1>7 DEF Grows, storeVars
<1>10. spoilt' \subseteq Ids
  <2>1. DOMAIN c \subseteq Ids
    BY <1>7 DEF DownloadTyped, NodesTyped
  <2> QED
    BY <1>4, <1>5, <2>1 DEF DownloadTyped
<1>11. /\ rest \in Seq(Wanted) /\ Len(rest) = Len(lines)
       /\ \A i \in 1 .. Len(lines) : rest[i] = WantedBy(lines[i])
  <2>1. \A i \in 1 .. Len(lines) : lines[i] \in ReplyLine
    OBVIOUS
  <2>2. \A line \in ReplyLine : WantedBy(line) \in Wanted
    BY ListedTyped DEF ReplyLine, WantedBy, Wanted
  <2>3. DOMAIN lines = 1 .. Len(lines) /\ Len(lines) \in Nat
    OBVIOUS
  <2>4. rest = [i \in 1 .. Len(lines) |-> WantedBy(lines[i])]
    BY <1>2, <2>3
  <2>5. \A i \in 1 .. Len(lines) : WantedBy(lines[i]) \in Wanted
    BY <2>1, <2>2
  <2> QED
    BY <2>3, <2>4, <2>5
<1>12. /\ x.pc = "fetching" /\ x.whole = whole /\ x.rest = rest /\ x.tried = 0
       /\ x \in Fetching
  <2>1. <<>> \in Seq(Chunks)
    OBVIOUS
  <2> QED
    BY <1>3, <1>11, <2>1 DEF Fetching
<1>13. Asking(x)'
  <2>1. SUFFICES ASSUME whole PROVE Asking(x)'
    BY <1>12 DEF Asking
  <2>2. ASSUME NEW i \in 1 .. Len(rest), rest[i].resolved
        PROVE  Lists(rest[i])'
    <3>1. PICK line \in ReplyLine : line = lines[i] /\ Written(line)
      BY <1>11, <2>1
    <3>2. PICK wanted : wanted = rest[i]
      OBVIOUS
    <3>3. /\ wanted.entry = line.entry /\ wanted.ids = ListedIds(line.words)
          /\ line.resolved
      <4>1. wanted = WantedBy(line)
        BY <1>11, <3>1, <3>2
      <4>2. /\ WantedBy(line).entry = line.entry /\ WantedBy(line).ids = ListedIds(line.words)
            /\ WantedBy(line).resolved = line.resolved
        BY DEF WantedBy
      <4> QED
        BY <2>2, <3>2, <4>1, <4>2
    <3>4. /\ Len(ListedIds(line.words)) = ReplicationFactor
          /\ \A r \in 1 .. ReplicationFactor :
                /\ ListedIds(line.words)[r] = line.entry.nodes[r]
                /\ line.entry.nodes[r] \in DOMAIN Learned(line.words)
      BY <3>1, <3>3, ListedIsNodes
    <3>5. DOMAIN Learned(line.words) \subseteq DOMAIN cache'
      BY <1>4, <1>5, <1>7, <1>11, <3>1
    <3>6. Lists(wanted)'
      BY <3>3, <3>4, <3>5 DEF Lists
    <3> QED
      BY <3>2, <3>6
  <2>3. AskedFirst(x, 0)'
    <3>1. \A r \in 1 .. ReplicationFactor : ~(r <= 0)
      BY DownloadAssumption
    <3> QED
      BY <3>1 DEF AskedFirst
  <2>4. x.pc # "failed"
    BY <1>12
  <2> QED
    BY <1>12, <2>2, <2>3, <2>4 DEF Asking
<1>14. TransferTyped(x)'
  BY <1>12, <1>13 DEF TransferTyped
<1> QED
  BY <1>4, <1>8, <1>9, <1>10, <1>14, DownloadStepTyped

LEMMA ReceiveTyped ==
    ASSUME DownloadSound, DownloadTyped, NEW d \in Downloads, ReceiveReply(d) \/ ReceivePart(d)
    PROVE  DownloadTyped'
<1>1. PICK old : old = download[d]
  OBVIOUS
<1>2. old.pc = "answering" /\ TransferTyped(old)
  BY <1>1 DEF ReceiveReply, ReceivePart, IsSent, DownloadTyped
<1>3. PICK lines \in Seq(ReplyLine) : lines = old.lines /\ old.name \in Names
  BY <1>2, AnsweringIs
<1>4. \A i \in 1 .. Len(lines) : lines[i] \in ReplyLine /\ Written(lines[i])
  BY <1>2, <1>3 DEF TransferTyped
<1>5. \A i \in 1 .. Len(lines) : Teaches(lines[i].words)
  BY <1>4, LineTeaches
<1>6. DOMAIN lines = 1 .. Len(lines) /\ Len(lines) \in Nat /\ old.name = download[d].name
  BY <1>1
<1>7. CASE ReceiveReply(d)
  <2>1. Parse(d, lines, TRUE)
    BY <1>1, <1>3, <1>7 DEF ReceiveReply
  <2> QED
    BY <1>3, <1>4, <1>5, <1>6, <2>1, ParseTyped
<1>8. ASSUME NEW k \in DOMAIN lines, Parse(d, SubSeq(lines, 1, k), FALSE)
      PROVE  DownloadTyped'
  <2>1. PICK part : part = SubSeq(lines, 1, k)
    OBVIOUS
  <2>2. part \in Seq(ReplyLine) /\ Len(part) = k
    BY <1>6, <2>1
  <2>3. \A i \in 1 .. k : part[i] = lines[i]
    BY <1>6, <2>1
  <2>4. \A i \in 1 .. Len(part) : Teaches(part[i].words)
    BY <1>5, <1>6, <2>2, <2>3
  <2> QED
    BY <1>3, <1>6, <1>8, <2>1, <2>2, <2>4, ParseTyped
<1>9. ASSUME NEW k \in DOMAIN lines, NEW rest \in CutShort(lines[k]),
             Parse(d, Append(SubSeq(lines, 1, k - 1), rest), FALSE)
      PROVE  DownloadTyped'
  <2>1. PICK part : part = SubSeq(lines, 1, k - 1)
    OBVIOUS
  <2>2. part \in Seq(ReplyLine) /\ Len(part) = k - 1
    BY <1>6, <2>1
  <2>3. \A i \in 1 .. k - 1 : part[i] = lines[i]
    BY <1>6, <2>1
  <2>4. rest \in ReplyLine /\ Teaches(rest.words)
    BY <1>4, <1>6, CutTeaches
  <2>5. PICK all : all = Append(part, rest)
    OBVIOUS
  <2>6. all \in Seq(ReplyLine) /\ Len(all) = k
    BY <1>6, <2>2, <2>4, <2>5
  <2>7. all[k] = rest /\ \A i \in 1 .. k - 1 : all[i] = part[i]
    BY <1>6, <2>2, <2>4, <2>5
  <2>8. \A i \in 1 .. Len(all) : i = k \/ (i \in 1 .. k - 1 /\ i \in 1 .. Len(lines))
    BY <1>6, <2>6
  <2>9. \A i \in 1 .. Len(all) : Teaches(all[i].words)
    BY <1>5, <2>3, <2>4, <2>7, <2>8
  <2> QED
    BY <1>3, <1>6, <1>9, <2>1, <2>5, <2>6, <2>9, ParseTyped
<1> QED
  BY <1>1, <1>3, <1>7, <1>8, <1>9 DEF ReceivePart

(* The next node is asked under its own address, or its address was cut.   *)
LEMMA NextAsked ==
    ASSUME DownloadTyped, NEW id \in DOMAIN cache, At(cache[id]) = {}
    PROVE  id \in spoilt
<1>1. CASE cache[id] = Address(owner[id])
  <2>1. owner[id] \in Hosts
    BY DEF DownloadTyped, CacheSound, NodesTyped
  <2>2. owner[id] \in At(cache[id])
    BY <1>1, <2>1 DEF At
  <2> QED
    BY <2>2
<1> QED
  BY <1>1 DEF DownloadTyped, CacheSound

LEMMA TakenTyped ==
    ASSUME NEW old, TransferTyped(old), old.pc = "fetching", old.rest # <<>>,
           NEW data, data = old.rest[1].entry.hash, NEW x,
           x = [pc |-> "fetching", name |-> old.name, whole |-> old.whole,
                saved |-> Append(old.saved, data), rest |-> Tail(old.rest),
                tried |-> 0, asked |-> {}]
    PROVE  TransferTyped(x)
<1>1. /\ old.name \in Names /\ old.whole \in BOOLEAN /\ old.saved \in Seq(Chunks)
      /\ old.rest \in Seq(Wanted) /\ Asking(old)
  BY FetchingIs
<1>2. PICK saved, rest : saved = Append(old.saved, data) /\ rest = Tail(old.rest)
  OBVIOUS
<1>4. data \in Chunks
  <2>1. old.rest[1] \in Wanted
    BY <1>1
  <2> QED
    BY <2>1 DEF Wanted, EntryType
<1>5. saved \in Seq(Chunks)
  BY <1>1, <1>2, <1>4
<1>6. rest \in Seq(Wanted) /\ Len(rest) = Len(old.rest) - 1 /\ Len(old.rest) \in Nat
  BY <1>1, <1>2
<1>7. \A i \in 1 .. Len(rest) : rest[i] = old.rest[i + 1]
  BY <1>1, <1>2
<1>8. x \in Fetching /\ x.pc = "fetching" /\ x.whole = old.whole /\ x.rest = rest /\ x.tried = 0
  BY <1>1, <1>2, <1>5, <1>6 DEF Fetching
<1>9. Asking(x)
  <2>1. SUFFICES ASSUME old.whole PROVE Asking(x)
    BY <1>8 DEF Asking
  <2>2. ASSUME NEW i \in 1 .. Len(rest), rest[i].resolved
        PROVE  Lists(rest[i])
    <3>1. i + 1 \in 1 .. Len(old.rest) /\ rest[i] = old.rest[i + 1]
      BY <1>6, <1>7
    <3>2. PICK j \in 1 .. Len(old.rest) : rest[i] = old.rest[j]
      BY <3>1
    <3> QED
      BY <1>1, <2>1, <2>2, <3>2 DEF Asking
  <2>3. AskedFirst(x, 0)
    <3>1. \A r \in 1 .. ReplicationFactor : ~(r <= 0)
      BY DownloadAssumption
    <3> QED
      BY <3>1 DEF AskedFirst
  <2> QED
    BY <1>8, <2>2, <2>3 DEF Asking
<1> QED
  BY <1>8, <1>9 DEF TransferTyped

LEMMA MissedTyped ==
    ASSUME DownloadTyped, NEW old, TransferTyped(old), old.pc = "fetching", old.rest # <<>>,
           NEW id, id = old.rest[1].ids[old.tried + 1], old.tried < Len(old.rest[1].ids),
           NEW hosts, hosts = IF id \in DOMAIN cache THEN At(cache[id]) ELSE {},
           NEW asked, asked = IF hosts # {} THEN old.asked \cup {id} ELSE old.asked, NEW x,
           x = [pc |-> "fetching", name |-> old.name, whole |-> old.whole, saved |-> old.saved,
                rest |-> old.rest, tried |-> old.tried + 1, asked |-> asked]
    PROVE  TransferTyped(x)
<1>1. /\ old.name \in Names /\ old.whole \in BOOLEAN /\ old.saved \in Seq(Chunks)
      /\ old.rest \in Seq(Wanted) /\ old.tried \in Nat /\ old.asked \subseteq Ids /\ Asking(old)
  BY FetchingIs
<1>4. asked \subseteq Ids
  <2>1. hosts # {} => id \in Ids
    BY DEF DownloadTyped, CacheSound, NodesTyped
  <2> QED
    BY <1>1, <2>1
<1>5. PICK n \in Nat : n = old.tried + 1 /\ old.tried = n - 1
  BY <1>1
<1>6. /\ x \in Fetching /\ x.pc = "fetching" /\ x.whole = old.whole /\ x.rest = old.rest
      /\ x.tried = n /\ x.asked = asked
  <2>1. x \in Fetching
    BY <1>1, <1>4 DEF Fetching
  <2> QED
    BY <1>5, <2>1
<1>7. Asking(x)
  <2>1. SUFFICES ASSUME old.whole, old.rest[1].resolved PROVE AskedFirst(x, n)
    BY <1>1, <1>6 DEF Asking
  <2>2. PICK wanted : wanted = old.rest[1]
    OBVIOUS
  <2>3. Lists(wanted) /\ AskedFirst(old, old.tried)
    <3>1. 1 \in 1 .. Len(old.rest)
      BY <1>1
    <3> QED
      BY <1>1, <2>1, <2>2, <3>1 DEF Asking
  <2>4. n \in 1 .. ReplicationFactor
    <3>1. Len(old.rest[1].ids) = ReplicationFactor
      BY <2>2, <2>3 DEF Lists
    <3>2. ReplicationFactor \in Nat
      BY DownloadAssumption
    <3> QED
      BY <1>1, <1>5, <3>1, <3>2
  <2>5. id = wanted.entry.nodes[n] /\ id \in DOMAIN cache
    BY <1>5, <2>2, <2>3, <2>4 DEF Lists
  <2>6. id \in asked \cup spoilt
    BY <2>5, NextAsked
  <2>7. ASSUME NEW r \in 1 .. ReplicationFactor, r <= n
        PROVE  wanted.entry.nodes[r] \in asked \cup spoilt
    <3>1. CASE r = n
      BY <2>5, <2>6, <3>1
    <3>2. CASE r # n
      <4>1. r <= old.tried
        BY <1>5, <2>7, <3>2
      <4>2. wanted.entry.nodes[r] \in old.asked \cup spoilt
        BY <2>2, <2>3, <4>1 DEF AskedFirst
      <4> QED
        BY <4>2
    <3> QED
      BY <3>1, <3>2
  <2> QED
    BY <1>6, <2>2, <2>7 DEF AskedFirst
<1> QED
  BY <1>6, <1>7 DEF TransferTyped

LEMMA TryNodeTyped ==
    ASSUME DownloadSound, DownloadTyped, NEW d \in Downloads, NEW data, TryNode(d, data)
    PROVE  DownloadTyped'
<1>1. PICK old : old = download[d]
  OBVIOUS
<1>2. PICK wanted : wanted = Head(old.rest)
  OBVIOUS
<1>3. /\ old.pc = "fetching" /\ old.rest # <<>> /\ TransferTyped(old)
      /\ UNCHANGED <<storeVars, cache, history>> /\ Current(d) = wanted
      /\ old.tried < Len(wanted.ids)
  BY <1>1, <1>2 DEF TryNode, GetChunk, IsFetching, Current, DownloadTyped
<1>4. wanted = old.rest[1]
  <2>1. old.rest \in Seq(Wanted)
    BY <1>3, FetchingIs
  <2> QED
    BY <1>2, <1>3, <2>1
<1>5. PICK id : id = wanted.ids[old.tried + 1]
  OBVIOUS
<1>6. PICK hosts : hosts = IF id \in DOMAIN cache THEN At(cache[id]) ELSE {}
  OBVIOUS
<1>7. PICK asked : asked = IF hosts # {} THEN old.asked \cup {id} ELSE old.asked
  OBVIOUS
<1>8. /\ DOMAIN old = {"pc", "name", "whole", "saved", "rest", "tried", "asked"}
      /\ old = [f \in DOMAIN old |-> old[f]]
  <2>1. old \in Fetching
    BY <1>3, FetchingIs
  <2> QED
    BY <2>1 DEF Fetching
<1> DEFINE taken == [pc |-> "fetching", name |-> old.name, whole |-> old.whole,
                     saved |-> Append(old.saved, data), rest |-> Tail(old.rest),
                     tried |-> 0, asked |-> {}]
           missed == [pc |-> "fetching", name |-> old.name, whole |-> old.whole,
                      saved |-> old.saved, rest |-> old.rest,
                      tried |-> old.tried + 1, asked |-> asked]
<1>9. download' = [download EXCEPT ![d] =
                      IF data # NoData /\ Matches(data, wanted.entry.hash) THEN taken ELSE missed]
  <2>1. download' = [download EXCEPT ![d] =
                        IF data # NoData /\ Matches(data, wanted.entry.hash)
                        THEN [old EXCEPT !.saved = Append(old.saved, data), !.rest = Tail(old.rest),
                                         !.tried = 0, !.asked = {}]
                        ELSE [old EXCEPT !.tried = old.tried + 1, !.asked = asked]]
    BY <1>1, <1>3, <1>5, <1>6, <1>7 DEF TryNode, GetChunk
  <2>2. PICK f, g : /\ f = [old EXCEPT !.saved = Append(old.saved, data), !.rest = Tail(old.rest),
                                        !.tried = 0, !.asked = {}]
                    /\ g = [old EXCEPT !.tried = old.tried + 1, !.asked = asked]
    OBVIOUS
  <2>3. /\ DOMAIN f = {"pc", "name", "whole", "saved", "rest", "tried", "asked"}
        /\ f = [i \in DOMAIN f |-> f[i]]
    BY <1>8, <2>2
  <2>4. /\ f.pc = "fetching" /\ f.name = old.name /\ f.whole = old.whole
        /\ f.saved = Append(old.saved, data) /\ f.rest = Tail(old.rest)
        /\ f.tried = 0 /\ f.asked = {}
    BY <1>3, <1>8, <2>2
  <2>5. f = taken
    BY <2>3, <2>4
  <2>6. /\ DOMAIN g = {"pc", "name", "whole", "saved", "rest", "tried", "asked"}
        /\ g = [i \in DOMAIN g |-> g[i]]
    BY <1>8, <2>2
  <2>7. /\ g.pc = "fetching" /\ g.name = old.name /\ g.whole = old.whole
        /\ g.saved = old.saved /\ g.rest = old.rest
        /\ g.tried = old.tried + 1 /\ g.asked = asked
    BY <1>3, <1>8, <2>2
  <2>8. g = missed
    BY <2>6, <2>7
  <2> HIDE DEF taken, missed
  <2> QED
    BY <2>1, <2>2, <2>5, <2>8
<1>10. TransferTyped(missed)
  BY <1>3, <1>4, <1>5, <1>6, <1>7, MissedTyped
<1> HIDE DEF missed
<1>11. CASE data # NoData /\ Matches(data, wanted.entry.hash)
  <2>1. download' = [download EXCEPT ![d] = taken]
    BY <1>9, <1>11
  <2>2. TransferTyped(taken)
    BY <1>3, <1>4, <1>11, TakenTyped DEF Matches
  <2> QED
    BY <1>3, <2>1, <2>2, QuietStepTyped
<1>12. CASE ~(data # NoData /\ Matches(data, wanted.entry.hash))
  <2>1. download' = [download EXCEPT ![d] = missed]
    BY <1>9, <1>12
  <2> QED
    BY <1>3, <1>10, <2>1, QuietStepTyped
<1> QED
  BY <1>11, <1>12

(* A download gives up on a chunk after the last of its nodes.             *)
LEMMA EndTyped ==
    ASSUME DownloadSound, DownloadTyped, NEW d \in Downloads,
           ChunkFails(d) \/ \E ok \in BOOLEAN : AssembleFile(d, ok)
    PROVE  DownloadTyped'
<1>1. PICK old : old = download[d]
  OBVIOUS
<1>2. old.pc = "fetching" /\ TransferTyped(old) /\ UNCHANGED <<storeVars, cache, history>>
  BY <1>1 DEF ChunkFails, AssembleFile, IsFetching, DownloadTyped
<1>3. /\ old = [pc |-> "fetching", name |-> old.name, whole |-> old.whole, saved |-> old.saved,
                rest |-> old.rest, tried |-> old.tried, asked |-> old.asked]
      /\ old.name \in Names /\ old.whole \in BOOLEAN /\ old.saved \in Seq(Chunks)
      /\ old.rest \in Seq(Wanted) /\ old.tried \in Nat /\ old.asked \subseteq Ids /\ Asking(old)
  BY <1>2, FetchingIs
<1>4. PICK pc \in {"done", "failed"} :
          /\ download' = [download EXCEPT ![d].pc = pc]
          /\ pc = "failed" /\ old.rest # <<>> => old.tried = Len(old.rest[1].ids)
  <2>1. CASE ChunkFails(d)
    <3>1. download' = [download EXCEPT ![d].pc = "failed"] /\ old.tried = Len(Head(old.rest).ids)
          /\ old.rest # <<>>
      BY <1>1, <2>1 DEF ChunkFails, IsFetching, Current
    <3>2. Head(old.rest) = old.rest[1]
      BY <1>3, <3>1
    <3> QED
      BY <3>1, <3>2
  <2>2. ASSUME NEW ok \in BOOLEAN, AssembleFile(d, ok)
        PROVE  \E pc \in {"done", "failed"} :
                  /\ download' = [download EXCEPT ![d].pc = pc]
                  /\ pc = "failed" /\ old.rest # <<>> => old.tried = Len(old.rest[1].ids)
    BY <1>1, <2>2 DEF AssembleFile
  <2> QED
    BY <2>1, <2>2
<1>5. PICK x : x = [pc |-> pc, name |-> old.name, whole |-> old.whole, saved |-> old.saved,
                    rest |-> old.rest, tried |-> old.tried, asked |-> old.asked]
  OBVIOUS
<1>6. download' = [download EXCEPT ![d] = x]
  <2>1. x = [old EXCEPT !.pc = pc]
    BY <1>3, <1>5
  <2> QED
    BY <1>1, <1>4, <2>1
<1>7. /\ x \in Fetching /\ x.pc = pc /\ x.whole = old.whole /\ x.rest = old.rest
      /\ x.tried = old.tried /\ x.asked = old.asked
  <2>1. x \in Fetching
    BY <1>3, <1>5 DEF Fetching
  <2> QED
    BY <1>5, <2>1
<1>8. Asking(x)
  <2>1. SUFFICES ASSUME old.whole, old.rest # <<>>, old.rest[1].resolved, pc = "failed"
                 PROVE  AskedFirst(x, ReplicationFactor)
    BY <1>3, <1>7 DEF Asking
  <2>2. Lists(old.rest[1]) /\ AskedFirst(old, old.tried)
    <3>1. 1 \in 1 .. Len(old.rest)
      BY <1>3, <2>1
    <3> QED
      BY <1>2, <1>3, <2>1, <3>1 DEF Asking
  <2>3. old.tried = ReplicationFactor
    BY <1>4, <2>1, <2>2 DEF Lists
  <2> QED
    BY <1>7, <2>2, <2>3 DEF AskedFirst
<1>9. TransferTyped(x)
  BY <1>7, <1>8 DEF TransferTyped
<1> QED
  BY <1>2, <1>6, <1>9, QuietStepTyped

LEMMA ListNodesTyped ==
    ASSUME DownloadTyped, NEW active \in SUBSET known, ListNodes(active)
    PROVE  DownloadTyped'
<1>1. /\ UNCHANGED <<storeVars, download, history>>
      /\ cache' = [id \in DOMAIN cache \cup active |->
                      IF id \in active THEN Address(owner[id]) ELSE cache[id]]
  BY DEF ListNodes
<1>2. active \subseteq DOMAIN owner
  BY DEF DownloadTyped, NodesTyped
<1>3. CacheSound'
  <2>1. CacheSound /\ owner' = owner /\ spoilt' = spoilt
    BY <1>1 DEF DownloadTyped, storeVars, history
  <2> QED
    BY <1>1, <1>2, <2>1 DEF CacheSound
<1>4. Grows
  BY <1>1 DEF Grows, storeVars, history
<1>5. \A d \in Downloads : TransferTyped(download[d])'
  BY <1>1, <1>4, TransfersTyped
<1>6. CatalogTyped'
  BY <1>1, <1>4, CatalogTypeStays DEF DownloadTyped, storeVars
<1>7. NodesTyped'
  BY <1>1 DEF DownloadTyped, NodesTyped, storeVars
<1> QED
  BY <1>1, <1>3, <1>5, <1>6, <1>7 DEF DownloadTyped, history

----------------------------------------------------------------------------

(* A file goes into the catalogue with nodes that are known, or with nodes *)
(* that are not.                                                           *)
LEMMA PublishedTogether ==
    ASSUME NodesTyped, NEW ids \in {known, DOMAIN owner \ known}, NEW nodes \in Placements(ids)
    PROVE  nodes \in [1 .. ReplicationFactor -> Ids] /\ Together(nodes)
<1>1. nodes \in [1 .. ReplicationFactor -> ids] /\ ids \subseteq DOMAIN owner
  BY DEF Placements, NodesTyped
<1>2. \A r \in 1 .. ReplicationFactor : nodes[r] \in ids
  BY <1>1
<1>3. ids \subseteq Ids
  BY <1>1 DEF NodesTyped
<1>4. Together(nodes)
  <2>1. CASE ids = known
    BY <1>1, <1>2, <2>1 DEF Together
  <2>2. CASE ids = DOMAIN owner \ known
    BY <1>1, <1>2, <2>2 DEF Together
  <2> QED
    BY <2>1, <2>2
<1> QED
  BY <1>1, <1>3, <1>4

LEMMA NextTogether ==
    ASSUME NEW nodes, NEW name, NEW i, nodes = catalog'[name][i].nodes, Together(nodes)'
    PROVE  Together(catalog[name][i].nodes)'
  BY DEF Together

LEMMA PublishTyped ==
    ASSUME NodesTyped, CatalogTyped, NEW name \in Names, NEW content \in Contents,
           NEW ids \in {known, DOMAIN owner \ known},
           NEW placed \in [DOMAIN content -> Placements(ids)],
           Publish(name, content, ids, placed)
    PROVE  CatalogTyped'
<1>1. content \in Seq(Chunks) /\ DOMAIN content = 1 .. Len(content) /\ Len(content) \in Nat
  BY DownloadAssumption
<1>2. PICK file : file = [i \in DOMAIN content |-> [hash |-> content[i], nodes |-> placed[i]]]
  OBVIOUS
<1>3. /\ catalog' = [n \in DOMAIN catalog \cup {name} |-> IF n = name THEN file ELSE catalog[n]]
      /\ UNCHANGED <<owner, known>>
  BY <1>2 DEF Publish
<1>4. ASSUME NEW i \in 1 .. Len(content)
      PROVE  file[i] \in EntryType /\ Together(file[i].nodes)
  <2>1. PICK nodes : nodes = placed[i]
    OBVIOUS
  <2>2. nodes \in Placements(ids)
    BY <1>1, <2>1
  <2>3. nodes \in [1 .. ReplicationFactor -> Ids] /\ Together(nodes)
    BY <2>2, PublishedTogether
  <2>4. file[i] = [hash |-> content[i], nodes |-> nodes] /\ content[i] \in Chunks
    BY <1>1, <1>2, <2>1
  <2> QED
    BY <2>3, <2>4 DEF EntryType
<1>5. file \in Seq(EntryType) /\ Len(file) = Len(content)
  <2>1. file = [i \in 1 .. Len(content) |-> file[i]]
    BY <1>1, <1>2
  <2> QED
    BY <1>1, <1>4, <2>1
<1>6. ASSUME NEW nodes, Together(nodes)
      PROVE  Together(nodes)'
  BY <1>3, <1>6 DEF Together
<1>7. ASSUME NEW n \in DOMAIN catalog'
      PROVE  /\ catalog'[n] \in Seq(EntryType)
             /\ \A i \in 1 .. Len(catalog'[n]) : Together(catalog[n][i].nodes)'
  <2>1. CASE n = name
    <3>1. catalog'[n] = file
      BY <1>3, <2>1
    <3>2. ASSUME NEW i \in 1 .. Len(catalog'[n])
          PROVE  Together(catalog[n][i].nodes)'
      <4>1. PICK nodes : nodes = file[i].nodes
        OBVIOUS
      <4>2. Together(nodes) /\ nodes = catalog'[n][i].nodes
        BY <1>4, <1>5, <3>1, <4>1
      <4> QED
        BY <1>6, <4>2, NextTogether
    <3> QED
      BY <1>5, <3>1, <3>2
  <2>2. CASE n # name
    <3>1. n \in DOMAIN catalog /\ catalog'[n] = catalog[n]
      BY <1>3, <2>2
    <3>2. ASSUME NEW i \in 1 .. Len(catalog'[n])
          PROVE  Together(catalog[n][i].nodes)'
      <4>1. PICK nodes : nodes = catalog[n][i].nodes
        OBVIOUS
      <4>2. Together(nodes) /\ nodes = catalog'[n][i].nodes
        BY <3>1, <4>1 DEF CatalogTyped
      <4> QED
        BY <1>6, <4>2, NextTogether
    <3> QED
      BY <3>1, <3>2 DEF CatalogTyped
  <2> QED
    BY <2>1, <2>2
<1>8. DOMAIN catalog' \subseteq Names /\ catalog' = [n \in DOMAIN catalog' |-> catalog'[n]]
  BY <1>3 DEF CatalogTyped
<1> QED
  BY <1>7, <1>8 DEF CatalogTyped

LEMMA HashesTyped ==
    ASSUME NEW file \in Seq(EntryType)
    PROVE  HashesOf(file) \in Seq(Chunks)
<1>1. DOMAIN file = 1 .. Len(file) /\ Len(file) \in Nat
  OBVIOUS
<1>2. \A i \in 1 .. Len(file) : file[i] \in EntryType
  OBVIOUS
<1>3. \A i \in 1 .. Len(file) : file[i].hash \in Chunks
  BY <1>2 DEF EntryType
<1>4. HashesOf(file) = [i \in 1 .. Len(file) |-> file[i].hash]
  BY <1>1 DEF HashesOf
<1> QED
  BY <1>1, <1>3, <1>4

LEMMA StoreTyped ==
    ASSUME DownloadTyped, Store
    PROVE  DownloadTyped'
<1>1. /\ UNCHANGED <<client, spoilt>>
      /\ published' = published \cup {<<name, HashesOf(catalog'[name])>> : name \in DOMAIN catalog'}
  BY DEF Store
<1>2. NodesTyped /\ CatalogTyped
  BY DEF DownloadTyped
<1>3. Grows /\ NodesTyped' /\ CatalogTyped'
  <2>1. ASSUME NEW h \in Hosts, NEW id \in Ids, Join(h, id)
        PROVE  Grows /\ NodesTyped' /\ CatalogTyped'
    <3>1. /\ id \notin DOMAIN owner /\ known' = known \cup {id}
          /\ owner' = [i \in DOMAIN owner \cup {id} |-> IF i = id THEN h ELSE owner[i]]
          /\ UNCHANGED <<disk, torn, catalog>>
      BY <2>1 DEF Join
    <3>2. Grows
      BY <1>1, <3>1 DEF Grows, client
    <3>3. NodesTyped'
      BY <1>2, <3>1 DEF NodesTyped
    <3> QED
      BY <1>2, <3>1, <3>2, <3>3, CatalogTypeStays
  <2>2. ASSUME NEW h \in Hosts, NEW hash \in Chunks, Write(h, hash)
        PROVE  Grows /\ NodesTyped' /\ CatalogTyped'
    <3>1. /\ disk' = [disk EXCEPT ![h] = @ \cup {hash}] /\ torn' = torn \ {<<h, hash>>}
          /\ UNCHANGED <<owner, known, catalog>>
      BY <2>2 DEF Write
    <3>2. Grows
      BY <1>1, <3>1 DEF Grows, client
    <3>3. NodesTyped'
      BY <1>2, <3>1 DEF NodesTyped
    <3> QED
      BY <1>2, <3>1, <3>2, <3>3, CatalogTypeStays
  <2>4. ASSUME NEW h \in Hosts, NEW hash \in Chunks, Empty(h, hash)
        PROVE  Grows /\ NodesTyped' /\ CatalogTyped'
    <3>1. /\ disk' = [disk EXCEPT ![h] = @ \ {hash}] /\ torn' = torn \cup {<<h, hash>>}
          /\ UNCHANGED <<owner, known, catalog>>
      BY <2>4 DEF Empty
    <3>2. Grows
      BY <1>1, <3>1 DEF Grows, client
    <3>3. NodesTyped'
      BY <1>2, <3>1 DEF NodesTyped
    <3> QED
      BY <1>2, <3>1, <3>2, <3>3, CatalogTypeStays
  <2>3. ASSUME NEW name \in Names, NEW content \in Contents,
               NEW ids \in {known, DOMAIN owner \ known},
               NEW placed \in [DOMAIN content -> Placements(ids)],
               Publish(name, content, ids, placed)
        PROVE  Grows /\ NodesTyped' /\ CatalogTyped'
    <3>1. UNCHANGED <<owner, known, disk, torn>>
      BY <2>3 DEF Publish
    <3>2. Grows
      BY <1>1, <3>1 DEF Grows, client
    <3>3. NodesTyped'
      BY <1>2, <3>1 DEF NodesTyped
    <3> QED
      BY <1>2, <2>3, <3>2, <3>3, PublishTyped
  <2> QED
    BY <2>1, <2>2, <2>3, <2>4 DEF Store
<1>4. CacheSound'
  <2>1. CacheSound /\ cache' = cache /\ spoilt' = spoilt
    BY <1>1 DEF client, DownloadTyped
  <2> QED
    BY <1>3, <2>1 DEF CacheSound, Grows
<1>5. \A d \in Downloads : TransferTyped(download[d])'
  BY <1>1, <1>3, TransfersTyped DEF client
<1>6. published' \subseteq Names \X Seq(Chunks)
  <2>1. \A name \in DOMAIN catalog' : name \in Names /\ HashesOf(catalog'[name]) \in Seq(Chunks)
    <3>1. \A name \in DOMAIN catalog' : name \in Names /\ catalog'[name] \in Seq(EntryType)
      BY <1>3 DEF CatalogTyped
    <3> QED
      BY <3>1, HashesTyped
  <2> QED
    BY <1>1, <2>1 DEF DownloadTyped
<1> QED
  BY <1>1, <1>3, <1>4, <1>5, <1>6 DEF DownloadTyped

LEMMA RestartTyped ==
    ASSUME DownloadTyped, RestartServer
    PROVE  DownloadTyped'
<1>1. /\ UNCHANGED <<owner, disk, torn, cache, published, spoilt>>
      /\ known' = {} /\ catalog' = [name \in {} |-> {}]
      /\ download' = [d \in Downloads |->
                         IF download[d].pc = "answering" /\ ~IsSent(d) THEN Refused ELSE download[d]]
  BY DEF RestartServer, Forget, history
<1>2. Grows
  BY <1>1 DEF Grows
<1>3. NodesTyped' /\ CatalogTyped' /\ CacheSound'
  <2>1. NodesTyped'
    BY <1>1 DEF DownloadTyped, NodesTyped
  <2>2. CatalogTyped'
    <3>1. DOMAIN catalog' = {}
      BY <1>1
    <3> QED
      BY <1>1, <3>1 DEF CatalogTyped
  <2>3. CacheSound'
    BY <1>1 DEF DownloadTyped, CacheSound
  <2> QED
    BY <2>1, <2>2, <2>3
<1>4. ASSUME NEW d \in Downloads
      PROVE  TransferTyped(download[d])'
  <2>1. PICK y : y = download'[d]
    OBVIOUS
  <2>2. TransferTyped(y)
    <3>1. TransferTyped(Refused)
      BY DEF TransferTyped, Refused
    <3>2. y = Refused \/ y = download[d]
      BY <1>1, <2>1
    <3> QED
      BY <3>1, <3>2 DEF DownloadTyped
  <2>3. TransferTyped(y)'
    BY <1>2, <2>2, TransferTypeStays
  <2> QED
    BY <2>1, <2>3, NextTransfer
<1> QED
  BY <1>1, <1>3, <1>4 DEF DownloadTyped

LEMMA TypedHolds == Spec => [](DownloadSound /\ DownloadTyped)
<1>1. Init => DownloadTyped
  <2> SUFFICES ASSUME Init PROVE DownloadTyped
    OBVIOUS
  <2>1. /\ owner = [id \in {} |-> {}] /\ known = {} /\ disk = [h \in Hosts |-> {}]
        /\ torn = {} /\ catalog = [name \in {} |-> {}] /\ cache = [id \in {} |-> {}]
        /\ download = [d \in Downloads |-> New] /\ published = {} /\ spoilt = {}
    BY DEF Init, StoreInit
  <2>2. DOMAIN owner = {} /\ DOMAIN catalog = {} /\ DOMAIN cache = {}
    BY <2>1
  <2>3. NodesTyped /\ CatalogTyped /\ CacheSound
    BY <2>1, <2>2 DEF NodesTyped, CatalogTyped, CacheSound
  <2>4. \A d \in Downloads : TransferTyped(download[d])
    BY <2>1 DEF TransferTyped, New
  <2> QED
    BY <2>1, <2>3, <2>4 DEF DownloadTyped
<1>2. DownloadSound /\ DownloadTyped /\ [Next]_vars => DownloadTyped'
  <2> SUFFICES ASSUME DownloadSound, DownloadTyped, [Next]_vars PROVE DownloadTyped'
    OBVIOUS
  <2>1. ASSUME NEW d \in Downloads, DownloadFile(d)
        PROVE  DownloadTyped'
    BY <2>1, WriteLineTyped, ReceiveTyped, RefusalTyped, TryNodeTyped, EndTyped DEF DownloadFile
  <2>2. CASE UNCHANGED vars
    <3>1. Grows
      BY <2>2 DEF Grows, vars, storeVars, history
    <3>2. (\A d \in Downloads : TransferTyped(download[d])') /\ CatalogTyped'
      BY <2>2, <3>1, TransfersTyped, CatalogTypeStays DEF DownloadTyped, vars, storeVars
    <3>3. NodesTyped' /\ CacheSound'
      BY <2>2 DEF DownloadTyped, NodesTyped, CacheSound, vars, storeVars, history
    <3> QED
      BY <2>2, <3>2, <3>3 DEF DownloadTyped, vars, storeVars, history
  <2> QED
    BY <2>1, <2>2, StoreTyped, RestartTyped, ListNodesTyped, RequestTyped, RefusalTyped DEF Next
<1> QED
  BY <1>1, <1>2, SoundHolds, PTL DEF Spec

(* The variables keep their types: what a download asks for and saves are  *)
(* chunks, and every address it uses is a pair of words of a reply.        *)
THEOREM TypeCorrect == Spec => []TypeOK
<1>1. DownloadSound /\ DownloadTyped => TypeOK
  <2> SUFFICES ASSUME DownloadSound, DownloadTyped PROVE TypeOK
    OBVIOUS
  <2>1. DOMAIN owner \subseteq Ids /\ owner \in [DOMAIN owner -> Hosts] /\ known \subseteq DOMAIN owner
        /\ disk \in [Hosts -> SUBSET Chunks] /\ torn \subseteq Hosts \X Chunks
    BY DEF DownloadTyped, NodesTyped
  <2>2. DOMAIN catalog \subseteq Names /\ catalog \in [DOMAIN catalog -> Seq(EntryType)]
    BY DEF DownloadTyped, CatalogTyped
  <2>3. DOMAIN cache \subseteq Ids /\ cache \in [DOMAIN cache -> Word \X Word]
    <3>1. \A id \in DOMAIN cache : cache[id] \in Word \X Word
      <4>1. Garbage \in Word
        BY DEF Word
      <4>2. \A id \in DOMAIN cache : Ip(owner[id]) \in Word /\ Port(owner[id]) \in Word
        BY AddressWords DEF DownloadTyped, CacheSound
      <4> QED
        BY <4>1, <4>2 DEF DownloadTyped, CacheSound, Address
    <3> QED
      BY <2>1, <3>1 DEF DownloadTyped, CacheSound
  <2>4. download \in [Downloads -> {New, Refused} \cup Answering \cup Fetching]
    BY DEF DownloadSound, DownloadTyped, TransferTyped
  <2> QED
    BY <2>1, <2>2, <2>3, <2>4 DEF TypeOK, DownloadTyped
<1> QED
  BY <1>1, TypedHolds, PTL

(* Whatever replies are cut, and however the server restarts, an address   *)
(* in the cache is the node's own, or its port was cut: the words of one   *)
(* node are never taken for another's.                                     *)
THEOREM CacheIsHonest == Spec => []CacheHonest
<1>1. DownloadTyped => CacheHonest
  BY DEF DownloadTyped, CacheSound, CacheHonest
<1> QED
  BY <1>1, TypedHolds, PTL

(* A chunk fails only when every node listed with it has been asked at its *)
(* own address, but for addresses that cut replies left in the cache.      *)
THEOREM EveryReplicaIsAsked == Spec => []EveryReplicaAsked
<1>1. DownloadTyped => EveryReplicaAsked
  <2> SUFFICES ASSUME DownloadTyped, NEW d \in Downloads,
                      download[d].pc = "failed", download[d].whole, download[d].rest # <<>>,
                      Current(d).resolved, NEW r \in 1 .. ReplicationFactor
               PROVE  Current(d).entry.nodes[r] \in download[d].asked \cup spoilt
    BY DEF EveryReplicaAsked
  <2>1. PICK x : x = download[d]
    OBVIOUS
  <2>2. TransferTyped(x)
    BY <2>1 DEF DownloadTyped
  <2>3. x.rest \in Seq(Wanted) /\ Asking(x)
    BY <2>1, <2>2, FetchingIs
  <2>4. Current(d) = x.rest[1]
    <3>1. Current(d) = Head(x.rest)
      BY <2>1 DEF Current
    <3> QED
      BY <2>1, <2>3, <3>1
  <2>5. AskedFirst(x, ReplicationFactor)
    BY <2>1, <2>3, <2>4 DEF Asking
  <2>6. r <= ReplicationFactor
    BY DownloadAssumption
  <2> QED
    BY <2>1, <2>4, <2>5, <2>6 DEF AskedFirst
<1> QED
  BY <1>1, TypedHolds, PTL
=============================================================================
