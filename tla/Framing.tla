------------------------------ MODULE Framing ------------------------------
(***************************************************************************)
(* How messages are cut out of a TCP connection: SendMessage,              *)
(* ReceiveMessage and the binary calls of common/src/network_utils.cpp,    *)
(* and the four loops built on them.                                       *)
(*                                                                         *)
(*   "request"  ReadMultilineRequest of the server (protocol_handler.cpp)  *)
(*   "reply"    RequestDownload, ListFiles and ListNodes of the client     *)
(*              (metadata_client.cpp)                                      *)
(*   "nodes"    RequestUploadNodes, which reads without ReceiveMessage     *)
(*   "chunk"    GetChunk (node_client.cpp): a line, then binary data       *)
(*                                                                         *)
(* One exchange is modelled, byte by byte.  What the lines mean is the     *)
(* business of Upload, Download and FileCatalog, which take from here that *)
(* a request arrives whole or not at all and a reply may lose its end.     *)
(***************************************************************************)
EXTENDS Naturals, SequencesExt

CONSTANTS
    Char,       \* the bytes
    Messages,   \* what is sent: sequences of lines, a line a sequence of bytes
    Requests,   \* those a client sends: UPLOAD_COMPLETE and its chunks
    Data,       \* the binary data behind the line of a "chunk"
    End,        \* the line END_CHUNKS, END_FILES or END_NODES
    MaxSize,    \* limit of a line (4096)
    MaxLines    \* limit of a multi-line request (10000)

CR == "CR"
LF == "LF"
None == "none"

ASSUME BytesAssumption ==
    /\ CR \in Char /\ LF \in Char
    /\ Messages \subseteq Seq(Seq(Char)) /\ Data \subseteq Seq(Char)

(* The first line names the command or has its result, and the last one is *)
(* the end line.  The others of a request begin with a hash, which does not *)
(* look like an end line; those of a reply may, with the name of a file.   *)
ASSUME MessagesAssumption ==
    \A m \in Messages :
        /\ Len(m) > 1 /\ m[Len(m)] = End
        /\ \A i \in 1..Len(m) : m[i] # <<>> /\ CR \notin Range(m[i]) /\ LF \notin Range(m[i])

ASSUME RequestsAssumption ==
    /\ Requests \subseteq Messages
    /\ \A m \in Requests : \A i \in 2..(Len(m) - 1) : ~IsPrefix(End, m[i])

ASSUME LimitsAssumption == MaxSize \in Nat \ {0} /\ MaxLines \in Nat

Modes == {"request", "reply", "nodes", "chunk"}

VARIABLES
    mode,
    sent,       \* the lines the sender has
    data,       \* and its binary data
    wire,       \* the bytes still to be received, in order
    cut,        \* some of what was sent is lost
    ending,     \* what comes after the wire: "closed", or "silent", nothing at all
    message,    \* the line being read, or what "nodes" has read so far
    prevChar,
    lines,      \* the lines read
    body,       \* the binary data read
    state,      \* "line", "body", "all", then "accepted" or "refused"
    failed      \* recv has failed (history)

sender == <<mode, sent, data, cut, ending>>
vars == <<sender, wire, message, prevChar, lines, body, state, failed>>

----------------------------------------------------------------------------
(* The sender.                                                             *)

(* Every line ends in CR LF; SendMessage adds what the last one lacks.     *)
Encode(m) == FlattenSeq([i \in 1..Len(m) |-> m[i] \o <<CR, LF>>])

(* One send of it all, after which the connection is closed; fewer bytes   *)
(* may go out, or arrive, and a machine that is lost closes nothing.       *)
Init ==
    /\ mode \in Modes
    /\ sent \in (IF mode = "request" THEN Requests ELSE Messages)
    /\ data \in (IF mode = "chunk" THEN Data ELSE {<<>>})
    /\ LET all == Encode(IF mode = "chunk" THEN <<Head(sent)>> ELSE sent) \o data
       IN  \E n \in 0..Len(all) : wire = SubSeq(all, 1, n) /\ cut = (n < Len(all))
    /\ ending \in {"closed", "silent"}
    /\ message = <<>> /\ prevChar = None
    /\ lines = <<>> /\ body = <<>>
    /\ state = (IF mode = "nodes" THEN "all" ELSE "line")
    /\ failed = FALSE

----------------------------------------------------------------------------
(* The loops over lines.  A line that has been read, or could not be, is   *)
(* given to the loop in the same step.                                     *)

(* ReadMultilineRequest: the first line has been read by HandleClient and  *)
(* does not count.                                                         *)
AfterRequestLine(line) ==
    IF lines # <<>> /\ line = End
    THEN "accepted"
    ELSE IF Len(lines) > MaxLines THEN "refused" ELSE "line"

AfterLine(line) ==
    CASE mode = "request" -> AfterRequestLine(line)
      [] mode = "reply"   -> IF lines # <<>> /\ line = End THEN "accepted" ELSE "line"
      [] mode = "chunk"   -> IF line = Head(sent) /\ data = <<>> THEN "accepted" ELSE "body"

(* Slip: a request that ends early is taken as it is.                      *)
AfterFailureLenient == IF lines = <<>> THEN "refused" ELSE "accepted"

(* The client goes on with the lines of a reply it has; all others give up.*)
AfterFailure == IF mode = "reply" /\ lines # <<>> THEN "accepted" ELSE "refused"

(* ReceiveMessage returns false for an empty message.                      *)
Return(line) ==
    /\ message' = <<>> /\ prevChar' = None
    /\ IF line = <<>>
       THEN state' = AfterFailure /\ UNCHANGED lines
       ELSE state' = AfterLine(line) /\ lines' = Append(lines, line)

----------------------------------------------------------------------------
(* ReceiveMessage.                                                         *)

(* Slip: the line ends with CR, and LF is left to the next one.            *)
ReceiveByteCR ==
    /\ state = "line" /\ wire # <<>>
    /\ wire' = Tail(wire)
    /\ IF Head(wire) = CR
       THEN Return(message)
       ELSE IF Len(message) + 1 < MaxSize
            THEN /\ message' = Append(message, Head(wire))
                 /\ prevChar' = Head(wire)
                 /\ UNCHANGED <<lines, state>>
            ELSE Return(Append(message, Head(wire)))
    /\ UNCHANGED <<sender, body, failed>>

(* Slip: a line may be one byte longer than the limit.                     *)
ReceiveByteOver ==
    /\ state = "line" /\ wire # <<>>
    /\ wire' = Tail(wire)
    /\ IF prevChar = CR /\ Head(wire) = LF
       THEN Return(Front(message))
       ELSE IF Len(message) < MaxSize
            THEN /\ message' = Append(message, Head(wire))
                 /\ prevChar' = Head(wire)
                 /\ UNCHANGED <<lines, state>>
            ELSE Return(Append(message, Head(wire)))
    /\ UNCHANGED <<sender, body, failed>>

(* One byte.  The line ends with CR LF, of which CR is taken off again, or *)
(* at the limit.                                                           *)
ReceiveByte ==
    /\ state = "line" /\ wire # <<>>
    /\ wire' = Tail(wire)
    /\ IF prevChar = CR /\ Head(wire) = LF
       THEN Return(Front(message))
       ELSE IF Len(message) + 1 < MaxSize
            THEN /\ message' = Append(message, Head(wire))
                 /\ prevChar' = Head(wire)
                 /\ UNCHANGED <<lines, state>>
            ELSE Return(Append(message, Head(wire)))
    /\ UNCHANGED <<sender, body, failed>>

(* recv returns 0: what has been read counts as a line.                    *)
ReceiveClosed ==
    /\ state = "line" /\ wire = <<>> /\ ending = "closed"
    /\ Return(message)
    /\ UNCHANGED <<sender, wire, body, failed>>

(* Slip: recv waits for ever when nothing comes.                           *)
ReceiveResets ==
    /\ state = "line" /\ wire # <<>>
    /\ Return(<<>>)
    /\ failed' = TRUE
    /\ UNCHANGED <<sender, wire, body>>

(* recv fails, or nothing has come for as long as the socket waits.        *)
ReceiveFails ==
    /\ state = "line"
    /\ Return(<<>>)
    /\ failed' = TRUE
    /\ UNCHANGED <<sender, wire, body>>

----------------------------------------------------------------------------
(* ReceiveBinaryData, of the size the line announced and no more.  A line  *)
(* that was cut announces a smaller size or none, and behind it is nothing *)
(* to receive.                                                             *)

ReceiveData(n) ==
    /\ state = "body" /\ n <= Len(wire) /\ Len(body) + n <= Len(data)
    /\ body' = body \o SubSeq(wire, 1, n)
    /\ wire' = SubSeq(wire, n + 1, Len(wire))
    /\ state' = IF Len(body') = Len(data) THEN "accepted" ELSE "body"
    /\ UNCHANGED <<sender, message, prevChar, lines, failed>>

DataEnds ==
    /\ state = "body"
    /\ state' = "refused"
    /\ failed' = (failed \/ wire # <<>> \/ ending = "silent")
    /\ UNCHANGED <<sender, wire, message, prevChar, lines, body>>

----------------------------------------------------------------------------
(* RequestUploadNodes: recv until the connection ends or more than MaxSize *)
(* bytes are there; nothing limits the time.                               *)

ReceiveSome(n) ==
    /\ state = "all" /\ n <= Len(wire)
    /\ message' = message \o SubSeq(wire, 1, n)
    /\ wire' = SubSeq(wire, n + 1, Len(wire))
    /\ state' = IF Len(message') > MaxSize THEN "accepted" ELSE "all"
    /\ UNCHANGED <<sender, prevChar, lines, body, failed>>

AllClosed ==
    /\ state = "all" /\ wire = <<>> /\ ending = "closed"
    /\ state' = "accepted"
    /\ UNCHANGED <<sender, wire, message, prevChar, lines, body, failed>>

AllFails ==
    /\ state = "all"
    /\ state' = "accepted"
    /\ failed' = TRUE
    /\ UNCHANGED <<sender, wire, message, prevChar, lines, body>>

----------------------------------------------------------------------------

ReadLine == ReceiveByte \/ ReceiveClosed \/ ReceiveFails
ReadData == DataEnds \/ \E n \in 1..Len(wire) : ReceiveData(n)
ReadAll  == AllClosed \/ \E n \in 1..(MaxSize - 1) : ReceiveSome(n)

Next == ReadLine \/ ReadData \/ ReadAll \/ AllFails

Spec == Init /\ [][Next]_vars

(* recv returns when there is something to return, and in the first two    *)
(* loops also when the time is over.  Nothing makes AllFails happen.       *)
FairSpec == Spec /\ WF_vars(ReadLine) /\ WF_vars(ReadData) /\ WF_vars(ReadAll)

----------------------------------------------------------------------------

TypeOK ==
    /\ mode \in Modes /\ sent \in Messages
    /\ cut \in BOOLEAN /\ ending \in {"closed", "silent"}
    /\ Len(message) <= (IF mode = "nodes" THEN 2 * MaxSize ELSE MaxSize - 1)
    /\ mode # "nodes" => prevChar = (IF message = <<>> THEN None ELSE Last(message))
    /\ \A i \in 1..Len(lines) : Len(lines[i]) \in 1..MaxSize
    /\ Len(body) <= Len(data)
    /\ state \in {"line", "body", "all", "accepted", "refused"}
    /\ failed \in BOOLEAN

(* Lines that ReceiveMessage can return as they are.                       *)
Fits == \A i \in 1..Len(sent) : Len(sent[i]) + 2 <= MaxSize

(* The lines read are the lines sent, but for the last one, which the end  *)
(* of the connection may have cut: no byte is lost between two calls of    *)
(* ReceiveMessage and none of the next line is read ahead.                 *)
LinesAsSent ==
    mode # "nodes" /\ Fits =>
        \A i \in 1..Len(lines) :
            \/ lines[i] = sent[i]
            \/ i = Len(lines) /\ cut /\ IsPrefix(lines[i], Append(sent[i], CR))

(* A request or a chunk is taken only when all of it has arrived, although *)
(* a line cut by the end of the connection counts as a line and binary     *)
(* data may hold CR LF; and it is refused only for a reason, of which a    *)
(* request of more lines than MaxLines is the one that is not the          *)
(* network's.                                                              *)
AllOrNothing ==
    mode \in {"request", "chunk"} /\ Fits =>
        /\ state = "accepted" =>
              IF mode = "request" THEN lines = sent ELSE lines = <<Head(sent)>> /\ body = data
        /\ state = "refused" =>
              failed \/ cut \/ (mode = "request" /\ Len(sent) - 2 > MaxLines)

(* Whatever the other side does every read ends, and with it the thread    *)
(* or the command, except that RequestUploadNodes waits for ever for a     *)
(* server that has fallen silent.                                          *)
ReaderEnds ==
    (mode # "nodes" \/ ending = "closed") ~> state \in {"accepted", "refused"}

=============================================================================
