----------------------------- MODULE GuiSession -----------------------------
(***************************************************************************)
(* The graphical client (client-gui/src/main_window.cpp, main.cpp): one    *)
(* window, the connection it holds to a metadata server, and the transfers *)
(* it starts in detached threads.                                          *)
(*                                                                         *)
(* A session is one MetadataClient with the two managers that point to it. *)
(* The window's own thread runs message handlers.  A handler that opens a  *)
(* dialog or a message box waits in the box's own message loop, which      *)
(* dispatches what the transfers post, so that handlers nest.  All boxes   *)
(* are owned by the window and none by another: opening one disables the   *)
(* window, answering it enables the window again if it was this box that   *)
(* had disabled it, and the user may answer the outer of two first.  Its   *)
(* handler goes on only after the inner one has returned, and until then   *)
(* the user is free to use the window.                                     *)
(***************************************************************************)
EXTENDS Naturals, Sequences, FiniteSets

CONSTANTS
    Transfers,   \* uploads and downloads, each started at most once
    MaxSessions  \* bound: how often the user connects

ASSUME SessionsAssumption == MaxSessions \in Nat

None == 0
Sessions == 1..MaxSessions

VARIABLES
    process,    \* "running", "crashed", "starved" (no thread left) or "exited"
    window,     \* the main window exists
    connected,  \* isConnected
    client,     \* the session of metadataClient
    managers,   \* the session of uploadManager and downloadManager
    made,       \* sessions made so far
    listed,     \* the session whose files and nodes are in the lists
    calls,      \* handlers in the loop of their box, the innermost first
    queue,      \* messages posted to the window: <<transfer, success>>
    transfer    \* the detached threads

vars == <<process, window, connected, client, managers, made, listed, calls, queue, transfer>>

session == <<connected, client, managers, made, listed>>

(* A handler's box: the session it belongs to, if any, the user's answer,  *)
(* and whether opening it disabled the window.  "failed" is the message    *)
(* that the server cannot be reached, "result" the one a transfer ends in. *)
Calls == [kind     : {"notice", "failed", "open", "save", "confirm", "result"},
          of       : Sessions \cup {None},
          answer   : {"none", "no", "yes"},
          disables : BOOLEAN]

(* A transfer, the session it was asked for in, and the one whose manager  *)
(* its thread found when it began.                                         *)
TransferStates == [at    : {"idle", "spawned", "running", "over"},
                   kind  : {"upload", "download"},
                   asked : Sessions \cup {None},
                   uses  : Sessions \cup {None}]

Idle == [at |-> "idle", kind |-> "upload", asked |-> None, uses |-> None]

----------------------------------------------------------------------------

Init ==
    /\ process = "running"
    /\ window = TRUE
    /\ connected = FALSE
    /\ client = None /\ managers = None /\ made = 0
    /\ listed = None
    /\ calls = <<>>
    /\ queue = <<>>
    /\ transfer = [t \in Transfers |-> Idle]

Unanswered(i) == calls[i].answer = "none"

(* The window takes input, and there is a loop that takes messages: that   *)
(* of the innermost box, or the main one.                                  *)
Enabled == \A i \in 1..Len(calls) : Unanswered(i) => ~calls[i].disables
Pumping == process = "running" /\ (calls # <<>> => Unanswered(1))

(* The user can reach the controls of the window.                          *)
AtWindow == Pumping /\ window /\ Enabled

Open(kind, s) ==
    calls' = <<[kind |-> kind, of |-> s, answer |-> "none", disables |-> Enabled]>> \o calls

Become(t, s) == transfer' = [transfer EXCEPT ![t] = s]

(* RefreshFiles and RefreshNodes: the lists are emptied, then filled with  *)
(* what the server answers, if it does.                                    *)
RefreshLists == listed' \in (IF connected THEN {client, None} ELSE {listed})

(* isConnected is set and metadataClient null.                             *)
ClientLost == connected /\ client = None

----------------------------------------------------------------------------
(* The user at the window.                                                 *)

NewSession == made < MaxSessions /\ made' = made + 1

(* Slip: the button connects without asking whether it is connected.       *)
ConnectAgain ==
    /\ AtWindow
    /\ NewSession
    /\ client' = made' /\ managers' = made'
    /\ connected' = TRUE
    /\ listed' \in {made', None}
    /\ UNCHANGED <<process, window, calls, queue, transfer>>

(* ConnectToServer with a server that answers.                             *)
Connect ==
    /\ AtWindow
    /\ ~connected
    /\ NewSession
    /\ client' = made' /\ managers' = made'
    /\ connected' = TRUE
    /\ listed' \in {made', None}
    /\ UNCHANGED <<process, window, calls, queue, transfer>>

(* The server cannot be reached.  The client is given up when the message  *)
(* about it returns, see ReturnFailed.                                     *)
ConnectFails ==
    /\ AtWindow
    /\ ~connected
    /\ NewSession
    /\ client' = made'
    /\ Open("failed", made')
    /\ UNCHANGED <<process, window, connected, managers, listed, queue, transfer>>

(* No address, an invalid port, or no file selected.                       *)
Complain ==
    /\ AtWindow
    /\ Open("notice", None)
    /\ UNCHANGED <<process, window, session, queue, transfer>>

EndSession ==
    /\ connected' = FALSE
    /\ client' = (IF connected THEN None ELSE client)
    /\ managers' = (IF connected THEN None ELSE managers)
    /\ listed' = (IF connected THEN None ELSE listed)
    /\ UNCHANGED made

(* Slip: the lists keep what the last server had.                          *)
DisconnectKeepsLists ==
    /\ AtWindow
    /\ connected
    /\ connected' = FALSE
    /\ client' = None /\ managers' = None
    /\ UNCHANGED <<made, listed, process, window, calls, queue, transfer>>

(* DisconnectFromServer, whatever the transfers are doing.                 *)
DisconnectFromServer ==
    /\ AtWindow
    /\ connected
    /\ EndSession
    /\ UNCHANGED <<process, window, calls, queue, transfer>>

(* "Refresh".  ("View Chunks" asks the server and changes none of this.)   *)
Refresh ==
    /\ AtWindow
    /\ connected /\ ~ClientLost
    /\ RefreshLists
    /\ UNCHANGED <<process, window, connected, client, managers, made, calls, queue, transfer>>

(* "Refresh" or "View Chunks" through a null metadataClient.               *)
AskWithoutClient ==
    /\ AtWindow
    /\ ClientLost
    /\ process' = "crashed"
    /\ UNCHANGED <<window, session, calls, queue, transfer>>

(* Slip: the upload does not ask whether the window is connected.          *)
UploadAnyway ==
    /\ AtWindow
    /\ Open("open", managers)
    /\ UNCHANGED <<process, window, session, queue, transfer>>

UploadFile ==
    /\ AtWindow
    /\ connected
    /\ Open("open", managers)
    /\ UNCHANGED <<process, window, session, queue, transfer>>

(* A file of the list is selected.                                         *)
DownloadFile ==
    /\ AtWindow
    /\ connected
    /\ listed # None
    /\ Open("save", managers)
    /\ UNCHANGED <<process, window, session, queue, transfer>>

(* OnClose asks when the window is connected.                              *)
AskToClose ==
    /\ AtWindow
    /\ connected
    /\ Open("confirm", managers)
    /\ UNCHANGED <<process, window, session, queue, transfer>>

(* DestroyWindow: the boxes go with the window that owns them, as if       *)
(* cancelled, and so do the messages in the queue; OnDestroy disconnects.  *)
DestroyWindow(waiting) ==
    /\ window' = FALSE
    /\ calls' = [i \in 1..Len(waiting) |->
                    IF waiting[i].answer = "none" THEN [waiting[i] EXCEPT !.answer = "no"]
                    ELSE waiting[i]]
    /\ queue' = <<>>
    /\ EndSession
    /\ UNCHANGED <<process, transfer>>

Close ==
    /\ AtWindow
    /\ ~connected
    /\ DestroyWindow(calls)

----------------------------------------------------------------------------
(* The boxes.                                                              *)

(* Bound: no more files are chosen than there are transfers left.          *)
Chosen == {i \in 1..Len(calls) : calls[i].kind \in {"open", "save"} /\ calls[i].answer = "yes"}
Room   == Cardinality(Chosen) < Cardinality({t \in Transfers : transfer[t] = Idle})

(* "yes" is a file chosen or the question answered so, "no" is Cancel, No  *)
(* or the OK of a message.  Any box may be answered, the innermost or not. *)
AnswerBox(i, answer) ==
    /\ Pumping
    /\ i \in 1..Len(calls)
    /\ Unanswered(i)
    /\ answer = "yes" =>
          \/ calls[i].kind = "confirm"
          \/ calls[i].kind \in {"open", "save"} /\ Room
    /\ calls' = [calls EXCEPT ![i].answer = answer]
    /\ UNCHANGED <<process, window, session, queue, transfer>>

(* The innermost handler goes on after its box.                            *)
Returns(kind, answer) ==
    /\ process = "running"
    /\ calls # <<>>
    /\ Head(calls).kind = kind /\ Head(calls).answer = answer

(* It has nothing left to do.                                              *)
ReturnNo ==
    /\ \E kind \in {"notice", "open", "save", "confirm", "result"} : Returns(kind, "no")
    /\ calls' = Tail(calls)
    /\ UNCHANGED <<process, window, session, queue, transfer>>

(* Slip: the client that could not connect is kept.                        *)
KeepFailedClient ==
    /\ Returns("failed", "no")
    /\ calls' = Tail(calls)
    /\ UNCHANGED <<process, window, session, queue, transfer>>

(* metadataClient.reset() after the message that the connection failed:    *)
(* whichever client is there by now.                                       *)
ReturnFailed ==
    /\ Returns("failed", "no")
    /\ calls' = Tail(calls)
    /\ client' = None
    /\ UNCHANGED <<process, window, connected, managers, made, listed, queue, transfer>>

(* The file dialog returns a file: the thread starts, with no further test *)
(* of isConnected.                                                         *)
Spawn(t) ==
    /\ \/ Returns("open", "yes")
          /\ Become(t, [Idle EXCEPT !.at = "spawned", !.asked = Head(calls).of])
       \/ Returns("save", "yes")
          /\ Become(t, [Idle EXCEPT !.at = "spawned", !.kind = "download", !.asked = Head(calls).of])
    /\ transfer[t] = Idle
    /\ calls' = Tail(calls)
    /\ UNCHANGED <<process, window, session, queue>>

(* std::thread throws, and nothing catches it.                             *)
SpawnFails ==
    /\ Returns("open", "yes") \/ Returns("save", "yes")
    /\ process' = "starved"
    /\ UNCHANGED <<window, session, calls, queue, transfer>>

(* The window may be gone already.                                         *)
ReturnConfirmed ==
    /\ Returns("confirm", "yes")
    /\ IF window
       THEN DestroyWindow(Tail(calls))
       ELSE calls' = Tail(calls) /\ UNCHANGED <<process, window, session, queue, transfer>>

(* The main loop ends.                                                     *)
Exit ==
    /\ process = "running"
    /\ ~window /\ calls = <<>>
    /\ process' = "exited"
    /\ UNCHANGED <<window, session, calls, queue, transfer>>

----------------------------------------------------------------------------
(* The messages of the transfers, taken by any of the loops.               *)

(* An upload that succeeded has the lists refreshed.                       *)
Refreshing == Head(queue)[2] /\ transfer[Head(queue)[1]].kind = "upload"

(* Slip: a transfer that failed ends the session.                          *)
FailureDisconnects ==
    /\ Pumping /\ window
    /\ queue # <<>>
    /\ queue' = Tail(queue)
    /\ Open("result", None)
    /\ IF Head(queue)[2] THEN UNCHANGED session ELSE EndSession
    /\ UNCHANGED <<process, window, transfer>>

(* Slip: results wait until no box is open.                                *)
DispatchInMainLoop ==
    /\ Pumping /\ window /\ calls = <<>>
    /\ queue # <<>>
    /\ queue' = Tail(queue)
    /\ Open("result", None)
    /\ UNCHANGED <<process, window, session, transfer>>

(* WM_USER + 1 and WM_USER + 2.                                            *)
Dispatch ==
    /\ Pumping /\ window
    /\ queue # <<>>
    /\ queue' = Tail(queue)
    /\ IF Refreshing THEN ~ClientLost /\ RefreshLists ELSE UNCHANGED listed
    /\ Open("result", None)
    /\ UNCHANGED <<process, window, connected, client, managers, made, transfer>>

DispatchWithoutClient ==
    /\ Pumping /\ window
    /\ queue # <<>>
    /\ Refreshing /\ ClientLost
    /\ process' = "crashed"
    /\ UNCHANGED <<window, session, calls, queue, transfer>>

----------------------------------------------------------------------------
(* The transfers.                                                          *)

(* The thread reads uploadManager or downloadManager from the window.      *)
Begin(t) ==
    /\ process = "running"
    /\ transfer[t].at = "spawned"
    /\ managers # None
    /\ Become(t, [transfer[t] EXCEPT !.at = "running", !.uses = managers])
    /\ UNCHANGED <<process, window, session, calls, queue>>

BeginWithoutManager(t) ==
    /\ process = "running"
    /\ transfer[t].at = "spawned"
    /\ managers = None
    /\ process' = "crashed"
    /\ UNCHANGED <<window, session, calls, queue, transfer>>

(* The transfer ends and posts its result, which a window that is gone     *)
(* does not get.                                                           *)
Finish(t, success) ==
    /\ process = "running"
    /\ transfer[t].at = "running"
    /\ Become(t, [Idle EXCEPT !.at = "over", !.kind = transfer[t].kind])
    /\ queue' = IF window THEN Append(queue, <<t, success>>) ELSE queue
    /\ UNCHANGED <<process, window, session, calls>>

(* Its manager, or the client of its manager, has been destroyed:          *)
(* undefined, the process may crash.                                       *)
UseDestroyed(t) ==
    /\ process = "running"
    /\ transfer[t].at = "running"
    /\ transfer[t].uses # managers \/ transfer[t].uses # client
    /\ process' = "crashed"
    /\ UNCHANGED <<window, session, calls, queue, transfer>>

----------------------------------------------------------------------------

User == Connect \/ ConnectFails \/ Complain \/ DisconnectFromServer \/ Refresh
            \/ AskWithoutClient \/ UploadFile \/ DownloadFile \/ AskToClose \/ Close
            \/ \E i \in 1..Len(calls), answer \in {"no", "yes"} : AnswerBox(i, answer)

Return == ReturnNo \/ ReturnFailed \/ SpawnFails \/ ReturnConfirmed
              \/ \E t \in Transfers : Spawn(t)

Message == Dispatch \/ DispatchWithoutClient

Start(t) == Begin(t) \/ BeginWithoutManager(t)

End(t) == UseDestroyed(t) \/ \E success \in BOOLEAN : Finish(t, success)

Next ==
    \/ User
    \/ Return
    \/ Exit
    \/ Message
    \/ \E t \in Transfers : Start(t) \/ End(t)

Spec == Init /\ [][Next]_vars

(* The calls of a download have time limits.  Those of an upload have not: *)
(* RequestUploadNodes reads, and StoreChunk sends, for as long as the      *)
(* other side is silent.                                                   *)
EndDownload(t) == transfer[t].kind = "download" /\ End(t)

(* Threads are scheduled, an answered box returns, and downloads end.      *)
(* Messages that are posted are taken before the user's next input.        *)
(* Nothing is assumed of the user, who may leave a box open for ever.      *)
FairSpec ==
    /\ Spec
    /\ WF_vars(Return)
    /\ SF_vars(Message)
    /\ \A t \in Transfers : WF_vars(Start(t)) /\ WF_vars(EndDownload(t))

----------------------------------------------------------------------------

(* Types, and what isConnected stands for: while it is set the managers    *)
(* are there, and the client is theirs or lost; while it is not there are  *)
(* no managers, and no client but behind the message that it cannot        *)
(* connect.                                                                *)
TypeOK ==
    /\ process \in {"running", "crashed", "starved", "exited"}
    /\ window \in BOOLEAN /\ connected \in BOOLEAN
    /\ made \in 0..MaxSessions
    /\ {client, managers, listed} \subseteq Sessions \cup {None}
    /\ calls \in Seq(Calls)
    /\ queue \in Seq(Transfers \X BOOLEAN)
    /\ transfer \in [Transfers -> TransferStates]
    /\ connected => managers # None /\ client \in {managers, None}
    /\ ~connected => managers = None
    /\ ~connected /\ client # None => \E i \in 1..Len(calls) : calls[i].kind = "failed"

(* The lists show files of the server the managers talk to, or nothing: a  *)
(* file selected in them is asked of the server that has it.               *)
ListsOfThisServer == listed # None => connected /\ listed = managers

(* UploadFile, DownloadFile and OnClose test isConnected before their box  *)
(* only.  Whatever boxes are nested in it, the session lasts until the     *)
(* user answers; from then on, until the handler goes on, it may end.      *)
DialogKeepsSession ==
    \A i \in 1..Len(calls) :
        calls[i].kind \in {"open", "save", "confirm"} /\ Unanswered(i) =>
            connected /\ calls[i].of = managers

(* A null or destroyed object is used only after the session a transfer    *)
(* was asked for in has ended or lost its client, or, by the window        *)
(* itself, in a session that has lost its client.                          *)
CrashNeedsEndedSession ==
    process = "crashed" =>
        \/ ClientLost
        \/ \E t \in Transfers :
              transfer[t].at \in {"spawned", "running"} /\ transfer[t].asked # client

(* While the window stays connected the managers are the same, and nothing *)
(* takes the client from them but the message of an earlier connection     *)
(* that failed, when it is closed at last.                                 *)
OnlyLateFailureTakesClient ==
    [][connected /\ connected' =>
          /\ managers' = managers
          /\ client' = client
             \/ /\ Head(calls).kind = "failed" /\ Head(calls).of < managers
                /\ client' = None]_vars

(* Once a download is asked for, or an upload has ended, its outcome is    *)
(* shown while the window is open, though the user leaves boxes            *)
(* unanswered.                                                             *)
UnderWay(t) ==
    \/ transfer[t].at \in {"spawned", "running"} /\ transfer[t].kind = "download"
    \/ \E i \in 1..Len(queue) : queue[i][1] = t

ResultIsShown ==
    \A t \in Transfers :
        UnderWay(t) ~> (transfer[t].at = "over" /\ ~UnderWay(t)) \/ process # "running"

=============================================================================
