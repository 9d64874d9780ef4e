-------------------------- MODULE GuiSessionProofs --------------------------
(***************************************************************************)
(* Proofs about GuiSession, for any number of transfers and sessions.      *)
(***************************************************************************)
EXTENDS GuiSession, TLAPS

USE SessionsAssumption

Asking == {"open", "save", "confirm"}
Live   == {"spawned", "running"}

(* A box that asks the user something belongs to a session, which has      *)
(* ended if its client is gone, and lasts until the user answers; the      *)
(* message about a server that cannot be reached belongs to a session      *)
(* older than the one that is open.  Boxes the user has called for disable *)
(* the window.                                                             *)
CallSound(c) ==
    /\ c.of <= made
    /\ c.kind \in Asking =>
          /\ c.of # None
          /\ c.of = client => connected
          /\ c.answer = "none" => connected /\ c.of = managers
    /\ c.kind = "failed" => (connected => c.of < managers)
    /\ c.kind # "result" => c.disables

CallsSound ==
    /\ calls \in Seq(Calls)
    /\ \A i \in 1..Len(calls) : CallSound(calls[i])

(* A client without a session is behind the message that it cannot connect.*)
FailedBehind(cs) == \E i \in 1..Len(cs) : cs[i].kind = "failed"

ClientExplained == ~connected /\ client # None => FailedBehind(calls)

(* The rest of TypeOK, and the sessions told apart by their numbers.       *)
SessionSound ==
    /\ process \in {"running", "crashed", "starved", "exited"}
    /\ window \in BOOLEAN /\ connected \in BOOLEAN
    /\ made \in 0..MaxSessions
    /\ client \in 0..made /\ managers \in 0..made /\ listed \in 0..made
    /\ connected => managers # None /\ client \in {managers, None}
    /\ ~connected => managers = None
    /\ ListsOfThisServer

(* A transfer of the session that has its client has been given its        *)
(* managers.                                                               *)
TransferSound(s) ==
    s.at \in Live =>
        /\ s.asked # None /\ s.asked <= made
        /\ s.asked = client => connected /\ (s.at # "spawned" => s.uses = client)

TransfersSound ==
    /\ transfer \in [Transfers -> TransferStates]
    /\ \A t \in Transfers : TransferSound(transfer[t])

IInv ==
    /\ CallsSound
    /\ ClientExplained
    /\ SessionSound
    /\ TransfersSound
    /\ queue \in Seq(Transfers \X BOOLEAN)
    /\ CrashNeedsEndedSession

----------------------------------------------------------------------------
(* The boxes.                                                              *)

LEMMA Pushing ==
    ASSUME NEW S, NEW s \in Seq(S), NEW d \in S
    PROVE  /\ <<d>> \o s \in Seq(S)
           /\ Len(<<d>> \o s) = Len(s) + 1
           /\ (<<d>> \o s)[1] = d
           /\ \A i \in 1..Len(s) : (<<d>> \o s)[i + 1] = s[i]
           /\ \A i \in 2..(Len(s) + 1) : (<<d>> \o s)[i] = s[i - 1]
  OBVIOUS

LEMMA Popping ==
    ASSUME NEW S, NEW s \in Seq(S), s # <<>>
    PROVE  /\ Tail(s) \in Seq(S)
           /\ Len(Tail(s)) = Len(s) - 1 /\ Len(s) \in Nat \ {0}
           /\ Head(s) = s[1] /\ Head(s) \in S
           /\ \A i \in 1..Len(Tail(s)) : Tail(s)[i] = s[i + 1]
           /\ \A i \in 2..Len(s) : Tail(s)[i - 1] = s[i]
  OBVIOUS

(* The boxes are among those there were, some of them answered meanwhile.  *)
Kept(c, d) ==
    /\ c.kind = d.kind /\ c.of = d.of /\ c.disables = d.disables
    /\ c.answer = "none" => d.answer = "none"

AmongCalls(cs) ==
    /\ cs \in Seq(Calls)
    /\ \A i \in 1..Len(cs) : \E j \in 1..Len(calls) : Kept(cs[i], calls[j])

LEMMA SameCalls == ASSUME CallsSound PROVE AmongCalls(calls)
  BY DEF CallsSound, AmongCalls, Kept

LEMMA TailCalls == ASSUME CallsSound, calls # <<>> PROVE AmongCalls(Tail(calls))
<1>1. calls \in Seq(Calls)
  BY DEF CallsSound
<1>2. \A i \in 1..Len(Tail(calls)) : i + 1 \in 1..Len(calls) /\ Tail(calls)[i] = calls[i + 1]
  BY <1>1, Popping
<1> QED
  BY <1>1, <1>2, Popping DEF AmongCalls, Kept

LEMMA AnsweredCalls ==
    ASSUME CallsSound, NEW i, NEW answer, AnswerBox(i, answer), answer \in {"no", "yes"}
    PROVE  AmongCalls(calls') /\ (FailedBehind(calls) => FailedBehind(calls'))
<1>1. calls \in Seq(Calls) /\ i \in 1..Len(calls) /\ calls' = [calls EXCEPT ![i].answer = answer]
  BY DEF CallsSound, AnswerBox
<1>2. PICK d : d = [calls[i] EXCEPT !.answer = answer]
  OBVIOUS
<1>3. calls[i] \in Calls
  BY <1>1
<1>4. d \in Calls /\ Kept(d, calls[i])
  BY <1>2, <1>3 DEF Calls, Kept
<1>5. calls' = [calls EXCEPT ![i] = d]
  BY <1>1, <1>2
<1>6. /\ calls' \in Seq(Calls) /\ Len(calls') = Len(calls)
      /\ \A j \in 1..Len(calls) : calls'[j] = IF j = i THEN d ELSE calls[j]
  BY <1>1, <1>4, <1>5
<1>7. \A j \in 1..Len(calls) : Kept(calls'[j], calls[j])
  BY <1>4, <1>6 DEF Kept
<1> QED
  BY <1>6, <1>7 DEF AmongCalls, FailedBehind, Kept

(* The boxes that go with the window.                                      *)
LEMMA AbandonedCalls ==
    ASSUME CallsSound, NEW waiting, AmongCalls(waiting), DestroyWindow(waiting)
    PROVE  /\ AmongCalls(calls')
           /\ FailedBehind(waiting) => FailedBehind(calls')
           /\ \A i \in 1..Len(calls') : calls'[i].answer # "none"
<1> DEFINE Gone(i) == IF waiting[i].answer = "none" THEN [waiting[i] EXCEPT !.answer = "no"]
                      ELSE waiting[i]
<1>1. calls' = [i \in 1..Len(waiting) |-> Gone(i)] /\ waiting \in Seq(Calls) /\ Len(waiting) \in Nat
  BY DEF DestroyWindow, AmongCalls
<1>2. ASSUME NEW i \in 1..Len(waiting)
      PROVE  Gone(i) \in Calls /\ Kept(Gone(i), waiting[i]) /\ Gone(i).answer # "none"
  <2>1. waiting[i] \in Calls
    BY <1>1
  <2> QED
    BY <2>1 DEF Calls, Kept
<1> HIDE DEF Gone
<1>3. calls' \in Seq(Calls) /\ Len(calls') = Len(waiting) /\ \A i \in 1..Len(waiting) : calls'[i] = Gone(i)
  BY <1>1, <1>2
<1>4. ASSUME NEW i \in 1..Len(waiting)
      PROVE  \E j \in 1..Len(calls) : Kept(calls'[i], calls[j])
  <2>1. PICK j \in 1..Len(calls) : Kept(waiting[i], calls[j])
    BY DEF AmongCalls
  <2>2. Kept(calls'[i], waiting[i])
    BY <1>2, <1>3
  <2> QED
    BY <2>1, <2>2 DEF Kept
<1>5. ASSUME FailedBehind(waiting) PROVE FailedBehind(calls')
  BY <1>2, <1>3, <1>5 DEF FailedBehind, Kept
<1> QED
  BY <1>2, <1>3, <1>4, <1>5 DEF AmongCalls

----------------------------------------------------------------------------
(* The session.                                                            *)

SessionChange ==
    \/ UNCHANGED <<connected, client, managers, made>>
    \/ /\ ~connected /\ NewSession /\ client' = made'
       /\ \/ connected' = TRUE /\ managers' = made'
          \/ UNCHANGED <<connected, managers>>
    \/ client' = None /\ UNCHANGED <<connected, managers, made>>
    \/ EndSession

(* Whatever happens to the session, a box stays sound, if the user has     *)
(* answered it when the session ends.                                      *)
LEMMA CallLasts ==
    ASSUME SessionSound, SessionChange, NEW c \in Calls, NEW d \in Calls,
           CallSound(d), Kept(c, d),
           connected /\ ~connected' /\ c.kind \in Asking => c.answer # "none"
    PROVE  CallSound(c)'
<1> USE DEF CallSound, Kept, Calls, Sessions, None
<1>0. /\ c.of \in Nat /\ made \in Nat /\ client \in Nat /\ managers \in Nat /\ MaxSessions \in Nat
      /\ client <= made /\ managers <= made
  BY DEF SessionSound
<1>1. CASE UNCHANGED <<connected, client, managers, made>>
  BY <1>0, <1>1
<1>2. CASE /\ ~connected /\ NewSession /\ client' = made'
           /\ \/ connected' = TRUE /\ managers' = made'
              \/ UNCHANGED <<connected, managers>>
  <2>1. made' = made + 1 /\ client' = made + 1
    BY <1>2 DEF NewSession
  <2>2. c.of <= made'  /\ c.of # client' /\ (managers' = made' => c.of < managers')
    BY <1>0, <2>1
  <2>3. c.kind \in Asking => c.answer # "none"
    BY <1>2
  <2> QED
    BY <1>2, <2>2, <2>3
<1>3. CASE client' = None /\ UNCHANGED <<connected, managers, made>>
  BY <1>0, <1>3
<1>4. CASE EndSession
  <2>1. connected' = FALSE /\ made' = made /\ client' = (IF connected THEN None ELSE client)
        /\ (c.kind \in Asking => c.answer # "none")
    BY <1>4 DEF EndSession
  <2>2. c.kind \in Asking => c.of # client'
    BY <2>1
  <2> QED
    BY <1>0, <2>1, <2>2
<1> QED
  BY <1>1, <1>2, <1>3, <1>4 DEF SessionChange

LEMMA CallsLast ==
    ASSUME SessionSound, SessionChange, CallsSound, AmongCalls(calls'),
           connected /\ ~connected' =>
               (\A i \in 1..Len(calls') : calls'[i].kind \in Asking => calls'[i].answer # "none")
    PROVE  CallsSound'
<1>1. ASSUME NEW i \in 1..Len(calls')
      PROVE  CallSound(calls[i])'
  <2>1. PICK j \in 1..Len(calls) : Kept(calls'[i], calls[j])
    BY DEF AmongCalls
  <2>2. calls'[i] \in Calls /\ calls[j] \in Calls
    BY DEF AmongCalls, CallsSound
  <2>3. PICK c \in Calls, d \in Calls : c = calls'[i] /\ d = calls[j]
    BY <2>2
  <2>4. CallSound(d) /\ Kept(c, d)
    BY <2>1, <2>3 DEF CallsSound
  <2> QED
    BY <2>3, <2>4, CallLasts DEF CallSound
<1> QED
  BY <1>1 DEF CallsSound, AmongCalls

LEMMA TransfersLast ==
    ASSUME SessionSound, SessionChange, TransfersSound, UNCHANGED transfer
    PROVE  TransfersSound'
<1>0. /\ made \in Nat /\ client \in Nat
      /\ \A t \in Transfers : transfer[t].asked \in Nat /\ transfer[t].at \in {"idle", "spawned", "running", "over"}
  BY DEF SessionSound, TransfersSound, TransferStates, Sessions, None
<1>1. ASSUME NEW t \in Transfers PROVE TransferSound(transfer[t])'
  <2> USE <1>0 DEF TransfersSound, TransferSound, None
  <2>1. CASE UNCHANGED <<connected, client, managers, made>>
    BY <2>1
  <2>2. CASE ~connected /\ NewSession /\ client' = made'
    BY <2>2 DEF NewSession
  <2>3. CASE client' = None /\ UNCHANGED <<connected, managers, made>>
    BY <2>3
  <2>4. CASE EndSession
    BY <2>4 DEF EndSession
  <2> QED
    BY <2>1, <2>2, <2>3, <2>4 DEF SessionChange
<1> QED
  BY <1>1 DEF TransfersSound

LEMMA SessionLasts ==
    ASSUME SessionSound, SessionChange, window' \in BOOLEAN,
           process' \in {"running", "crashed", "starved", "exited"},
           \/ listed' = listed /\ (connected' = connected /\ managers' = managers)
           \/ connected' /\ listed' \in {managers', None}
           \/ EndSession
    PROVE  SessionSound'
<1> USE DEF None
<1>0. /\ made \in 0..MaxSessions /\ MaxSessions \in Nat /\ connected \in BOOLEAN
      /\ client \in 0..made /\ managers \in 0..made /\ listed \in 0..made
      /\ (connected => managers # None /\ client \in {managers, None})
      /\ (~connected => managers = None)
      /\ (listed # None => connected /\ listed = managers)
  BY SessionsAssumption DEF SessionSound, ListsOfThisServer
<1>1. CASE EndSession /\ connected
  <2>1. connected' = FALSE /\ client' = 0 /\ managers' = 0 /\ listed' = 0 /\ made' = made
    BY <1>1 DEF EndSession
  <2>2. ListsOfThisServer'
    BY <2>1 DEF ListsOfThisServer
  <2>3. 0 \in 0..made'
    BY <1>0, <2>1
  <2> QED
    BY <1>0, <2>1, <2>2, <2>3 DEF SessionSound
<1>2. CASE EndSession /\ ~connected
  <2>1. UNCHANGED <<client, managers, listed, made>> /\ connected' = FALSE
    BY <1>2 DEF EndSession
  <2> QED
    BY <1>0, <1>2, <2>1 DEF SessionSound, ListsOfThisServer, Sessions
<1>3. CASE ~EndSession
  <2>1. \/ listed' = listed /\ connected' = connected /\ managers' = managers
        \/ connected' /\ listed' \in {managers', None}
    BY <1>3
  <2>2. CASE UNCHANGED <<connected, client, managers, made>>
    BY <1>0, <2>1, <2>2 DEF SessionSound, ListsOfThisServer, Sessions
  <2>3. CASE /\ ~connected /\ NewSession /\ client' = made'
             /\ \/ connected' = TRUE /\ managers' = made'
                \/ UNCHANGED <<connected, managers>>
    <3>1. made' = made + 1 /\ made' \in 1..MaxSessions /\ listed = 0 /\ managers = 0
      BY <1>0, <2>3 DEF NewSession
    <3>2. CASE connected' = TRUE /\ managers' = made'
      <4>1. listed' \in {made', 0} /\ client' = made'
        BY <2>1, <2>3, <3>1, <3>2
      <4>2. ListsOfThisServer'
        BY <3>2, <4>1 DEF ListsOfThisServer
      <4>3. made' \in 0..MaxSessions /\ 0 \in 0..made' /\ made' \in 0..made' /\ made' # 0
        BY <1>0, <3>1
      <4> QED
        BY <3>2, <4>1, <4>2, <4>3 DEF SessionSound
    <3>3. CASE UNCHANGED <<connected, managers>>
      BY <1>0, <2>1, <2>3, <3>1, <3>3 DEF SessionSound, ListsOfThisServer, Sessions
    <3> QED
      BY <2>3, <3>2, <3>3
  <2>4. CASE client' = None /\ UNCHANGED <<connected, managers, made>>
    BY <1>0, <2>1, <2>4 DEF SessionSound, ListsOfThisServer, Sessions
  <2> QED
    BY <1>3, <2>2, <2>3, <2>4 DEF SessionChange
<1> QED
  BY <1>1, <1>2, <1>3

(* A step of the window that leaves the transfers alone and crashes        *)
(* nothing.                                                                *)
LEMMA WindowStep ==
    ASSUME IInv, SessionChange, CallsSound', ClientExplained', UNCHANGED transfer,
           process' \in {"running", "starved", "exited"}, window' \in BOOLEAN,
           queue' \in Seq(Transfers \X BOOLEAN),
           \/ listed' = listed /\ (connected' = connected /\ managers' = managers)
           \/ connected' /\ listed' \in {managers', None}
           \/ EndSession
    PROVE  IInv'
<1>1. SessionSound' /\ TransfersSound'
  BY SessionLasts, TransfersLast DEF IInv
<1>2. CrashNeedsEndedSession'
  BY DEF CrashNeedsEndedSession
<1> QED
  BY <1>1, <1>2 DEF IInv

(* A step that leaves the session and the boxes alone.                     *)
LEMMA ThreadStep ==
    ASSUME IInv, TransfersSound', CrashNeedsEndedSession', UNCHANGED <<window, session, calls>>,
           process' \in {"running", "crashed", "starved", "exited"},
           queue' \in Seq(Transfers \X BOOLEAN)
    PROVE  IInv'
<1>1. UNCHANGED <<connected, client, managers, made, listed, calls, window>>
  BY DEF session
<1>2. SessionChange
  BY <1>1 DEF SessionChange
<1>3. SessionSound'
  BY <1>1, <1>2, SessionLasts DEF IInv, SessionSound
<1>4. CallsSound' /\ ClientExplained'
  BY <1>1 DEF IInv, CallsSound, CallSound, ClientExplained, FailedBehind
<1> QED
  BY <1>3, <1>4 DEF IInv

----------------------------------------------------------------------------
(* The steps.                                                              *)

(* A box opens.                                                            *)
LEMMA OpenSound ==
    ASSUME IInv, NEW kind \in {"notice", "failed", "open", "save", "confirm", "result"},
           NEW s \in Sessions \cup {None}, Open(kind, s), SessionChange,
           connected => connected', s <= made',
           kind \in Asking => connected /\ s = managers /\ UNCHANGED <<connected, client, managers, made>>,
           kind = "failed" => ~connected',
           kind # "result" => Enabled
    PROVE  CallsSound'
<1>1. PICK d : d = [kind |-> kind, of |-> s, answer |-> "none", disables |-> Enabled]
  OBVIOUS
<1>2. d \in Calls /\ calls \in Seq(Calls)
  BY <1>1 DEF Calls, Enabled, IInv, CallsSound
<1>3. calls' = <<d>> \o calls
  BY <1>1 DEF Open
<1>4. /\ calls' \in Seq(Calls)
      /\ Len(calls') = Len(calls) + 1 /\ Len(calls) \in Nat
      /\ calls'[1] = d
      /\ \A i \in 2..(Len(calls) + 1) : calls'[i] = calls[i - 1]
  BY <1>2, <1>3, Pushing
<1>5. CallSound(d)'
  <2>1. kind \in Asking => s # None /\ connected' /\ s = managers'
    BY DEF IInv, SessionSound
  <2> QED
    BY <1>1, <2>1 DEF CallSound, Asking
<1>6. ASSUME NEW i \in 1..Len(calls'), i # 1
      PROVE  CallSound(calls[i])'
  <2>1. i - 1 \in 1..Len(calls) /\ calls'[i] = calls[i - 1]
    BY <1>4, <1>6
  <2>2. PICK c \in Calls : c = calls[i - 1]
    BY <1>2, <2>1
  <2>3. CallSound(c) /\ Kept(c, c)
    BY <2>1, <2>2 DEF IInv, CallsSound, Kept
  <2>4. CallSound(c)'
    BY <2>3, CallLasts DEF IInv
  <2> QED
    BY <2>1, <2>2, <2>4 DEF CallSound
<1>7. CallSound(calls[1])'
  BY <1>4, <1>5 DEF CallSound
<1> QED
  BY <1>4, <1>6, <1>7 DEF CallsSound

LEMMA OpenExplained ==
    ASSUME IInv, NEW kind, NEW s, Open(kind, s),
           kind = "failed" \/ (UNCHANGED <<connected, client>>)
    PROVE  ClientExplained'
<1>1. PICK d : d = [kind |-> kind, of |-> s, answer |-> "none", disables |-> Enabled]
  OBVIOUS
<1>2. calls' = <<d>> \o calls /\ calls \in Seq(Calls) /\ Len(calls) \in Nat
  BY <1>1 DEF Open, IInv, CallsSound
<1>3. /\ Len(calls') = Len(calls) + 1
      /\ calls'[1] = d
      /\ \A i \in 1..Len(calls) : calls'[i + 1] = calls[i]
  BY <1>2
<1>4. CASE kind = "failed"
  BY <1>1, <1>2, <1>3, <1>4 DEF ClientExplained, FailedBehind
<1>5. CASE UNCHANGED <<connected, client>>
  <2>1. ASSUME NEW i \in 1..Len(calls), calls[i].kind = "failed"
        PROVE  FailedBehind(calls')
    <3>1. i + 1 \in 1..Len(calls') /\ calls'[i + 1].kind = "failed"
      BY <1>2, <1>3, <2>1
    <3> QED
      BY <3>1 DEF FailedBehind
  <2> QED
    BY <1>5, <2>1 DEF IInv, ClientExplained, FailedBehind
<1> QED
  BY <1>4, <1>5

(* No question is open while the user is at the window.                    *)
LEMMA NothingAsked ==
    ASSUME IInv, Enabled
    PROVE  \A i \in 1..Len(calls) : calls[i].kind \in Asking => calls[i].answer # "none"
  BY DEF IInv, CallsSound, CallSound, Enabled, Unanswered, Asking

(* A step that crashes, and leaves all else alone.                         *)
LEMMA CrashStep ==
    ASSUME IInv, process' = "crashed", UNCHANGED <<window, session, calls, queue, transfer>>,
           ClientLost \/ \E t \in Transfers : transfer[t].at \in Live /\ transfer[t].asked # client
    PROVE  IInv'
<1>1. UNCHANGED <<connected, client, managers, made>>
  BY DEF session
<1>2. TransfersSound' /\ CrashNeedsEndedSession'
  BY <1>1 DEF IInv, TransfersSound, TransferSound, CrashNeedsEndedSession, ClientLost, Live
<1> QED
  BY <1>2, ThreadStep DEF IInv

(* The window goes, with all boxes.                                        *)
LEMMA DestroySound ==
    ASSUME IInv, NEW waiting, AmongCalls(waiting), FailedBehind(calls) => FailedBehind(waiting),
           DestroyWindow(waiting), process = "running"
    PROVE  IInv'
<1>1. EndSession /\ window' = FALSE /\ queue' = <<>> /\ UNCHANGED <<process, transfer>> /\ SessionChange
  BY DEF DestroyWindow, SessionChange
<1>2. /\ AmongCalls(calls') /\ (FailedBehind(waiting) => FailedBehind(calls'))
      /\ \A i \in 1..Len(calls') : calls'[i].answer # "none"
  BY AbandonedCalls DEF IInv
<1>3. CallsSound'
  BY <1>1, <1>2, CallsLast DEF IInv
<1>4. ClientExplained'
  BY <1>1, <1>2 DEF IInv, ClientExplained, EndSession
<1>5. queue' \in Seq(Transfers \X BOOLEAN)
  <2>1. \A S : <<>> \in Seq(S)
    OBVIOUS
  <2> QED
    BY <1>1, <2>1
<1>6. window' \in BOOLEAN /\ process' = "running"
  BY <1>1
<1> QED
  BY <1>1, <1>3, <1>4, <1>5, <1>6, WindowStep

LEMMA UserSound == ASSUME IInv, User PROVE IInv'
<1> USE DEF IInv
<1>1. /\ client \in Sessions \cup {None} /\ managers \in Sessions \cup {None} /\ None \in Sessions \cup {None}
      /\ managers <= made /\ None <= made /\ made \in Nat /\ window \in BOOLEAN
  BY DEF SessionSound, Sessions, None
<1>2. CASE Complain \/ UploadFile \/ DownloadFile \/ AskToClose
  <2> USE DEF Complain, UploadFile, DownloadFile, AskToClose, session
  <2>1. UNCHANGED <<process, window, connected, client, managers, made, listed, transfer, queue>>
    BY <1>2
  <2>2. PICK kind \in {"notice", "open", "save", "confirm"}, s \in {managers, None} :
            Open(kind, s) /\ (kind \in Asking => connected /\ s = managers)
    BY <1>2 DEF Asking
  <2>3. Enabled /\ process = "running"
    BY <1>2 DEF AtWindow, Pumping
  <2>4. SessionChange
    BY <2>1 DEF SessionChange
  <2>5. CallsSound'
    BY <1>1, <2>1, <2>2, <2>3, <2>4, OpenSound
  <2>6. ClientExplained'
    BY <2>1, <2>2, OpenExplained
  <2> QED
    BY <1>1, <2>1, <2>3, <2>4, <2>5, <2>6, WindowStep
<1>3. CASE Connect
  <2>1. /\ SessionChange /\ connected' = TRUE /\ managers' = made' /\ listed' \in {made', None}
        /\ UNCHANGED <<process, window, calls, queue, transfer>> /\ process = "running"
    BY <1>3 DEF Connect, SessionChange, AtWindow, Pumping
  <2>2. CallsSound'
    BY <2>1, SameCalls, CallsLast
  <2>3. ClientExplained'
    BY <2>1 DEF ClientExplained
  <2> QED
    BY <1>1, <2>1, <2>2, <2>3, WindowStep
<1>4. CASE ConnectFails
  <2>1. /\ SessionChange /\ NewSession /\ Open("failed", made') /\ process = "running" /\ Enabled
        /\ ~connected /\ UNCHANGED <<process, window, connected, managers, listed, queue, transfer>>
    BY <1>4 DEF ConnectFails, SessionChange, AtWindow, Pumping
  <2>2. PICK s \in Sessions \cup {None} : s = made'
    BY <1>1, <2>1 DEF NewSession, Sessions
  <2>3. s <= made'
    BY <1>1, <2>1, <2>2 DEF NewSession
  <2>4. Open("failed", s)
    BY <2>1, <2>2
  <2>5. CallsSound'
    BY <2>1, <2>3, <2>4, OpenSound DEF Asking
  <2>6. ClientExplained'
    BY <2>4, OpenExplained
  <2> QED
    BY <1>1, <2>1, <2>5, <2>6, WindowStep
<1>5. CASE DisconnectFromServer
  <2>1. /\ SessionChange /\ EndSession /\ connected /\ process = "running" /\ Enabled
        /\ UNCHANGED <<process, window, calls, queue, transfer>>
    BY <1>5 DEF DisconnectFromServer, SessionChange, AtWindow, Pumping
  <2>2. CallsSound'
    BY <2>1, SameCalls, CallsLast, NothingAsked
  <2>3. ClientExplained'
    BY <2>1 DEF ClientExplained, EndSession
  <2> QED
    BY <1>1, <2>1, <2>2, <2>3, WindowStep
<1>6. CASE Refresh
  <2>1. /\ UNCHANGED <<process, window, connected, client, managers, made, calls, queue, transfer>>
        /\ connected /\ client # None /\ listed' \in {client, None} /\ process = "running"
    BY <1>6 DEF Refresh, RefreshLists, ClientLost, AtWindow, Pumping
  <2>2. client = managers
    BY <2>1 DEF SessionSound
  <2>3. SessionChange
    BY <2>1 DEF SessionChange
  <2>4. CallsSound'
    BY <2>1, <2>3, SameCalls, CallsLast
  <2>5. ClientExplained'
    BY <2>1 DEF ClientExplained
  <2> QED
    BY <1>1, <2>1, <2>2, <2>3, <2>4, <2>5, WindowStep
<1>7. CASE AskWithoutClient
  <2>1. process' = "crashed" /\ UNCHANGED <<window, session, calls, queue, transfer>> /\ ClientLost
    BY <1>7 DEF AskWithoutClient
  <2> QED
    BY <2>1, CrashStep
<1>8. CASE Close
  <2>1. /\ DestroyWindow(calls) /\ ~connected /\ EndSession /\ window' = FALSE /\ queue' = <<>>
        /\ UNCHANGED <<process, transfer>> /\ process = "running"
    BY <1>8 DEF Close, DestroyWindow, AtWindow, Pumping
  <2>2. FailedBehind(calls) => FailedBehind(calls)
    OBVIOUS
  <2> QED
    BY <2>1, <2>2, SameCalls, DestroySound
<1>9. ASSUME NEW i \in 1..Len(calls), NEW answer \in {"no", "yes"}, AnswerBox(i, answer)
      PROVE  IInv'
  <2>1. UNCHANGED <<process, window, connected, client, managers, made, listed, queue, transfer>>
        /\ process = "running"
    BY <1>9 DEF AnswerBox, session, Pumping
  <2>2. AmongCalls(calls') /\ (FailedBehind(calls) => FailedBehind(calls'))
    BY <1>9, AnsweredCalls
  <2>3. SessionChange
    BY <2>1 DEF SessionChange
  <2>4. CallsSound'
    BY <2>1, <2>2, <2>3, CallsLast
  <2>5. ClientExplained'
    BY <2>1, <2>2 DEF ClientExplained
  <2> QED
    BY <1>1, <2>1, <2>3, <2>4, <2>5, WindowStep
<1> QED
  BY <1>2, <1>3, <1>4, <1>5, <1>6, <1>7, <1>8, <1>9 DEF User

(* The innermost handler, which has its answer.                            *)
LEMMA ReturnFacts ==
    ASSUME IInv, NEW kind, NEW answer, Returns(kind, answer)
    PROVE  /\ calls # <<>> /\ calls \in Seq(Calls) /\ process = "running"
           /\ 1 \in 1..Len(calls)
           /\ calls[1] = Head(calls) /\ calls[1].kind = kind /\ calls[1].answer = answer
           /\ CallSound(calls[1])
           /\ AmongCalls(Tail(calls))
           /\ kind # "failed" /\ FailedBehind(calls) => FailedBehind(Tail(calls))
<1>1. calls # <<>> /\ calls \in Seq(Calls) /\ process = "running" /\ Head(calls).kind = kind /\ Head(calls).answer = answer
  BY DEF Returns, IInv, CallsSound
<1>2. /\ Len(Tail(calls)) = Len(calls) - 1 /\ Len(calls) \in Nat \ {0} /\ Head(calls) = calls[1]
      /\ \A i \in 2..Len(calls) : Tail(calls)[i - 1] = calls[i]
  BY <1>1, Popping
<1>3. 1 \in 1..Len(calls)
  BY <1>2
<1>4. ASSUME kind # "failed", FailedBehind(calls)
      PROVE  FailedBehind(Tail(calls))
  <2>1. PICK i \in 1..Len(calls) : calls[i].kind = "failed"
    BY <1>4 DEF FailedBehind
  <2>2. i # 1
    BY <1>1, <1>2, <1>4, <2>1
  <2>3. i - 1 \in 1..Len(Tail(calls)) /\ Tail(calls)[i - 1].kind = "failed"
    BY <1>2, <2>1, <2>2
  <2> QED
    BY <2>3 DEF FailedBehind
<1> QED
  BY <1>1, <1>2, <1>3, <1>4, TailCalls DEF IInv, CallsSound

(* A handler that returns without touching the session.                    *)
LEMMA ReturnStep ==
    ASSUME IInv, NEW kind, NEW answer, Returns(kind, answer), kind # "failed",
           calls' = Tail(calls), UNCHANGED <<connected, client, managers, made>>
    PROVE  SessionChange /\ CallsSound' /\ ClientExplained'
<1>1. AmongCalls(calls') /\ (FailedBehind(calls) => FailedBehind(calls'))
  BY ReturnFacts
<1>2. SessionChange
  BY DEF SessionChange
<1>3. CallsSound'
  BY <1>1, <1>2, CallsLast DEF IInv
<1>4. ClientExplained'
  BY <1>1 DEF IInv, ClientExplained
<1> QED
  BY <1>2, <1>3, <1>4

LEMMA SpawnSound == ASSUME IInv, NEW t \in Transfers, Spawn(t) PROVE IInv'
<1> DEFINE new == [Idle EXCEPT !.at = "spawned", !.asked = Head(calls).of]
<1>1. PICK kind \in {"open", "save"}, s \in {new, [new EXCEPT !.kind = "download"]} :
          Returns(kind, "yes") /\ transfer' = [transfer EXCEPT ![t] = s]
  BY DEF Spawn, Become, Idle
<1>2. /\ calls' = Tail(calls)
      /\ UNCHANGED <<process, window, connected, client, managers, made, listed, queue>>
  BY DEF Spawn, session
<1>3. PICK c \in Calls : c = Head(calls) /\ c.kind = kind /\ CallSound(c) /\ process = "running"
  BY <1>1, ReturnFacts, Popping
<1>4. c.of \in Sessions /\ c.of # None /\ c.of <= made /\ (c.of = client => connected)
  BY <1>3 DEF CallSound, Calls, Asking
<1>5. s \in TransferStates /\ s.asked = c.of /\ s.at = "spawned"
  BY <1>3, <1>4 DEF Idle, TransferStates, None
<1>6. TransferSound(s)
  BY <1>4, <1>5 DEF TransferSound
<1>7. /\ transfer' \in [Transfers -> TransferStates]
      /\ \A u \in Transfers : transfer'[u] = IF u = t THEN s ELSE transfer[u]
  BY <1>1, <1>5 DEF IInv, TransfersSound
<1>8. TransfersSound'
  <2>1. \A u \in Transfers : TransferSound(transfer'[u])
    BY <1>6, <1>7 DEF IInv, TransfersSound
  <2> QED
    BY <1>2, <1>7, <2>1 DEF TransfersSound, TransferSound
<1>9. SessionChange /\ CallsSound' /\ ClientExplained'
  BY <1>1, <1>2, ReturnStep
<1>10. SessionSound' /\ CrashNeedsEndedSession' /\ queue' \in Seq(Transfers \X BOOLEAN)
  BY <1>2, <1>3 DEF IInv, SessionSound, ListsOfThisServer, CrashNeedsEndedSession
<1> QED
  BY <1>8, <1>9, <1>10 DEF IInv

LEMMA ReturnSound == ASSUME IInv, Return PROVE IInv'
<1>0. window \in BOOLEAN /\ queue \in Seq(Transfers \X BOOLEAN)
  BY DEF IInv, SessionSound
<1>1. CASE ReturnNo
  <2>1. PICK kind \in {"notice", "open", "save", "confirm", "result"} : Returns(kind, "no")
    BY <1>1 DEF ReturnNo
  <2>2. calls' = Tail(calls) /\ UNCHANGED <<process, window, connected, client, managers, made, listed, queue, transfer>>
    BY <1>1 DEF ReturnNo, session
  <2>3. process = "running"
    BY <2>1, ReturnFacts
  <2> QED
    BY <1>0, <2>1, <2>2, <2>3, ReturnStep, WindowStep
<1>2. CASE ReturnFailed
  <2>1. Returns("failed", "no") /\ calls' = Tail(calls) /\ client' = None
        /\ UNCHANGED <<process, window, connected, managers, made, listed, queue, transfer>>
    BY <1>2 DEF ReturnFailed
  <2>2. AmongCalls(calls') /\ process = "running"
    BY <2>1, ReturnFacts
  <2>3. SessionChange
    BY <2>1 DEF SessionChange
  <2>4. CallsSound'
    BY <2>1, <2>2, <2>3, CallsLast DEF IInv
  <2>5. ClientExplained'
    BY <2>1 DEF ClientExplained
  <2> QED
    BY <1>0, <2>1, <2>2, <2>3, <2>4, <2>5, WindowStep
<1>3. CASE SpawnFails
  <2>1. process' = "starved" /\ UNCHANGED <<window, session, calls, queue, transfer>>
    BY <1>3 DEF SpawnFails
  <2>2. TransfersSound' /\ CrashNeedsEndedSession'
    BY <2>1 DEF IInv, TransfersSound, TransferSound, CrashNeedsEndedSession, session
  <2> QED
    BY <1>0, <2>1, <2>2, ThreadStep
<1>4. CASE ReturnConfirmed /\ window
  <2>1. /\ Returns("confirm", "yes") /\ DestroyWindow(Tail(calls))
    BY <1>4 DEF ReturnConfirmed
  <2>2. AmongCalls(Tail(calls)) /\ (FailedBehind(calls) => FailedBehind(Tail(calls))) /\ process = "running"
    BY <2>1, ReturnFacts
  <2> QED
    BY <2>1, <2>2, DestroySound
<1>5. CASE ReturnConfirmed /\ ~window
  <2>1. Returns("confirm", "yes") /\ calls' = Tail(calls)
        /\ UNCHANGED <<process, window, connected, client, managers, made, listed, queue, transfer>>
    BY <1>5 DEF ReturnConfirmed, session
  <2>2. process = "running"
    BY <2>1, ReturnFacts
  <2> QED
    BY <1>0, <2>1, <2>2, ReturnStep, WindowStep
<1> QED
  BY <1>1, <1>2, <1>3, <1>4, <1>5, SpawnSound DEF Return

LEMMA MessageSound == ASSUME IInv, Message PROVE IInv'
<1> USE DEF IInv
<1>1. CASE Dispatch
  <2>1. /\ UNCHANGED <<process, window, connected, client, managers, made, transfer>>
        /\ queue # <<>> /\ queue' = Tail(queue) /\ Open("result", None) /\ process = "running"
        /\ listed' = listed \/ (connected /\ client # None /\ listed' \in {client, None})
    BY <1>1 DEF Dispatch, Pumping, RefreshLists, ClientLost
  <2>2. SessionChange
    BY <2>1 DEF SessionChange
  <2>3. queue' \in Seq(Transfers \X BOOLEAN)
    <3>1. \A S : queue \in Seq(S) => Tail(queue) \in Seq(S)
      BY <2>1
    <3> QED
      BY <2>1, <3>1
  <2>4. None \in Sessions \cup {None} /\ None <= made'
    BY <2>1 DEF SessionSound, None
  <2>5. CallsSound'
    BY <2>1, <2>2, <2>4, OpenSound DEF Asking
  <2>6. ClientExplained'
    BY <2>1, OpenExplained
  <2>7. listed' = listed \/ (connected' /\ listed' \in {managers', None})
    BY <2>1 DEF SessionSound
  <2>8. window' \in BOOLEAN
    BY <2>1 DEF SessionSound
  <2> QED
    BY <2>1, <2>2, <2>3, <2>5, <2>6, <2>7, <2>8, WindowStep
<1>2. CASE DispatchWithoutClient
  <2>1. process' = "crashed" /\ UNCHANGED <<window, session, calls, queue, transfer>> /\ ClientLost
    BY <1>2 DEF DispatchWithoutClient
  <2> QED
    BY <2>1, CrashStep
<1> QED
  BY <1>1, <1>2 DEF Message

LEMMA ExitSound == ASSUME IInv, Exit PROVE IInv'
<1>1. process' = "exited" /\ UNCHANGED <<window, session, calls, queue, transfer>>
  BY DEF Exit
<1>2. TransfersSound' /\ CrashNeedsEndedSession'
  BY <1>1 DEF IInv, TransfersSound, TransferSound, CrashNeedsEndedSession, session
<1> QED
  BY <1>1, <1>2, ThreadStep DEF IInv

(* A step of one transfer, which takes it to s.                            *)
LEMMA OneTransfer ==
    ASSUME IInv, NEW t \in Transfers, NEW s \in TransferStates, Become(t, s), TransferSound(s),
           UNCHANGED <<process, window, session, calls>>, process = "running",
           queue' \in Seq(Transfers \X BOOLEAN)
    PROVE  IInv'
<1>1. /\ transfer' \in [Transfers -> TransferStates]
      /\ \A u \in Transfers : transfer'[u] = IF u = t THEN s ELSE transfer[u]
  BY DEF Become, IInv, TransfersSound
<1>2. UNCHANGED <<connected, client, managers, made>>
  BY DEF session
<1>3. \A u \in Transfers : TransferSound(transfer'[u])
  BY <1>1 DEF IInv, TransfersSound
<1>4. TransfersSound'
  BY <1>1, <1>2, <1>3 DEF TransfersSound, TransferSound
<1>5. CrashNeedsEndedSession'
  BY DEF CrashNeedsEndedSession
<1> QED
  BY <1>4, <1>5, ThreadStep

LEMMA ThreadSound ==
    ASSUME IInv, NEW t \in Transfers, Start(t) \/ End(t)
    PROVE  IInv'
<1> USE DEF IInv
<1>1. transfer[t] \in TransferStates /\ TransferSound(transfer[t]) /\ queue \in Seq(Transfers \X BOOLEAN)
  BY DEF TransfersSound
<1>2. CASE Begin(t)
  <2> DEFINE s == [transfer[t] EXCEPT
                     !.at = "running", !.uses = managers]
  <2>1. /\ process = "running" /\ transfer[t].at = "spawned" /\ managers # None
        /\ Become(t, s) /\ UNCHANGED <<process, window, session, calls, queue>>
    BY <1>2 DEF Begin
  <2>2. managers \in Sessions
    BY <2>1 DEF SessionSound, Sessions, None
  <2>3. s \in TransferStates /\ s.asked = transfer[t].asked /\ s.uses = managers
    BY <1>1, <2>2 DEF TransferStates
  <2>4. transfer[t].asked = client => connected /\ managers = client
    BY <1>1, <2>1 DEF TransferSound, Live, SessionSound
  <2> HIDE DEF s
  <2>5. TransferSound(s)
    BY <1>1, <2>1, <2>3, <2>4 DEF TransferSound, Live
  <2> QED
    BY <1>1, <2>1, <2>3, <2>5, OneTransfer
<1>3. CASE BeginWithoutManager(t) \/ UseDestroyed(t)
  <2>1. process' = "crashed" /\ UNCHANGED <<window, session, calls, queue, transfer>>
    BY <1>3 DEF BeginWithoutManager, UseDestroyed
  <2>2. transfer[t].at \in Live /\ transfer[t].asked # client
    <3>1. CASE BeginWithoutManager(t)
      BY <1>1, <3>1 DEF BeginWithoutManager, TransferSound, Live, SessionSound
    <3>2. CASE UseDestroyed(t)
      BY <1>1, <3>2 DEF UseDestroyed, TransferSound, Live, SessionSound
    <3> QED
      BY <1>3, <3>1, <3>2
  <2> QED
    BY <2>1, <2>2, CrashStep
<1>4. ASSUME NEW success \in BOOLEAN, Finish(t, success) PROVE IInv'
  <2> DEFINE s == [Idle EXCEPT !.at = "over", !.kind = transfer[t].kind]
  <2> DEFINE m == <<t, success>>
  <2>1. /\ process = "running" /\ Become(t, s)
        /\ queue' = queue \/ queue' = Append(queue, m)
        /\ UNCHANGED <<process, window, session, calls>>
    BY <1>4 DEF Finish
  <2>2. s \in TransferStates /\ s.at = "over"
    BY <1>1 DEF TransferStates, Idle, None
  <2>3. queue' \in Seq(Transfers \X BOOLEAN)
    <3>1. m \in Transfers \X BOOLEAN
      OBVIOUS
    <3> HIDE DEF m
    <3>2. \A S : queue \in Seq(S) /\ m \in S => Append(queue, m) \in Seq(S)
      OBVIOUS
    <3>3. Append(queue, m) \in Seq(Transfers \X BOOLEAN)
      BY <1>1, <3>1, <3>2
    <3> QED
      BY <1>1, <2>1, <3>3
  <2> HIDE DEF s
  <2>4. TransferSound(s)
    BY <2>2 DEF TransferSound, Live
  <2> QED
    BY <2>1, <2>2, <2>3, <2>4, OneTransfer
<1> QED
  BY <1>2, <1>3, <1>4 DEF Start, End

LEMMA StepSound == IInv /\ [Next]_vars => IInv'
<1> SUFFICES ASSUME IInv, [Next]_vars PROVE IInv'
  OBVIOUS
<1>1. CASE UNCHANGED vars
  BY <1>1 DEF vars, IInv, CallsSound, CallSound, ClientExplained, FailedBehind, SessionSound,
              TransfersSound, TransferSound, CrashNeedsEndedSession, ClientLost, ListsOfThisServer
<1> QED
  BY <1>1, UserSound, ReturnSound, ExitSound, MessageSound, ThreadSound DEF Next

LEMMA InitSound == Init => IInv
<1> SUFFICES ASSUME Init PROVE IInv
  OBVIOUS
<1> USE DEF Init, None, Sessions
<1>1. CallsSound /\ ClientExplained
  BY DEF CallsSound, ClientExplained
<1>2. SessionSound
  <2>1. window \in BOOLEAN /\ connected \in BOOLEAN /\ ~connected
    OBVIOUS
  <2>2. /\ process = "running" /\ made \in 0..MaxSessions
        /\ client \in 0..made /\ managers \in 0..made /\ listed \in 0..made
        /\ managers = None /\ listed = None
    OBVIOUS
  <2> QED
    BY <2>1, <2>2 DEF SessionSound, ListsOfThisServer
<1>3. Idle \in TransferStates
  BY DEF Idle, TransferStates
<1>4. transfer \in [Transfers -> TransferStates] /\ \A t \in Transfers : transfer[t] = Idle
  BY <1>3
<1>5. TransfersSound /\ CrashNeedsEndedSession
  BY <1>4 DEF TransfersSound, TransferSound, Live, CrashNeedsEndedSession, Idle
<1>6. queue \in Seq(Transfers \X BOOLEAN)
  OBVIOUS
<1> QED
  BY <1>1, <1>2, <1>5, <1>6 DEF IInv

LEMMA Invariance == Spec => []IInv
<1> QED
  BY InitSound, StepSound, PTL DEF Spec

----------------------------------------------------------------------------

(* The types, and what isConnected says of the client and the managers.    *)
THEOREM GuiTypeCorrect == Spec => []TypeOK
<1>1. IInv => TypeOK
  BY DEF IInv, CallsSound, ClientExplained, FailedBehind, SessionSound, TransfersSound,
         TypeOK, Sessions, None
<1> QED
  BY <1>1, Invariance, PTL

(* However boxes nest and in whatever order they are answered, the lists   *)
(* never show files of another server than the managers talk to.           *)
THEOREM ListsAreOfThisServer == Spec => []ListsOfThisServer
<1>1. IInv => ListsOfThisServer
  BY DEF IInv, SessionSound
<1> QED
  BY <1>1, Invariance, PTL

(* However boxes nest, a session lasts until the user has answered every   *)
(* question that was asked in it.                                          *)
THEOREM DialogsKeepTheSession == Spec => []DialogKeepsSession
<1>1. IInv => DialogKeepsSession
  BY DEF IInv, CallsSound, CallSound, Asking, DialogKeepsSession, Unanswered
<1> QED
  BY <1>1, Invariance, PTL

(* The process crashes only over a session that has ended or has lost its  *)
(* client.                                                                 *)
THEOREM CrashOnlyAfterTheEnd == Spec => []CrashNeedsEndedSession
<1>1. IInv => CrashNeedsEndedSession
  BY DEF IInv
<1> QED
  BY <1>1, Invariance, PTL

(* While the window stays connected, its managers stay and its client is   *)
(* taken only by the message of a connection that failed earlier.          *)
THEOREM ClientIsTakenLate == Spec => OnlyLateFailureTakesClient
<1> DEFINE A == connected /\ connected' =>
                   /\ managers' = managers
                   /\ client' = client
                      \/ /\ Head(calls).kind = "failed" /\ Head(calls).of < managers
                         /\ client' = None
<1>1. IInv /\ [Next]_vars => [A]_vars
  <2> SUFFICES ASSUME IInv, Next, connected, connected' PROVE A
    BY DEF vars
  <2>1. CASE User
    BY <2>1 DEF User, Connect, ConnectFails, Complain, DisconnectFromServer, Refresh, AskWithoutClient,
                UploadFile, DownloadFile, AskToClose, Close, AnswerBox, EndSession, session
  <2>2. CASE ReturnFailed
    <3>1. Returns("failed", "no") /\ client' = None /\ managers' = managers
      BY <2>2 DEF ReturnFailed
    <3>2. calls[1] = Head(calls) /\ calls[1].kind = "failed" /\ CallSound(calls[1])
      BY <3>1, ReturnFacts
    <3> QED
      BY <3>1, <3>2 DEF CallSound
  <2>3. CASE Return /\ ~ReturnFailed
    BY <2>3 DEF Return, ReturnNo, SpawnFails, ReturnConfirmed, DestroyWindow, EndSession, Spawn, session
  <2>4. CASE Exit \/ Message \/ \E t \in Transfers : Start(t) \/ End(t)
    BY <2>4 DEF Exit, Message, Dispatch, DispatchWithoutClient, Start, Begin, BeginWithoutManager,
                End, UseDestroyed, Finish, session
  <2> QED
    BY <2>1, <2>2, <2>3, <2>4 DEF Next
<1> QED
  BY <1>1, Invariance, PTL DEF Spec, OnlyLateFailureTakesClient

=============================================================================
