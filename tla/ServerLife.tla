----------------------------- MODULE ServerLife -----------------------------
(***************************************************************************)
(* The life of the metadata server's process: main and the signal handler  *)
(* (metadata-server/src/main.cpp), MetadataServer with its accept thread   *)
(* and its detached client threads (server.cpp), and the start and stop of *)
(* the keep-alive thread (node_manager.cpp).  What the threads do with the *)
(* registry and the catalogue is in NodeRegistry and FileCatalog; here it  *)
(* matters whether these still exist.                                      *)
(*                                                                         *)
(* The server is built for two platforms.  On Windows a signal handler     *)
(* runs in a thread of its own, and closing a socket ends an accept that   *)
(* waits on it.  On POSIX the handler interrupts the main thread, and an   *)
(* accept that waits is not ended by the closing of its socket.            *)
(***************************************************************************)
EXTENDS Naturals, FiniteSets

CONSTANTS
    Clients,    \* connections that may be made to the server
    Platforms   \* a subset of {"windows", "posix"}

ASSUME PlatformsAssumption == Platforms \subseteq {"windows", "posix"}

VARIABLES
    platform,       \* the platform of this run of the server
    process,        \* "running", "exited" or, after std::terminate, "terminated";
                    \* "starved" if what it failed on was the start of a thread
    pc,             \* <<function, step>> of main and of the signal handler
    running,        \* MetadataServer::running
    listening,      \* listenSocket is open
    acceptThread,   \* the std::thread object: nothing, "joinable" or "joined"
    acceptor,       \* where AcceptLoop is
    kaRunning,      \* NodeManager::running
    keepAliveThread,
    keepAlive,      \* where the keep-alive loop is
    client          \* where each connection and its thread are

vars == <<platform, process, pc, running, listening, acceptThread, acceptor,
          kaRunning, keepAliveThread, keepAlive, client>>

network   == <<listening, client>>
accepting == <<acceptThread, acceptor>>
checking  == <<kaRunning, keepAliveThread, keepAlive>>

(* The functions main and the handler are in.  Shutdown is called in three *)
(* of them, "main", "handler" and "destructor"; "members" is the end of    *)
(* the destructor, which destroys the server member by member: the handler *)
(* of requests and the catalogue, then NodeManager, whose own destructor   *)
(* stops the keep-alive thread.                                            *)
Threads   == {"main", "signal"}
Functions == {"start", "main", "handler", "destructor", "members"}
Steps     == {"none", "network", "listen", "run", "spawn", "await", "joining", "shutdown",
              "close", "join", "stop", "stopSet", "stopJoin", "drop", "exit"}

(* Shutdown past its test.                                                 *)
Stopping(t) == pc[t][1] # "start" /\ pc[t][2] \in {"close", "join", "joining", "stop", "stopSet", "stopJoin"}

CatalogDestroyed  == pc["main"][1] = "members"
RegistryDestroyed == pc["main"] = <<"members", "exit">>

AtWork(c) == client[c] \in {"reading", "using"}

----------------------------------------------------------------------------

(* The server has been constructed and the signal handler registered.      *)
Init ==
    /\ platform \in Platforms
    /\ process = "running"
    /\ pc = [main |-> <<"start", "network">>, signal |-> <<"handler", "none">>]
    /\ running = FALSE
    /\ listening = FALSE
    /\ acceptThread = "none" /\ acceptor = "none"
    /\ kaRunning = FALSE /\ keepAliveThread = "none" /\ keepAlive = "none"
    /\ client = [c \in Clients |-> "away"]

Interrupted == platform = "posix" /\ pc["signal"][2] # "none"

(* Thread t is at a step and may take it; an interrupted main may not.     *)
At(t, step) ==
    /\ process = "running"
    /\ pc[t][2] = step
    /\ t = "main" => ~Interrupted

Enter(t, function, step) ==
    /\ pc' = [pc EXCEPT ![t] = <<function, step>>]
    /\ UNCHANGED <<platform, process>>

Goto(t, step) == Enter(t, pc[t][1], step)

End(how) ==
    /\ process' = how
    /\ UNCHANGED <<platform, pc>>

(* Slip: the destructor of NodeManager does nothing.                       *)
ReturnWithoutStop(t) ==
    CASE pc[t][1] = "handler"    -> Enter(t, "handler", "exit")
      [] pc[t][1] = "main"       -> Enter(t, "destructor", "shutdown")
      [] pc[t][1] = "destructor" -> Enter(t, "members", "drop")
      [] pc[t][1] = "members"    -> Enter(t, "members", "drop")

(* What follows a call of Shutdown, or of StopKeepAliveChecker by the      *)
(* destructor of NodeManager.                                              *)
Return(t) ==
    CASE pc[t][1] = "handler"    -> Enter(t, "handler", "exit")
      [] pc[t][1] = "main"       -> Enter(t, "destructor", "shutdown")
      [] pc[t][1] = "destructor" -> Enter(t, "members", "stop")
      [] pc[t][1] = "members"    -> Enter(t, "members", "drop")

----------------------------------------------------------------------------
(* Start.                                                                  *)

(* The constructor of std::thread throws when the system has no thread to  *)
(* give, at each of the three places where the server starts one; nothing  *)
(* catches the exception.                                                  *)
NoThreadLeft == End("starved")

(* Winsock, then StartKeepAliveChecker, which sets running before it       *)
(* starts the thread.                                                      *)
InitializeNetwork ==
    /\ At("main", "network")
    /\ \/ /\ kaRunning' = TRUE
          /\ keepAliveThread' = "joinable"
          /\ keepAlive' = "testing"
          /\ Goto("main", "listen")
       \/ /\ kaRunning' = TRUE
          /\ NoThreadLeft
          /\ UNCHANGED <<keepAliveThread, keepAlive>>
       \/ /\ Enter("main", "destructor", "shutdown")
          /\ UNCHANGED checking
    /\ UNCHANGED <<running, network, accepting>>

CreateListenSocket ==
    /\ At("main", "listen")
    /\ \/ listening' = TRUE /\ Goto("main", "run")
       \/ listening' = FALSE /\ Enter("main", "destructor", "shutdown")
    /\ UNCHANGED <<running, client, accepting, checking>>

Run ==
    /\ At("main", "run")
    /\ running' = TRUE
    /\ Goto("main", "spawn")
    /\ UNCHANGED <<network, accepting, checking>>

StartAcceptThread ==
    /\ At("main", "spawn")
    /\ \/ /\ acceptThread' = "joinable"
          /\ acceptor' = "testing"
          /\ Goto("main", "await")
       \/ NoThreadLeft /\ UNCHANGED accepting
    /\ UNCHANGED <<running, network, checking>>

(* joinable() in Run, and the join it leads to.                            *)
AwaitAcceptThread ==
    /\ At("main", "await")
    /\ IF acceptThread = "joinable"
       THEN Goto("main", "joining")
       ELSE Enter("main", "main", "shutdown")
    /\ UNCHANGED <<running, network, accepting, checking>>

----------------------------------------------------------------------------
(* Shutdown.                                                               *)

Signal ==
    /\ At("signal", "none")
    /\ Goto("signal", "shutdown")
    /\ UNCHANGED <<running, network, accepting, checking>>

(* Slip: Shutdown without its first test.                                  *)
ShutdownUntested(t) ==
    /\ At(t, "shutdown")
    /\ running' = FALSE
    /\ IF t = "signal" THEN Goto(t, "close") ELSE Return(t)
    /\ UNCHANGED <<network, accepting, checking>>

Shutdown(t) ==
    /\ At(t, "shutdown")
    /\ running' = FALSE
    /\ IF running THEN Goto(t, "close") ELSE Return(t)
    /\ UNCHANGED <<network, accepting, checking>>

CloseListenSocket(t) ==
    /\ At(t, "close")
    /\ listening' = FALSE
    /\ Goto(t, "join")
    /\ UNCHANGED <<running, client, accepting, checking>>

JoinAcceptThread(t) ==
    /\ At(t, "join")
    /\ Goto(t, IF acceptThread = "joinable" THEN "joining" ELSE "stop")
    /\ UNCHANGED <<running, network, accepting, checking>>

(* Slip: the accept thread is let go instead of waited for.                *)
AcceptThreadDetached(t) ==
    /\ At(t, "joining")
    /\ acceptThread' = "joined"
    /\ IF pc[t][1] = "start" THEN Enter(t, "main", "shutdown") ELSE Goto(t, "stop")
    /\ UNCHANGED <<running, network, acceptor, checking>>

(* The join returns when the thread has ended.                             *)
AcceptThreadJoined(t) ==
    /\ At(t, "joining")
    /\ acceptor = "done"
    /\ acceptThread' = "joined"
    /\ IF pc[t][1] = "start" THEN Enter(t, "main", "shutdown") ELSE Goto(t, "stop")
    /\ UNCHANGED <<running, network, acceptor, checking>>

(* To join a thread that another one is joining, or has joined since it    *)
(* was found joinable, is undefined: the join returns, as above, or fails  *)
(* with an exception that nothing catches.                                 *)
JoinFails(t) ==
    /\ \E step \in {"joining", "stopJoin"} :
          /\ At(t, step)
          /\ \/ \E u \in Threads \ {t} : pc[u][2] = step
             \/ (IF step = "joining" THEN acceptThread ELSE keepAliveThread) = "joined"
    /\ End("terminated")
    /\ UNCHANGED <<running, network, accepting, checking>>

(* StopKeepAliveChecker, called by Cleanup and by ~NodeManager.            *)
StopKeepAliveChecker(t) ==
    /\ At(t, "stop")
    /\ IF kaRunning THEN Goto(t, "stopSet") ELSE Return(t)
    /\ UNCHANGED <<running, network, accepting, checking>>

StopKeepAlive(t) ==
    /\ At(t, "stopSet")
    /\ kaRunning' = FALSE
    /\ IF keepAliveThread = "joinable" THEN Goto(t, "stopJoin") ELSE Return(t)
    /\ UNCHANGED <<running, network, accepting, keepAliveThread, keepAlive>>

(* Slip: the keep-alive thread is let go instead of waited for.            *)
KeepAliveDetached(t) ==
    /\ At(t, "stopJoin")
    /\ keepAliveThread' = "joined"
    /\ Return(t)
    /\ UNCHANGED <<running, network, accepting, kaRunning, keepAlive>>

KeepAliveJoined(t) ==
    /\ At(t, "stopJoin")
    /\ keepAlive = "done"
    /\ keepAliveThread' = "joined"
    /\ Return(t)
    /\ UNCHANGED <<running, network, accepting, kaRunning, keepAlive>>

(* The handler uses a registry whose memory main has given up.             *)
HandlerOutlivesServer ==
    /\ RegistryDestroyed
    /\ \E step \in {"stop", "stopSet", "stopJoin"} : At("signal", step)
    /\ End("terminated")
    /\ UNCHANGED <<running, network, accepting, checking>>

(* The thread object is destroyed: std::terminate if nobody has joined it. *)
DestroyKeepAliveThread ==
    /\ At("main", "drop")
    /\ IF keepAliveThread = "joinable" THEN End("terminated") ELSE Goto("main", "exit")
    /\ UNCHANGED <<running, network, accepting, checking>>

(* exit(0) in the handler, or the end of main.                             *)
Exit(t) ==
    /\ At(t, "exit")
    /\ End("exited")
    /\ UNCHANGED <<running, network, accepting, checking>>

----------------------------------------------------------------------------
(* AcceptLoop and the connections.                                         *)

Accepts(step) == process = "running" /\ acceptor = step

AcceptGoto(step) ==
    /\ acceptor' = step
    /\ UNCHANGED <<platform, process, pc, running, acceptThread, checking>>

(* The socket can be connected to: a POSIX accept keeps a closed one alive.*)
Reachable == listening \/ (platform = "posix" /\ acceptor = "blocked")

Connect(c) ==
    /\ process = "running"
    /\ client[c] = "away"
    /\ Reachable
    /\ client' = [client EXCEPT ![c] = "queued"]
    /\ UNCHANGED <<platform, process, pc, running, listening, accepting, checking>>

(* Slip: the loop asks the socket only, never running.                     *)
AcceptForEver ==
    /\ Accepts("testing")
    /\ AcceptGoto("calling")
    /\ UNCHANGED network

TestRunning ==
    /\ Accepts("testing")
    /\ AcceptGoto(IF running THEN "calling" ELSE "done")
    /\ UNCHANGED network

(* accept fails at once on a closed socket.                                *)
CallAccept ==
    /\ Accepts("calling")
    /\ AcceptGoto(IF listening THEN "blocked" ELSE "testing")
    /\ UNCHANGED network

(* accept returns a connection.  The limit of MAX_CLIENTS is compared with *)
(* the size of clientThreads, which is always empty; the thread is         *)
(* detached, if there is one.                                              *)
AcceptConnection(c) ==
    /\ Accepts("blocked")
    /\ Reachable
    /\ client[c] = "queued"
    /\ \/ client' = [client EXCEPT ![c] = "reading"] /\ AcceptGoto("testing")
       \/ NoThreadLeft /\ UNCHANGED <<client, running, accepting, checking>>
    /\ UNCHANGED listening

(* Slip: the loop is left when accept fails.                               *)
AcceptLoopBreaks ==
    /\ Accepts("blocked")
    /\ listening
    /\ AcceptGoto("done")
    /\ UNCHANGED network

(* accept gives up a connection that was lost before it was taken.         *)
AcceptFails ==
    /\ Accepts("blocked")
    /\ listening
    /\ AcceptGoto("testing")
    /\ UNCHANGED network

(* accept is ended by the closing of its socket.                           *)
AcceptInterrupted ==
    /\ Accepts("blocked")
    /\ ~listening
    /\ platform = "windows"
    /\ AcceptGoto("testing")
    /\ UNCHANGED network

Serve(c, step, next) ==
    /\ process = "running"
    /\ client[c] = step
    /\ client' = [client EXCEPT ![c] = next]
    /\ UNCHANGED <<platform, process, pc, running, listening, accepting, checking>>

(* HandleClient: the first line arrives, or thirty seconds pass.           *)
ReceiveRequest(c) == Serve(c, "reading", "using")
ReceiveFails(c)   == Serve(c, "reading", "closed")

(* The request is processed and answered.                                  *)
Respond(c) == Serve(c, "using", "closed")

(* The request reaches managers that no longer exist.                      *)
RequestOutlivesServer(c) ==
    /\ process = "running"
    /\ client[c] = "using"
    /\ CatalogDestroyed
    /\ End("terminated")
    /\ UNCHANGED <<running, network, accepting, checking>>

----------------------------------------------------------------------------
(* The keep-alive thread.                                                  *)

KeepAliveStep(step, next) ==
    /\ process = "running"
    /\ keepAlive = step
    /\ keepAlive' = next
    /\ UNCHANGED <<platform, process, pc, running, network, accepting, kaRunning, keepAliveThread>>

TestKeepAlive    == KeepAliveStep("testing", IF kaRunning THEN "sleeping" ELSE "done")
WakeUp           == KeepAliveStep("sleeping", IF kaRunning THEN "sweeping" ELSE "testing")
CheckNodeHealth  == KeepAliveStep("sweeping", "testing")

----------------------------------------------------------------------------

Main == InitializeNetwork \/ CreateListenSocket \/ Run \/ StartAcceptThread
            \/ AwaitAcceptThread \/ DestroyKeepAliveThread

Stop(t) ==
    \/ Shutdown(t) \/ CloseListenSocket(t) \/ JoinAcceptThread(t) \/ AcceptThreadJoined(t)
    \/ StopKeepAliveChecker(t) \/ StopKeepAlive(t) \/ KeepAliveJoined(t) \/ Exit(t)

AcceptLoop == TestRunning \/ CallAccept \/ AcceptInterrupted \/ \E c \in Clients : AcceptConnection(c)

HandleClient(c) == ReceiveRequest(c) \/ ReceiveFails(c) \/ Respond(c)

KeepAlive == TestKeepAlive \/ WakeUp \/ CheckNodeHealth

Next ==
    \/ Main
    \/ Signal
    \/ \E t \in Threads : Stop(t) \/ JoinFails(t)
    \/ HandlerOutlivesServer
    \/ AcceptLoop \/ AcceptFails
    \/ \E c \in Clients : Connect(c) \/ HandleClient(c) \/ RequestOutlivesServer(c)
    \/ KeepAlive

Spec == Init /\ [][Next]_vars

(* Every thread of the process is scheduled, a sleep ends, and accept      *)
(* takes what is there.  Signals, connections and failures need not come.  *)
FairSpec ==
    /\ Spec
    /\ WF_vars(Main)
    /\ \A t \in Threads : WF_vars(Stop(t))
    /\ WF_vars(AcceptLoop)
    /\ WF_vars(KeepAlive)

----------------------------------------------------------------------------

(* The variables have their types; there is a thread to every thread       *)
(* object, and a joined one has ended.                                     *)
TypeOK ==
    /\ platform \in Platforms
    /\ process \in {"running", "exited", "terminated", "starved"}
    /\ pc \in [Threads -> Functions \X Steps]
    /\ running \in BOOLEAN /\ listening \in BOOLEAN /\ kaRunning \in BOOLEAN
    /\ acceptThread \in {"none", "joinable", "joined"}
    /\ acceptor \in {"none", "testing", "calling", "blocked", "done"}
    /\ keepAliveThread \in {"none", "joinable", "joined"}
    /\ keepAlive \in {"none", "testing", "sleeping", "sweeping", "done"}
    /\ client \in [Clients -> {"away", "queued", "reading", "using", "closed"}]
    /\ acceptThread = "none" <=> acceptor = "none"
    /\ acceptThread = "joined" => acceptor = "done"
    /\ keepAliveThread = "none" <=> keepAlive = "none"
    /\ keepAliveThread = "joined" => keepAlive = "done"

(* Shutdown is final: Run never sets running again behind a Shutdown that  *)
(* has passed its test, so the accept loop it waits for can only end.      *)
ShutdownIsFinal == \A t \in Threads : Stopping(t) => ~running

(* The keep-alive thread, which reads and writes the registry without      *)
(* asking whether it exists, is over before the registry is destroyed.     *)
RegistryOutlivesSweep ==
    process = "running" /\ RegistryDestroyed => keepAlive \in {"none", "done"}

(* The handler is past the test of Shutdown.                               *)
HandlerActed == pc["signal"][2] \notin {"none", "shutdown"}

(* A start that fails, at Winsock or at the socket, leaves by the          *)
(* destructors with the keep-alive thread stopped.  But for a thread that  *)
(* could not be started, std::terminate is called only where a signal      *)
(* interrupted Run.                                                        *)
CrashNeedsInterruptedRun ==
    process = "terminated" => acceptThread # "none" /\ HandlerActed

(* A detached client thread can meet a destroyed catalogue only where the  *)
(* handler has ended the accept loop and not yet reached exit, which needs *)
(* a handler in a thread of its own.                                       *)
ExposureNeedsHandler ==
    \A c \in Clients :
        process = "running" /\ CatalogDestroyed /\ AtWork(c)
            => platform = "windows" /\ HandlerActed

(* A POSIX accept waits for a connection, and none is there.               *)
AcceptWaits ==
    /\ platform = "posix" /\ acceptor = "blocked"
    /\ \A c \in Clients : client[c] # "queued"

(* A signal ends the process, whatever the clients and the keep-alive      *)
(* thread are doing - unless a POSIX accept waits for ever for a           *)
(* connection that is never made.                                          *)
SignalEndsProcess ==
    pc["signal"][2] # "none" ~> process # "running" \/ []AcceptWaits

(* main ends "correctly", as main.cpp says: it destroys no thread object   *)
(* whose thread has not been joined.                                       *)
EveryThreadJoined ==
    process = "running" /\ pc["main"][2] = "drop" => keepAliveThread # "joinable"

=============================================================================
