-------------------------- MODULE ServerLifeProofs --------------------------
(***************************************************************************)
(* Proofs of the invariants of ServerLife, for every number of             *)
(* connections.  The inductive invariant says where main can be while the  *)
(* signal handler is at a given step of Shutdown: nothing can be stopped   *)
(* before Run, the accept loop ends only behind the handler, and main      *)
(* alone stops the keep-alive thread as long as no signal meets a Run.     *)
(***************************************************************************)
EXTENDS ServerLife, TLAPS

(* Where main and the handler are.                                         *)
MainFunction == pc["main"][1]
MainStep     == pc["main"][2]
SignalStep   == pc["signal"][2]

(* The steps of Shutdown, and those past its test.                         *)
ShutdownSteps == {"shutdown", "close", "join", "joining", "stop", "stopSet", "stopJoin"}
StopSteps     == {"close", "join", "joining", "stop", "stopSet", "stopJoin"}

BeforeRun == MainFunction = "start" /\ MainStep \in {"network", "listen", "run"}
AtSpawn   == MainFunction = "start" /\ MainStep = "spawn"
Acted     == SignalStep \notin {"none", "shutdown"}

PcType ==
    /\ pc \in [Threads -> Functions \X Steps]
    /\ pc["signal"][1] = "handler"

ThreadsType ==
    /\ platform \in Platforms
    /\ process \in {"running", "exited", "terminated", "starved"}
    /\ running \in BOOLEAN /\ listening \in BOOLEAN /\ kaRunning \in BOOLEAN
    /\ acceptThread \in {"none", "joinable", "joined"}
    /\ acceptor \in {"none", "testing", "calling", "blocked", "done"}
    /\ keepAliveThread \in {"none", "joinable", "joined"}
    /\ keepAlive \in {"none", "testing", "sleeping", "sweeping", "done"}
    /\ acceptThread = "none" <=> acceptor = "none"
    /\ acceptThread = "joined" => acceptor = "done"
    /\ keepAliveThread = "none" <=> keepAlive = "none"
    /\ keepAliveThread = "joined" => keepAlive = "done"

(* The steps each function has.                                            *)
StepsOfFunctions ==
    /\ MainFunction \in {"start", "main", "destructor", "members"}
    /\ MainFunction = "start" => MainStep \in {"network", "listen", "run", "spawn", "await", "joining"}
    /\ MainFunction \in {"main", "destructor"} => MainStep \in ShutdownSteps
    /\ MainFunction = "members" => MainStep \in {"stop", "stopSet", "stopJoin", "drop", "exit"}
    /\ SignalStep \in ShutdownSteps \cup {"none", "exit"}

(* Before Run nothing runs and nothing can be stopped; a Shutdown past its *)
(* test has left running FALSE.                                            *)
StopIsFinal ==
    /\ BeforeRun => ~running /\ acceptThread = "none" /\ SignalStep \notin StopSteps
    /\ MainFunction # "start" => ~running
    /\ SignalStep \in StopSteps => ~running
    /\ running \/ SignalStep \in StopSteps => AtSpawn \/ acceptThread # "none"

(* The accept loop ends, and main leaves Run, only after the handler has   *)
(* acted; on POSIX main does not leave Run at all.                         *)
RunNeedsHandler ==
    /\ AtSpawn => running \/ Acted
    /\ acceptor # "none" /\ ~Acted => running /\ MainFunction = "start"
    /\ acceptor = "done" => Acted /\ ~running
    /\ acceptor # "none" /\ platform = "posix" => MainFunction = "start"

ServedIsAccepted ==
    /\ client \in [Clients -> {"away", "queued", "reading", "using", "closed"}]
    /\ \A c \in Clients : client[c] \in {"reading", "using"} => acceptor # "none"

(* StopKeepAliveChecker: main is the only one that stops the thread as     *)
(* long as the handler has not acted on a Run.                             *)
MainStops ==
    /\ keepAliveThread = "joinable" /\ ~kaRunning => MainStep = "stopJoin"
    /\ MainStep = "stopSet"  => kaRunning
    /\ MainStep = "stopJoin" => keepAliveThread = "joinable"

KeepAliveStops ==
    /\ kaRunning => keepAliveThread = "joinable" \/ process = "starved"
    /\ MainStep \in {"stopJoin", "drop", "exit"} \/ SignalStep = "stopJoin" => ~kaRunning
    /\ MainStep = "exit" => keepAliveThread # "joinable"
    /\ MainFunction = "start" /\ keepAliveThread = "joined" => SignalStep = "exit"
    /\ ~Acted \/ (acceptThread = "none" /\ ~AtSpawn) => MainStops

CrashIsInRun == process = "terminated" => acceptThread # "none" /\ Acted

(* The inductive invariant.                                                *)
IInv ==
    /\ PcType
    /\ ThreadsType
    /\ StepsOfFunctions
    /\ StopIsFinal
    /\ RunNeedsHandler
    /\ ServedIsAccepted
    /\ KeepAliveStops
    /\ CrashIsInRun

----------------------------------------------------------------------------

LEMMA MainEnters ==
  ASSUME PcType, NEW f \in Functions, NEW s \in Steps, Enter("main", f, s)
  PROVE  /\ PcType'
         /\ MainFunction' = f /\ MainStep' = s /\ SignalStep' = SignalStep
         /\ UNCHANGED <<platform, process>>
  BY DEF PcType, Enter, MainFunction, MainStep, SignalStep, Threads

LEMMA SignalEnters ==
  ASSUME PcType, NEW s \in Steps, Enter("signal", "handler", s)
  PROVE  /\ PcType'
         /\ MainFunction' = MainFunction /\ MainStep' = MainStep /\ SignalStep' = s
         /\ UNCHANGED <<platform, process>>
  BY DEF PcType, Enter, MainFunction, MainStep, SignalStep, Threads, Functions

LEMMA NobodyMoves ==
  ASSUME PcType, UNCHANGED pc
  PROVE  /\ PcType'
         /\ UNCHANGED <<MainFunction, MainStep, SignalStep>>
  BY DEF PcType, MainFunction, MainStep, SignalStep

(* Where a thread that takes a step is.                                    *)
LEMMA MainAt ==
  ASSUME PcType, NEW s, At("main", s)
  PROVE  /\ process = "running" /\ MainStep = s
         /\ platform = "posix" => SignalStep = "none"
  BY DEF At, MainStep, SignalStep, Interrupted

LEMMA SignalAt ==
  ASSUME PcType, NEW s, At("signal", s)
  PROVE  process = "running" /\ SignalStep = s
  BY DEF At, SignalStep

LEMMA MainGoes ==
  ASSUME PcType, NEW s \in Steps, Goto("main", s)
  PROVE  /\ PcType'
         /\ MainFunction' = MainFunction /\ MainStep' = s /\ SignalStep' = SignalStep
         /\ UNCHANGED <<platform, process>>
  BY DEF PcType, Goto, Enter, MainFunction, MainStep, SignalStep, Threads

LEMMA SignalGoes ==
  ASSUME PcType, NEW s \in Steps, Goto("signal", s)
  PROVE  /\ PcType'
         /\ MainFunction' = MainFunction /\ MainStep' = MainStep /\ SignalStep' = s
         /\ UNCHANGED <<platform, process>>
  BY DEF PcType, Goto, Enter, MainFunction, MainStep, SignalStep, Threads, Functions

LEMMA MainReturns ==
  ASSUME PcType, MainFunction \in {"main", "destructor", "members"}, Return("main")
  PROVE  /\ PcType'
         /\ MainFunction = "main" => MainFunction' = "destructor" /\ MainStep' = "shutdown"
         /\ MainFunction = "destructor" => MainFunction' = "members" /\ MainStep' = "stop"
         /\ MainFunction = "members" => MainFunction' = "members" /\ MainStep' = "drop"
         /\ SignalStep' = SignalStep
         /\ UNCHANGED <<platform, process>>
<1>1. CASE MainFunction = "main"
  BY <1>1, MainEnters DEF Return, MainFunction, Functions, Steps
<1>2. CASE MainFunction = "destructor"
  BY <1>2, MainEnters DEF Return, MainFunction, Functions, Steps
<1>3. CASE MainFunction = "members"
  BY <1>3, MainEnters DEF Return, MainFunction, Functions, Steps
<1> QED
  BY <1>1, <1>2, <1>3

LEMMA SignalReturns ==
  ASSUME PcType, Return("signal")
  PROVE  /\ PcType'
         /\ MainFunction' = MainFunction /\ MainStep' = MainStep /\ SignalStep' = "exit"
         /\ UNCHANGED <<platform, process>>
  BY SignalEnters DEF PcType, Return, Steps

----------------------------------------------------------------------------

(* Start.                                                                  *)
LEMMA InitializeNetworkKeeps ==
  ASSUME IInv, InitializeNetwork
  PROVE  IInv'
<1>1. PcType
  BY DEF IInv
<1>2. MainStep = "network" /\ process = "running" /\ (platform = "posix" => SignalStep = "none")
  BY <1>1, MainAt DEF InitializeNetwork
<1>3. CASE Goto("main", "listen") /\ kaRunning' = TRUE /\ keepAliveThread' = "joinable" /\ keepAlive' = "testing"
  BY <1>1, <1>2, <1>3, MainGoes
  DEF InitializeNetwork, network, accepting, Steps, IInv, ThreadsType,
      StepsOfFunctions, StopIsFinal, RunNeedsHandler, ServedIsAccepted, KeepAliveStops,
      MainStops, CrashIsInRun, StopSteps, ShutdownSteps, BeforeRun, AtSpawn, Acted
<1>4. CASE Enter("main", "destructor", "shutdown") /\ UNCHANGED checking
  BY <1>1, <1>2, <1>4, MainEnters
  DEF InitializeNetwork, network, accepting, checking, Functions, Steps, IInv,
      ThreadsType, StepsOfFunctions, StopIsFinal, RunNeedsHandler, ServedIsAccepted,
      KeepAliveStops, MainStops, CrashIsInRun, StopSteps, ShutdownSteps, BeforeRun,
      AtSpawn, Acted
<1>5. CASE kaRunning' = TRUE /\ NoThreadLeft /\ UNCHANGED <<keepAliveThread, keepAlive>>
  BY <1>1, <1>2, <1>5, NobodyMoves
  DEF InitializeNetwork, NoThreadLeft, End, network, accepting, IInv, ThreadsType,
      StepsOfFunctions, StopIsFinal, RunNeedsHandler, ServedIsAccepted, KeepAliveStops,
      MainStops, CrashIsInRun, StopSteps, ShutdownSteps, BeforeRun, AtSpawn, Acted
<1> QED
  BY <1>3, <1>4, <1>5 DEF InitializeNetwork

LEMMA CreateListenSocketKeeps ==
  ASSUME IInv, CreateListenSocket
  PROVE  IInv'
<1>1. PcType
  BY DEF IInv
<1>2. MainStep = "listen" /\ process = "running" /\ (platform = "posix" => SignalStep = "none")
  BY <1>1, MainAt DEF CreateListenSocket
<1>3. CASE Goto("main", "run") /\ listening' = TRUE
  BY <1>1, <1>2, <1>3, MainGoes
  DEF CreateListenSocket, accepting, checking, Steps, IInv, ThreadsType,
      StepsOfFunctions, StopIsFinal, RunNeedsHandler, ServedIsAccepted, KeepAliveStops,
      MainStops, CrashIsInRun, StopSteps, ShutdownSteps, BeforeRun, AtSpawn, Acted
<1>4. CASE Enter("main", "destructor", "shutdown") /\ listening' = FALSE
  BY <1>1, <1>2, <1>4, MainEnters
  DEF CreateListenSocket, accepting, checking, Functions, Steps, IInv, ThreadsType,
      StepsOfFunctions, StopIsFinal, RunNeedsHandler, ServedIsAccepted, KeepAliveStops,
      MainStops, CrashIsInRun, StopSteps, ShutdownSteps, BeforeRun, AtSpawn, Acted
<1> QED
  BY <1>3, <1>4 DEF CreateListenSocket

LEMMA RunKeeps ==
  ASSUME IInv, Run
  PROVE  IInv'
<1>1. PcType
  BY DEF IInv
<1>2. MainStep = "run" /\ process = "running" /\ (platform = "posix" => SignalStep = "none")
  BY <1>1, MainAt DEF Run
<1>3. Goto("main", "spawn")
  BY DEF Run
<1> QED
  BY <1>1, <1>2, <1>3, MainGoes
  DEF Run, network, accepting, checking, Steps, IInv, ThreadsType, StepsOfFunctions,
      StopIsFinal, RunNeedsHandler, ServedIsAccepted, KeepAliveStops, MainStops,
      CrashIsInRun, StopSteps, ShutdownSteps, BeforeRun, AtSpawn, Acted

LEMMA StartAcceptThreadKeeps ==
  ASSUME IInv, StartAcceptThread
  PROVE  IInv'
<1>1. PcType
  BY DEF IInv
<1>2. MainStep = "spawn" /\ process = "running" /\ (platform = "posix" => SignalStep = "none")
  BY <1>1, MainAt DEF StartAcceptThread
<1>3. CASE Goto("main", "await") /\ acceptThread' = "joinable" /\ acceptor' = "testing"
  BY <1>1, <1>2, <1>3, MainGoes
  DEF StartAcceptThread, network, checking, Steps, IInv, ThreadsType, StepsOfFunctions,
      StopIsFinal, RunNeedsHandler, ServedIsAccepted, KeepAliveStops, MainStops,
      CrashIsInRun, StopSteps, ShutdownSteps, BeforeRun, AtSpawn, Acted
<1>4. CASE NoThreadLeft /\ UNCHANGED accepting
  BY <1>1, <1>2, <1>4, NobodyMoves
  DEF StartAcceptThread, NoThreadLeft, End, network, accepting, checking, IInv,
      ThreadsType, StepsOfFunctions, StopIsFinal, RunNeedsHandler, ServedIsAccepted,
      KeepAliveStops, MainStops, CrashIsInRun, StopSteps, ShutdownSteps, BeforeRun,
      AtSpawn, Acted
<1> QED
  BY <1>3, <1>4 DEF StartAcceptThread

LEMMA AwaitAcceptThreadKeeps ==
  ASSUME IInv, AwaitAcceptThread
  PROVE  IInv'
<1>1. PcType
  BY DEF IInv
<1>2. MainStep = "await" /\ process = "running" /\ (platform = "posix" => SignalStep = "none")
  BY <1>1, MainAt DEF AwaitAcceptThread
<1>3. CASE acceptThread = "joinable"
  BY <1>1, <1>2, <1>3, MainGoes
  DEF AwaitAcceptThread, network, accepting, checking, Steps, IInv, ThreadsType,
      StepsOfFunctions, StopIsFinal, RunNeedsHandler, ServedIsAccepted, KeepAliveStops,
      MainStops, CrashIsInRun, StopSteps, ShutdownSteps, BeforeRun, AtSpawn, Acted
<1>4. CASE acceptThread # "joinable"
  <2>1. /\ PcType' /\ MainFunction' = "main" /\ MainStep' = "shutdown"
        /\ UNCHANGED <<platform, process, SignalStep, running, network, accepting, checking>>
        /\ MainFunction = "start"
        /\ acceptThread = "joined" \/ acceptThread = "none"
    BY <1>1, <1>2, <1>4, MainEnters
    DEF AwaitAcceptThread, network, accepting, checking, Functions, Steps, IInv,
        StepsOfFunctions, ShutdownSteps, ThreadsType
  <2>2. ThreadsType'
    BY <2>1, <1>2, <1>4
    DEF ThreadsType, network, accepting, checking, IInv, StopSteps, ShutdownSteps,
        BeforeRun, AtSpawn, Acted
  <2>3. StepsOfFunctions'
    BY <2>1, <1>2, <1>4
    DEF StepsOfFunctions, network, accepting, checking, IInv, StopSteps, ShutdownSteps,
        BeforeRun, AtSpawn, Acted
  <2>4. StopIsFinal'
    BY <2>1, <1>2, <1>4
    DEF StopIsFinal, ThreadsType, StepsOfFunctions, RunNeedsHandler, network,
        accepting, checking, IInv, StopSteps, ShutdownSteps, BeforeRun, AtSpawn, Acted
  <2>5. RunNeedsHandler'
    BY <2>1, <1>2, <1>4
    DEF RunNeedsHandler, ThreadsType, StepsOfFunctions, StopIsFinal, network,
        accepting, checking, IInv, StopSteps, ShutdownSteps, BeforeRun, AtSpawn, Acted
  <2>6. ServedIsAccepted'
    BY <2>1, <1>2, <1>4
    DEF ServedIsAccepted, ThreadsType, network, accepting, checking, IInv, StopSteps,
        ShutdownSteps, BeforeRun, AtSpawn, Acted
  <2>7. KeepAliveStops'
    BY <2>1, <1>2, <1>4
    DEF KeepAliveStops, ThreadsType, StepsOfFunctions, StopIsFinal, RunNeedsHandler,
        MainStops, network, accepting, checking, IInv, StopSteps, ShutdownSteps,
        BeforeRun, AtSpawn, Acted
  <2>8. CrashIsInRun'
    BY <2>1, <1>2, <1>4
    DEF CrashIsInRun, network, accepting, checking, IInv, StopSteps, ShutdownSteps,
        BeforeRun, AtSpawn, Acted
  <2> QED
    BY <2>1, <2>2, <2>3, <2>4, <2>5, <2>6, <2>7, <2>8 DEF IInv

<1> QED
  BY <1>3, <1>4

LEMMA DestroyKeepAliveThreadKeeps ==
  ASSUME IInv, DestroyKeepAliveThread
  PROVE  IInv'
<1>1. PcType
  BY DEF IInv
<1>2. MainStep = "drop" /\ process = "running" /\ (platform = "posix" => SignalStep = "none")
  BY <1>1, MainAt DEF DestroyKeepAliveThread
<1>3. CASE keepAliveThread = "joinable"
  BY <1>1, <1>2, <1>3, NobodyMoves
  DEF DestroyKeepAliveThread, End, network, accepting, checking, IInv, ThreadsType,
      StepsOfFunctions, StopIsFinal, RunNeedsHandler, ServedIsAccepted, KeepAliveStops,
      MainStops, CrashIsInRun, StopSteps, ShutdownSteps, BeforeRun, AtSpawn, Acted
<1>4. CASE keepAliveThread # "joinable"
  BY <1>1, <1>2, <1>4, MainGoes
  DEF DestroyKeepAliveThread, network, accepting, checking, Steps, IInv, ThreadsType,
      StepsOfFunctions, StopIsFinal, RunNeedsHandler, ServedIsAccepted, KeepAliveStops,
      MainStops, CrashIsInRun, StopSteps, ShutdownSteps, BeforeRun, AtSpawn, Acted
<1> QED
  BY <1>3, <1>4

(* The handler is entered.                                                 *)
LEMMA SignalKeeps ==
  ASSUME IInv, Signal
  PROVE  IInv'
<1>1. PcType
  BY DEF IInv
<1>2. SignalStep = "none" /\ process = "running"
  BY <1>1, SignalAt DEF Signal
<1> QED
  BY <1>1, <1>2, SignalGoes
  DEF Signal, network, accepting, checking, Steps, IInv, ThreadsType, StepsOfFunctions,
      StopIsFinal, RunNeedsHandler, ServedIsAccepted, KeepAliveStops, MainStops,
      CrashIsInRun, StopSteps, ShutdownSteps, BeforeRun, AtSpawn, Acted

(* Shutdown, by main and by the handler.                                   *)
LEMMA MainShutdownKeeps ==
  ASSUME IInv, Shutdown("main")
  PROVE  IInv'
<1>1. PcType
  BY DEF IInv
<1>2. MainStep = "shutdown" /\ process = "running" /\ (platform = "posix" => SignalStep = "none")
  BY <1>1, MainAt DEF Shutdown
<1>3. CASE running
  BY <1>1, <1>2, <1>3, MainGoes
  DEF Shutdown, network, accepting, checking, Steps, IInv, ThreadsType,
      StepsOfFunctions, StopIsFinal, RunNeedsHandler, ServedIsAccepted, KeepAliveStops,
      MainStops, CrashIsInRun, StopSteps, ShutdownSteps, BeforeRun, AtSpawn, Acted
<1>4. CASE ~(running)
  <2>1. /\ PcType' /\ running' = FALSE
        /\ MainFunction = "main" => MainFunction' = "destructor" /\ MainStep' = "shutdown"
        /\ MainFunction = "destructor" => MainFunction' = "members" /\ MainStep' = "stop"
        /\ MainFunction \in {"main", "destructor"}
        /\ UNCHANGED <<platform, process, SignalStep, network, accepting, checking>>
    BY <1>1, <1>2, <1>4, MainReturns
    DEF Shutdown, network, accepting, checking, IInv, StepsOfFunctions, ShutdownSteps
  <2>2. ThreadsType'
    BY <2>1, <1>2, <1>4
    DEF ThreadsType, network, accepting, checking, IInv, StopSteps, ShutdownSteps,
        BeforeRun, AtSpawn, Acted
  <2>3. StepsOfFunctions'
    BY <2>1, <1>2, <1>4
    DEF StepsOfFunctions, network, accepting, checking, IInv, StopSteps, ShutdownSteps,
        BeforeRun, AtSpawn, Acted
  <2>4. StopIsFinal'
    BY <2>1, <1>2, <1>4
    DEF StopIsFinal, ThreadsType, StepsOfFunctions, RunNeedsHandler, network,
        accepting, checking, IInv, StopSteps, ShutdownSteps, BeforeRun, AtSpawn, Acted
  <2>5. RunNeedsHandler'
    BY <2>1, <1>2, <1>4
    DEF RunNeedsHandler, ThreadsType, StepsOfFunctions, StopIsFinal, network,
        accepting, checking, IInv, StopSteps, ShutdownSteps, BeforeRun, AtSpawn, Acted
  <2>6. ServedIsAccepted'
    BY <2>1, <1>2, <1>4
    DEF ServedIsAccepted, ThreadsType, network, accepting, checking, IInv, StopSteps,
        ShutdownSteps, BeforeRun, AtSpawn, Acted
  <2>7. KeepAliveStops'
    BY <2>1, <1>2, <1>4
    DEF KeepAliveStops, ThreadsType, StepsOfFunctions, StopIsFinal, RunNeedsHandler,
        MainStops, network, accepting, checking, IInv, StopSteps, ShutdownSteps,
        BeforeRun, AtSpawn, Acted
  <2>8. CrashIsInRun'
    BY <2>1, <1>2, <1>4
    DEF CrashIsInRun, network, accepting, checking, IInv, StopSteps, ShutdownSteps,
        BeforeRun, AtSpawn, Acted
  <2> QED
    BY <2>1, <2>2, <2>3, <2>4, <2>5, <2>6, <2>7, <2>8 DEF IInv
<1> QED
  BY <1>3, <1>4

LEMMA SignalShutdownKeeps ==
  ASSUME IInv, Shutdown("signal")
  PROVE  IInv'
<1>1. PcType
  BY DEF IInv
<1>2. SignalStep = "shutdown" /\ process = "running"
  BY <1>1, SignalAt DEF Shutdown
<1>3. CASE running
  BY <1>1, <1>2, <1>3, SignalGoes
  DEF Shutdown, network, accepting, checking, Steps, IInv, ThreadsType,
      StepsOfFunctions, StopIsFinal, RunNeedsHandler, ServedIsAccepted, KeepAliveStops,
      MainStops, CrashIsInRun, StopSteps, ShutdownSteps, BeforeRun, AtSpawn, Acted
<1>4. CASE ~(running)
  BY <1>1, <1>2, <1>4, SignalReturns
  DEF Shutdown, network, accepting, checking, Steps, IInv, ThreadsType,
      StepsOfFunctions, StopIsFinal, RunNeedsHandler, ServedIsAccepted, KeepAliveStops,
      MainStops, CrashIsInRun, StopSteps, ShutdownSteps, BeforeRun, AtSpawn, Acted
<1> QED
  BY <1>3, <1>4

LEMMA MainCloseListenSocketKeeps ==
  ASSUME IInv, CloseListenSocket("main")
  PROVE  IInv'
<1>1. PcType
  BY DEF IInv
<1>2. MainStep = "close" /\ process = "running" /\ (platform = "posix" => SignalStep = "none")
  BY <1>1, MainAt DEF CloseListenSocket
<1> QED
  <2>1. /\ PcType' /\ MainStep' = "join"
        /\ UNCHANGED <<platform, process, MainFunction, SignalStep, running, client, accepting>>
        /\ listening' = FALSE /\ UNCHANGED checking
    BY <1>1, <1>2, MainGoes
    DEF CloseListenSocket, network, accepting, checking, Steps
  <2>2. ThreadsType'
    BY <2>1, <1>2
    DEF ThreadsType, network, accepting, checking, IInv, StopSteps, ShutdownSteps,
        BeforeRun, AtSpawn, Acted
  <2>3. StepsOfFunctions'
    BY <2>1, <1>2
    DEF StepsOfFunctions, network, accepting, checking, IInv, StopSteps, ShutdownSteps,
        BeforeRun, AtSpawn, Acted
  <2>4. StopIsFinal'
    BY <2>1, <1>2
    DEF StopIsFinal, ThreadsType, StepsOfFunctions, RunNeedsHandler, network,
        accepting, checking, IInv, StopSteps, ShutdownSteps, BeforeRun, AtSpawn, Acted
  <2>5. RunNeedsHandler'
    BY <2>1, <1>2
    DEF RunNeedsHandler, ThreadsType, StepsOfFunctions, StopIsFinal, network,
        accepting, checking, IInv, StopSteps, ShutdownSteps, BeforeRun, AtSpawn, Acted
  <2>6. ServedIsAccepted'
    BY <2>1, <1>2
    DEF ServedIsAccepted, ThreadsType, network, accepting, checking, IInv, StopSteps,
        ShutdownSteps, BeforeRun, AtSpawn, Acted
  <2>7. KeepAliveStops'
    BY <2>1, <1>2
    DEF KeepAliveStops, ThreadsType, StepsOfFunctions, StopIsFinal, RunNeedsHandler,
        MainStops, network, accepting, checking, IInv, StopSteps, ShutdownSteps,
        BeforeRun, AtSpawn, Acted
  <2>8. CrashIsInRun'
    BY <2>1, <1>2
    DEF CrashIsInRun, network, accepting, checking, IInv, StopSteps, ShutdownSteps,
        BeforeRun, AtSpawn, Acted
  <2> QED
    BY <2>1, <2>2, <2>3, <2>4, <2>5, <2>6, <2>7, <2>8 DEF IInv

LEMMA SignalCloseListenSocketKeeps ==
  ASSUME IInv, CloseListenSocket("signal")
  PROVE  IInv'
<1>1. PcType
  BY DEF IInv
<1>2. SignalStep = "close" /\ process = "running"
  BY <1>1, SignalAt DEF CloseListenSocket
<1> QED
  <2>1. /\ PcType' /\ SignalStep' = "join"
        /\ UNCHANGED <<platform, process, MainFunction, MainStep, running, client, accepting>>
        /\ listening' = FALSE /\ UNCHANGED checking
    BY <1>1, <1>2, SignalGoes
    DEF CloseListenSocket, network, accepting, checking, Steps
  <2>2. ThreadsType'
    BY <2>1, <1>2
    DEF ThreadsType, network, accepting, checking, IInv, StopSteps, ShutdownSteps,
        BeforeRun, AtSpawn, Acted
  <2>3. StepsOfFunctions'
    BY <2>1, <1>2
    DEF StepsOfFunctions, network, accepting, checking, IInv, StopSteps, ShutdownSteps,
        BeforeRun, AtSpawn, Acted
  <2>4. StopIsFinal'
    BY <2>1, <1>2
    DEF StopIsFinal, ThreadsType, StepsOfFunctions, RunNeedsHandler, network,
        accepting, checking, IInv, StopSteps, ShutdownSteps, BeforeRun, AtSpawn, Acted
  <2>5. RunNeedsHandler'
    BY <2>1, <1>2
    DEF RunNeedsHandler, ThreadsType, StepsOfFunctions, StopIsFinal, network,
        accepting, checking, IInv, StopSteps, ShutdownSteps, BeforeRun, AtSpawn, Acted
  <2>6. ServedIsAccepted'
    BY <2>1, <1>2
    DEF ServedIsAccepted, ThreadsType, network, accepting, checking, IInv, StopSteps,
        ShutdownSteps, BeforeRun, AtSpawn, Acted
  <2>7. KeepAliveStops'
    BY <2>1, <1>2
    DEF KeepAliveStops, ThreadsType, StepsOfFunctions, StopIsFinal, RunNeedsHandler,
        MainStops, network, accepting, checking, IInv, StopSteps, ShutdownSteps,
        BeforeRun, AtSpawn, Acted
  <2>8. CrashIsInRun'
    BY <2>1, <1>2
    DEF CrashIsInRun, network, accepting, checking, IInv, StopSteps, ShutdownSteps,
        BeforeRun, AtSpawn, Acted
  <2> QED
    BY <2>1, <2>2, <2>3, <2>4, <2>5, <2>6, <2>7, <2>8 DEF IInv

LEMMA MainJoinAcceptThreadKeeps ==
  ASSUME IInv, JoinAcceptThread("main")
  PROVE  IInv'
<1>1. PcType
  BY DEF IInv
<1>2. MainStep = "join" /\ process = "running" /\ (platform = "posix" => SignalStep = "none")
  BY <1>1, MainAt DEF JoinAcceptThread
<1>3. CASE acceptThread = "joinable"
  BY <1>1, <1>2, <1>3, MainGoes
  DEF JoinAcceptThread, network, accepting, checking, Steps, IInv, ThreadsType,
      StepsOfFunctions, StopIsFinal, RunNeedsHandler, ServedIsAccepted, KeepAliveStops,
      MainStops, CrashIsInRun, StopSteps, ShutdownSteps, BeforeRun, AtSpawn, Acted
<1>4. CASE ~(acceptThread = "joinable")
  BY <1>1, <1>2, <1>4, MainGoes
  DEF JoinAcceptThread, network, accepting, checking, Steps, IInv, ThreadsType,
      StepsOfFunctions, StopIsFinal, RunNeedsHandler, ServedIsAccepted, KeepAliveStops,
      MainStops, CrashIsInRun, StopSteps, ShutdownSteps, BeforeRun, AtSpawn, Acted
<1> QED
  BY <1>3, <1>4

LEMMA SignalJoinAcceptThreadKeeps ==
  ASSUME IInv, JoinAcceptThread("signal")
  PROVE  IInv'
<1>1. PcType
  BY DEF IInv
<1>2. SignalStep = "join" /\ process = "running"
  BY <1>1, SignalAt DEF JoinAcceptThread
<1>3. CASE acceptThread = "joinable"
  BY <1>1, <1>2, <1>3, SignalGoes
  DEF JoinAcceptThread, network, accepting, checking, Steps, IInv, ThreadsType,
      StepsOfFunctions, StopIsFinal, RunNeedsHandler, ServedIsAccepted, KeepAliveStops,
      MainStops, CrashIsInRun, StopSteps, ShutdownSteps, BeforeRun, AtSpawn, Acted
<1>4. CASE ~(acceptThread = "joinable")
  BY <1>1, <1>2, <1>4, SignalGoes
  DEF JoinAcceptThread, network, accepting, checking, Steps, IInv, ThreadsType,
      StepsOfFunctions, StopIsFinal, RunNeedsHandler, ServedIsAccepted, KeepAliveStops,
      MainStops, CrashIsInRun, StopSteps, ShutdownSteps, BeforeRun, AtSpawn, Acted
<1> QED
  BY <1>3, <1>4

LEMMA MainAcceptThreadJoinedKeeps ==
  ASSUME IInv, AcceptThreadJoined("main")
  PROVE  IInv'
<1>1. PcType
  BY DEF IInv
<1>2. MainStep = "joining" /\ process = "running" /\ (platform = "posix" => SignalStep = "none")
  BY <1>1, MainAt DEF AcceptThreadJoined
<1>3. CASE MainFunction = "start"
  <2>1. /\ PcType' /\ MainFunction' = "main" /\ MainStep' = "shutdown"
        /\ UNCHANGED <<platform, process, SignalStep, running, network, acceptor, checking>>
        /\ acceptThread' = "joined" /\ acceptor = "done"
    BY <1>1, <1>2, <1>3, MainEnters
    DEF AcceptThreadJoined, MainFunction, network, checking, Functions, Steps
  <2>2. ThreadsType'
    BY <2>1, <1>2, <1>3
    DEF ThreadsType, network, accepting, checking, IInv, StopSteps, ShutdownSteps,
        BeforeRun, AtSpawn, Acted
  <2>3. StepsOfFunctions'
    BY <2>1, <1>2, <1>3
    DEF StepsOfFunctions, network, accepting, checking, IInv, StopSteps, ShutdownSteps,
        BeforeRun, AtSpawn, Acted
  <2>4. StopIsFinal'
    BY <2>1, <1>2, <1>3
    DEF StopIsFinal, ThreadsType, StepsOfFunctions, RunNeedsHandler, network,
        accepting, checking, IInv, StopSteps, ShutdownSteps, BeforeRun, AtSpawn, Acted
  <2>5. RunNeedsHandler'
    BY <2>1, <1>2, <1>3
    DEF RunNeedsHandler, ThreadsType, StepsOfFunctions, StopIsFinal, network,
        accepting, checking, IInv, StopSteps, ShutdownSteps, BeforeRun, AtSpawn, Acted
  <2>6. ServedIsAccepted'
    BY <2>1, <1>2, <1>3
    DEF ServedIsAccepted, ThreadsType, network, accepting, checking, IInv, StopSteps,
        ShutdownSteps, BeforeRun, AtSpawn, Acted
  <2>7. KeepAliveStops'
    BY <2>1, <1>2, <1>3
    DEF KeepAliveStops, ThreadsType, StepsOfFunctions, StopIsFinal, RunNeedsHandler,
        MainStops, network, accepting, checking, IInv, StopSteps, ShutdownSteps,
        BeforeRun, AtSpawn, Acted
  <2>8. CrashIsInRun'
    BY <2>1, <1>2, <1>3
    DEF CrashIsInRun, network, accepting, checking, IInv, StopSteps, ShutdownSteps,
        BeforeRun, AtSpawn, Acted
  <2> QED
    BY <2>1, <2>2, <2>3, <2>4, <2>5, <2>6, <2>7, <2>8 DEF IInv

<1>4. CASE MainFunction # "start"
  BY <1>1, <1>2, <1>4, MainGoes
  DEF AcceptThreadJoined, MainFunction, network, checking, Steps, IInv, ThreadsType,
      StepsOfFunctions, StopIsFinal, RunNeedsHandler, ServedIsAccepted, KeepAliveStops,
      MainStops, CrashIsInRun, StopSteps, ShutdownSteps, BeforeRun, AtSpawn, Acted
<1> QED
  BY <1>3, <1>4

LEMMA SignalAcceptThreadJoinedKeeps ==
  ASSUME IInv, AcceptThreadJoined("signal")
  PROVE  IInv'
<1>1. PcType
  BY DEF IInv
<1>2. SignalStep = "joining" /\ process = "running"
  BY <1>1, SignalAt DEF AcceptThreadJoined
<1>3. Goto("signal", "stop")
  BY <1>1 DEF AcceptThreadJoined, PcType
<1> QED
  BY <1>1, <1>2, <1>3, SignalGoes
  DEF AcceptThreadJoined, network, checking, Steps, IInv, ThreadsType,
      StepsOfFunctions, StopIsFinal, RunNeedsHandler, ServedIsAccepted, KeepAliveStops,
      MainStops, CrashIsInRun, StopSteps, ShutdownSteps, BeforeRun, AtSpawn, Acted

LEMMA MainStopKeepAliveCheckerKeeps ==
  ASSUME IInv, StopKeepAliveChecker("main")
  PROVE  IInv'
<1>1. PcType
  BY DEF IInv
<1>2. MainStep = "stop" /\ process = "running" /\ (platform = "posix" => SignalStep = "none")
  BY <1>1, MainAt DEF StopKeepAliveChecker
<1>3. CASE kaRunning
  BY <1>1, <1>2, <1>3, MainGoes
  DEF StopKeepAliveChecker, network, accepting, checking, Steps, IInv, ThreadsType,
      StepsOfFunctions, StopIsFinal, RunNeedsHandler, ServedIsAccepted, KeepAliveStops,
      MainStops, CrashIsInRun, StopSteps, ShutdownSteps, BeforeRun, AtSpawn, Acted
<1>4. CASE ~(kaRunning)
  BY <1>1, <1>2, <1>4, MainReturns
  DEF StopKeepAliveChecker, network, accepting, checking, IInv, ThreadsType,
      StepsOfFunctions, StopIsFinal, RunNeedsHandler, ServedIsAccepted, KeepAliveStops,
      MainStops, CrashIsInRun, StopSteps, ShutdownSteps, BeforeRun, AtSpawn, Acted
<1> QED
  BY <1>3, <1>4

LEMMA SignalStopKeepAliveCheckerKeeps ==
  ASSUME IInv, StopKeepAliveChecker("signal")
  PROVE  IInv'
<1>1. PcType
  BY DEF IInv
<1>2. SignalStep = "stop" /\ process = "running"
  BY <1>1, SignalAt DEF StopKeepAliveChecker
<1>3. CASE kaRunning
  BY <1>1, <1>2, <1>3, SignalGoes
  DEF StopKeepAliveChecker, network, accepting, checking, Steps, IInv, ThreadsType,
      StepsOfFunctions, StopIsFinal, RunNeedsHandler, ServedIsAccepted, KeepAliveStops,
      MainStops, CrashIsInRun, StopSteps, ShutdownSteps, BeforeRun, AtSpawn, Acted
<1>4. CASE ~(kaRunning)
  BY <1>1, <1>2, <1>4, SignalReturns
  DEF StopKeepAliveChecker, network, accepting, checking, Steps, IInv, ThreadsType,
      StepsOfFunctions, StopIsFinal, RunNeedsHandler, ServedIsAccepted, KeepAliveStops,
      MainStops, CrashIsInRun, StopSteps, ShutdownSteps, BeforeRun, AtSpawn, Acted
<1> QED
  BY <1>3, <1>4

LEMMA MainStopKeepAliveKeeps ==
  ASSUME IInv, StopKeepAlive("main")
  PROVE  IInv'
<1>1. PcType
  BY DEF IInv
<1>2. MainStep = "stopSet" /\ process = "running" /\ (platform = "posix" => SignalStep = "none")
  BY <1>1, MainAt DEF StopKeepAlive
<1>3. CASE keepAliveThread = "joinable"
  <2>1. /\ PcType' /\ MainStep' = "stopJoin" /\ kaRunning' = FALSE
        /\ UNCHANGED <<platform, process, MainFunction, SignalStep, running, network, accepting, keepAliveThread, keepAlive>>
    BY <1>1, <1>2, <1>3, MainGoes
    DEF StopKeepAlive, network, accepting, Steps
  <2>2. ThreadsType'
    BY <2>1, <1>2, <1>3
    DEF ThreadsType, network, accepting, checking, IInv, StopSteps, ShutdownSteps,
        BeforeRun, AtSpawn, Acted
  <2>3. StepsOfFunctions'
    BY <2>1, <1>2, <1>3
    DEF StepsOfFunctions, network, accepting, checking, IInv, StopSteps, ShutdownSteps,
        BeforeRun, AtSpawn, Acted
  <2>4. StopIsFinal'
    BY <2>1, <1>2, <1>3
    DEF StopIsFinal, ThreadsType, StepsOfFunctions, RunNeedsHandler, network,
        accepting, checking, IInv, StopSteps, ShutdownSteps, BeforeRun, AtSpawn, Acted
  <2>5. RunNeedsHandler'
    BY <2>1, <1>2, <1>3
    DEF RunNeedsHandler, ThreadsType, StepsOfFunctions, StopIsFinal, network,
        accepting, checking, IInv, StopSteps, ShutdownSteps, BeforeRun, AtSpawn, Acted
  <2>6. ServedIsAccepted'
    BY <2>1, <1>2, <1>3
    DEF ServedIsAccepted, ThreadsType, network, accepting, checking, IInv, StopSteps,
        ShutdownSteps, BeforeRun, AtSpawn, Acted
  <2>7. KeepAliveStops'
    BY <2>1, <1>2, <1>3
    DEF KeepAliveStops, ThreadsType, StepsOfFunctions, StopIsFinal, RunNeedsHandler,
        MainStops, network, accepting, checking, IInv, StopSteps, ShutdownSteps,
        BeforeRun, AtSpawn, Acted
  <2>8. CrashIsInRun'
    BY <2>1, <1>2, <1>3
    DEF CrashIsInRun, network, accepting, checking, IInv, StopSteps, ShutdownSteps,
        BeforeRun, AtSpawn, Acted
  <2> QED
    BY <2>1, <2>2, <2>3, <2>4, <2>5, <2>6, <2>7, <2>8 DEF IInv
<1>4. CASE ~(keepAliveThread = "joinable")
  BY <1>1, <1>2, <1>4, MainReturns
  DEF StopKeepAlive, network, accepting, IInv, ThreadsType, StepsOfFunctions,
      StopIsFinal, RunNeedsHandler, ServedIsAccepted, KeepAliveStops, MainStops,
      CrashIsInRun, StopSteps, ShutdownSteps, BeforeRun, AtSpawn, Acted
<1> QED
  BY <1>3, <1>4

LEMMA SignalStopKeepAliveKeeps ==
  ASSUME IInv, StopKeepAlive("signal")
  PROVE  IInv'
<1>1. PcType
  BY DEF IInv
<1>2. SignalStep = "stopSet" /\ process = "running"
  BY <1>1, SignalAt DEF StopKeepAlive
<1>3. CASE keepAliveThread = "joinable"
  <2>1. /\ PcType' /\ SignalStep' = "stopJoin" /\ kaRunning' = FALSE
        /\ UNCHANGED <<platform, process, MainFunction, MainStep, running, network, accepting, keepAliveThread, keepAlive>>
    BY <1>1, <1>2, <1>3, SignalGoes
    DEF StopKeepAlive, network, accepting, Steps
  <2>2. ThreadsType'
    BY <2>1, <1>2, <1>3
    DEF ThreadsType, network, accepting, checking, IInv, StopSteps, ShutdownSteps,
        BeforeRun, AtSpawn, Acted
  <2>3. StepsOfFunctions'
    BY <2>1, <1>2, <1>3
    DEF StepsOfFunctions, network, accepting, checking, IInv, StopSteps, ShutdownSteps,
        BeforeRun, AtSpawn, Acted
  <2>4. StopIsFinal'
    BY <2>1, <1>2, <1>3
    DEF StopIsFinal, ThreadsType, StepsOfFunctions, RunNeedsHandler, network,
        accepting, checking, IInv, StopSteps, ShutdownSteps, BeforeRun, AtSpawn, Acted
  <2>5. RunNeedsHandler'
    BY <2>1, <1>2, <1>3
    DEF RunNeedsHandler, ThreadsType, StepsOfFunctions, StopIsFinal, network,
        accepting, checking, IInv, StopSteps, ShutdownSteps, BeforeRun, AtSpawn, Acted
  <2>6. ServedIsAccepted'
    BY <2>1, <1>2, <1>3
    DEF ServedIsAccepted, ThreadsType, network, accepting, checking, IInv, StopSteps,
        ShutdownSteps, BeforeRun, AtSpawn, Acted
  <2>7. KeepAliveStops'
    BY <2>1, <1>2, <1>3
    DEF KeepAliveStops, ThreadsType, StepsOfFunctions, StopIsFinal, RunNeedsHandler,
        MainStops, network, accepting, checking, IInv, StopSteps, ShutdownSteps,
        BeforeRun, AtSpawn, Acted
  <2>8. CrashIsInRun'
    BY <2>1, <1>2, <1>3
    DEF CrashIsInRun, network, accepting, checking, IInv, StopSteps, ShutdownSteps,
        BeforeRun, AtSpawn, Acted
  <2> QED
    BY <2>1, <2>2, <2>3, <2>4, <2>5, <2>6, <2>7, <2>8 DEF IInv
<1>4. CASE ~(keepAliveThread = "joinable")
  BY <1>1, <1>2, <1>4, SignalReturns
  DEF StopKeepAlive, network, accepting, Steps, IInv, ThreadsType, StepsOfFunctions,
      StopIsFinal, RunNeedsHandler, ServedIsAccepted, KeepAliveStops, MainStops,
      CrashIsInRun, StopSteps, ShutdownSteps, BeforeRun, AtSpawn, Acted
<1> QED
  BY <1>3, <1>4

LEMMA MainKeepAliveJoinedKeeps ==
  ASSUME IInv, KeepAliveJoined("main")
  PROVE  IInv'
<1>1. PcType
  BY DEF IInv
<1>2. MainStep = "stopJoin" /\ process = "running" /\ (platform = "posix" => SignalStep = "none")
  BY <1>1, MainAt DEF KeepAliveJoined
<1> QED
  BY <1>1, <1>2, MainReturns
  DEF KeepAliveJoined, network, accepting, IInv, ThreadsType, StepsOfFunctions,
      StopIsFinal, RunNeedsHandler, ServedIsAccepted, KeepAliveStops, MainStops,
      CrashIsInRun, StopSteps, ShutdownSteps, BeforeRun, AtSpawn, Acted

LEMMA SignalKeepAliveJoinedKeeps ==
  ASSUME IInv, KeepAliveJoined("signal")
  PROVE  IInv'
<1>1. PcType
  BY DEF IInv
<1>2. SignalStep = "stopJoin" /\ process = "running"
  BY <1>1, SignalAt DEF KeepAliveJoined
<1> QED
  <2>1. /\ PcType' /\ SignalStep' = "exit"
        /\ UNCHANGED <<platform, process, MainFunction, MainStep, running, client, accepting>>
        /\ UNCHANGED <<listening, kaRunning, keepAlive>>
        /\ keepAliveThread' = "joined" /\ keepAlive = "done"
    BY <1>1, <1>2, SignalReturns
    DEF KeepAliveJoined, network, accepting, checking, Steps
  <2>2. ThreadsType'
    BY <2>1, <1>2
    DEF ThreadsType, network, accepting, checking, IInv, StopSteps, ShutdownSteps,
        BeforeRun, AtSpawn, Acted
  <2>3. StepsOfFunctions'
    BY <2>1, <1>2
    DEF StepsOfFunctions, network, accepting, checking, IInv, StopSteps, ShutdownSteps,
        BeforeRun, AtSpawn, Acted
  <2>4. StopIsFinal'
    BY <2>1, <1>2
    DEF StopIsFinal, ThreadsType, StepsOfFunctions, RunNeedsHandler, network,
        accepting, checking, IInv, StopSteps, ShutdownSteps, BeforeRun, AtSpawn, Acted
  <2>5. RunNeedsHandler'
    BY <2>1, <1>2
    DEF RunNeedsHandler, ThreadsType, StepsOfFunctions, StopIsFinal, network,
        accepting, checking, IInv, StopSteps, ShutdownSteps, BeforeRun, AtSpawn, Acted
  <2>6. ServedIsAccepted'
    BY <2>1, <1>2
    DEF ServedIsAccepted, ThreadsType, network, accepting, checking, IInv, StopSteps,
        ShutdownSteps, BeforeRun, AtSpawn, Acted
  <2>7. KeepAliveStops'
    BY <2>1, <1>2
    DEF KeepAliveStops, ThreadsType, StepsOfFunctions, StopIsFinal, RunNeedsHandler,
        MainStops, network, accepting, checking, IInv, StopSteps, ShutdownSteps,
        BeforeRun, AtSpawn, Acted
  <2>8. CrashIsInRun'
    BY <2>1, <1>2
    DEF CrashIsInRun, network, accepting, checking, IInv, StopSteps, ShutdownSteps,
        BeforeRun, AtSpawn, Acted
  <2> QED
    BY <2>1, <2>2, <2>3, <2>4, <2>5, <2>6, <2>7, <2>8 DEF IInv

LEMMA MainExitKeeps ==
  ASSUME IInv, Exit("main")
  PROVE  IInv'
<1>1. PcType
  BY DEF IInv
<1> QED
  BY <1>1, NobodyMoves
  DEF Exit, At, End, network, accepting, checking, IInv, ThreadsType, StepsOfFunctions,
      StopIsFinal, RunNeedsHandler, ServedIsAccepted, KeepAliveStops, MainStops,
      CrashIsInRun, StopSteps, ShutdownSteps, BeforeRun, AtSpawn, Acted

LEMMA SignalExitKeeps ==
  ASSUME IInv, Exit("signal")
  PROVE  IInv'
<1>1. PcType
  BY DEF IInv
<1> QED
  BY <1>1, NobodyMoves
  DEF Exit, At, End, network, accepting, checking, IInv, ThreadsType, StepsOfFunctions,
      StopIsFinal, RunNeedsHandler, ServedIsAccepted, KeepAliveStops, MainStops,
      CrashIsInRun, StopSteps, ShutdownSteps, BeforeRun, AtSpawn, Acted

(* A join that fails is one of two, and the other is the handler's.        *)
LEMMA JoinFailsKeeps ==
  ASSUME IInv, NEW t \in Threads, JoinFails(t)
  PROVE  IInv'
<1>1. PcType
  BY DEF IInv
<1>2. process = "running" /\ UNCHANGED pc /\ process' = "terminated"
  BY DEF JoinFails, At, End
<1>3. Acted /\ acceptThread # "none"
  <2>1. CASE /\ SignalStep \in {"joining", "stopJoin"}
             /\ \/ MainStep \in {"joining", "stopJoin"}
                \/ SignalStep = "joining" /\ acceptThread = "joined"
                \/ SignalStep = "stopJoin" /\ keepAliveThread = "joined"
    BY <2>1
    DEF IInv, ThreadsType, StepsOfFunctions, StopIsFinal, RunNeedsHandler,
        ServedIsAccepted, KeepAliveStops, MainStops, CrashIsInRun, StopSteps,
        ShutdownSteps, BeforeRun, AtSpawn, Acted
  <2>2. CASE MainStep = "joining" /\ acceptThread = "joined"
    BY <2>2
    DEF IInv, ThreadsType, StepsOfFunctions, StopIsFinal, RunNeedsHandler,
        ServedIsAccepted, KeepAliveStops, MainStops, CrashIsInRun, StopSteps,
        ShutdownSteps, BeforeRun, AtSpawn, Acted
  <2>3. CASE MainStep = "stopJoin" /\ keepAliveThread = "joined"
    BY <2>3
    DEF IInv, ThreadsType, StepsOfFunctions, StopIsFinal, RunNeedsHandler,
        ServedIsAccepted, KeepAliveStops, MainStops, CrashIsInRun, StopSteps,
        ShutdownSteps, BeforeRun, AtSpawn, Acted
  <2>4. PICK s \in {"joining", "stopJoin"} :
           /\ At(t, s)
           /\ \/ \E u \in Threads \ {t} : pc[u][2] = s
              \/ (IF s = "joining" THEN acceptThread ELSE keepAliveThread) = "joined"
    BY DEF JoinFails
  <2>5. CASE t = "main"
    BY <2>1, <2>2, <2>3, <2>4, <2>5 DEF At, Threads, MainStep, SignalStep
  <2>6. CASE t = "signal"
    BY <2>1, <2>4, <2>6 DEF At, Threads, MainStep, SignalStep
  <2> QED
    BY <2>5, <2>6 DEF Threads
<1> QED
  BY <1>1, <1>2, <1>3, NobodyMoves
  DEF JoinFails, End, network, accepting, checking, IInv, ThreadsType,
      StepsOfFunctions, StopIsFinal, RunNeedsHandler, ServedIsAccepted, KeepAliveStops,
      MainStops, CrashIsInRun, StopSteps, ShutdownSteps, BeforeRun, AtSpawn, Acted

LEMMA HandlerOutlivesServerKeeps ==
  ASSUME IInv, HandlerOutlivesServer
  PROVE  IInv'
<1>1. PcType
  BY DEF IInv
<1>2. process = "running" /\ UNCHANGED pc /\ process' = "terminated" /\ SignalStep \in StopSteps
  BY <1>1, SignalAt DEF HandlerOutlivesServer, At, End, StopSteps
<1>3. MainFunction = "members"
  BY <1>1 DEF HandlerOutlivesServer, RegistryDestroyed, MainFunction
<1> QED
  BY <1>1, <1>2, <1>3, NobodyMoves
  DEF HandlerOutlivesServer, End, network, accepting, checking, IInv, ThreadsType,
      StepsOfFunctions, StopIsFinal, RunNeedsHandler, ServedIsAccepted, KeepAliveStops,
      MainStops, CrashIsInRun, StopSteps, ShutdownSteps, BeforeRun, AtSpawn, Acted

LEMMA RequestOutlivesServerKeeps ==
  ASSUME IInv, NEW c \in Clients, RequestOutlivesServer(c)
  PROVE  IInv'
<1>1. PcType
  BY DEF IInv
<1>2. MainFunction = "members" /\ UNCHANGED pc
  BY DEF RequestOutlivesServer, CatalogDestroyed, MainFunction, End
<1> QED
  BY <1>1, <1>2, NobodyMoves
  DEF RequestOutlivesServer, End, network, accepting, checking, IInv, ThreadsType,
      StepsOfFunctions, StopIsFinal, RunNeedsHandler, ServedIsAccepted, KeepAliveStops,
      MainStops, CrashIsInRun, StopSteps, ShutdownSteps, BeforeRun, AtSpawn, Acted

(* The accept loop.                                                        *)
LEMMA TestRunningKeeps ==
  ASSUME IInv, TestRunning
  PROVE  IInv'
<1>1. PcType
  BY DEF IInv
<1> QED
  BY <1>1, NobodyMoves
  DEF TestRunning, Accepts, AcceptGoto, network, checking, IInv, ThreadsType,
      StepsOfFunctions, StopIsFinal, RunNeedsHandler, ServedIsAccepted, KeepAliveStops,
      MainStops, CrashIsInRun, StopSteps, ShutdownSteps, BeforeRun, AtSpawn, Acted

LEMMA CallAcceptKeeps ==
  ASSUME IInv, CallAccept
  PROVE  IInv'
<1>1. PcType
  BY DEF IInv
<1> QED
  BY <1>1, NobodyMoves
  DEF CallAccept, Accepts, AcceptGoto, network, checking, IInv, ThreadsType,
      StepsOfFunctions, StopIsFinal, RunNeedsHandler, ServedIsAccepted, KeepAliveStops,
      MainStops, CrashIsInRun, StopSteps, ShutdownSteps, BeforeRun, AtSpawn, Acted

LEMMA AcceptConnectionKeeps ==
  ASSUME IInv, NEW c \in Clients, AcceptConnection(c)
  PROVE  IInv'
<1>1. PcType
  BY DEF IInv
<1>2. CASE client' = [client EXCEPT ![c] = "reading"] /\ AcceptGoto("testing")
  BY <1>1, <1>2, NobodyMoves
  DEF AcceptConnection, Accepts, AcceptGoto, checking, IInv, ThreadsType,
      StepsOfFunctions, StopIsFinal, RunNeedsHandler, ServedIsAccepted, KeepAliveStops,
      MainStops, CrashIsInRun, StopSteps, ShutdownSteps, BeforeRun, AtSpawn, Acted
<1>3. CASE NoThreadLeft /\ UNCHANGED <<client, running, accepting, checking>>
  BY <1>1, <1>3, NobodyMoves
  DEF AcceptConnection, NoThreadLeft, End, accepting, checking, IInv, ThreadsType,
      StepsOfFunctions, StopIsFinal, RunNeedsHandler, ServedIsAccepted, KeepAliveStops,
      MainStops, CrashIsInRun, StopSteps, ShutdownSteps, BeforeRun, AtSpawn, Acted
<1> QED
  BY <1>2, <1>3 DEF AcceptConnection

LEMMA AcceptFailsKeeps ==
  ASSUME IInv, AcceptFails
  PROVE  IInv'
<1>1. PcType
  BY DEF IInv
<1> QED
  BY <1>1, NobodyMoves
  DEF AcceptFails, Accepts, AcceptGoto, network, checking, IInv, ThreadsType,
      StepsOfFunctions, StopIsFinal, RunNeedsHandler, ServedIsAccepted, KeepAliveStops,
      MainStops, CrashIsInRun, StopSteps, ShutdownSteps, BeforeRun, AtSpawn, Acted

LEMMA AcceptInterruptedKeeps ==
  ASSUME IInv, AcceptInterrupted
  PROVE  IInv'
<1>1. PcType
  BY DEF IInv
<1> QED
  BY <1>1, NobodyMoves
  DEF AcceptInterrupted, Accepts, AcceptGoto, network, checking, IInv, ThreadsType,
      StepsOfFunctions, StopIsFinal, RunNeedsHandler, ServedIsAccepted, KeepAliveStops,
      MainStops, CrashIsInRun, StopSteps, ShutdownSteps, BeforeRun, AtSpawn, Acted

(* The connections.                                                        *)
LEMMA ConnectKeeps ==
  ASSUME IInv, NEW c \in Clients, Connect(c)
  PROVE  IInv'
<1>1. PcType
  BY DEF IInv
<1> QED
  BY <1>1, NobodyMoves
  DEF Connect, accepting, checking, IInv, ThreadsType, StepsOfFunctions, StopIsFinal,
      RunNeedsHandler, ServedIsAccepted, KeepAliveStops, MainStops, CrashIsInRun,
      StopSteps, ShutdownSteps, BeforeRun, AtSpawn, Acted

LEMMA HandleClientKeeps ==
  ASSUME IInv, NEW c \in Clients, HandleClient(c)
  PROVE  IInv'
<1>1. PcType
  BY DEF IInv
<1> QED
  BY <1>1, NobodyMoves
  DEF HandleClient, ReceiveRequest, ReceiveFails, Respond, Serve, accepting, checking,
      IInv, ThreadsType, StepsOfFunctions, StopIsFinal, RunNeedsHandler,
      ServedIsAccepted, KeepAliveStops, MainStops, CrashIsInRun, StopSteps,
      ShutdownSteps, BeforeRun, AtSpawn, Acted

(* The keep-alive thread.                                                  *)
LEMMA KeepAliveKeeps ==
  ASSUME IInv, KeepAlive
  PROVE  IInv'
<1>1. PcType
  BY DEF IInv
<1> QED
  BY <1>1, NobodyMoves
  DEF KeepAlive, TestKeepAlive, WakeUp, CheckNodeHealth, KeepAliveStep, network,
      accepting, IInv, ThreadsType, StepsOfFunctions, StopIsFinal, RunNeedsHandler,
      ServedIsAccepted, KeepAliveStops, MainStops, CrashIsInRun, StopSteps,
      ShutdownSteps, BeforeRun, AtSpawn, Acted

----------------------------------------------------------------------------

LEMMA InitHolds == Init => IInv
<1> SUFFICES ASSUME Init PROVE IInv
  OBVIOUS
<1>1. PcType /\ MainFunction = "start" /\ MainStep = "network" /\ SignalStep = "none"
  BY DEF Init, Threads, Functions, Steps, PcType, MainFunction, MainStep, SignalStep
<1>2. ServedIsAccepted
  BY DEF Init, ServedIsAccepted
<1> QED
  BY <1>1, <1>2
  DEF Init, IInv, ThreadsType, StepsOfFunctions, StopIsFinal, RunNeedsHandler,
      KeepAliveStops, MainStops, CrashIsInRun, StopSteps, ShutdownSteps, BeforeRun,
      AtSpawn, Acted

LEMMA StopKeeps ==
  ASSUME IInv, NEW t \in Threads, Stop(t)
  PROVE  IInv'
<1>1. CASE t = "main"
  BY <1>1, MainShutdownKeeps, MainCloseListenSocketKeeps, MainJoinAcceptThreadKeeps,
     MainAcceptThreadJoinedKeeps, MainStopKeepAliveCheckerKeeps, MainStopKeepAliveKeeps,
     MainKeepAliveJoinedKeeps, MainExitKeeps
  DEF Stop
<1>2. CASE t = "signal"
  BY <1>2, SignalShutdownKeeps, SignalCloseListenSocketKeeps, SignalJoinAcceptThreadKeeps,
     SignalAcceptThreadJoinedKeeps, SignalStopKeepAliveCheckerKeeps, SignalStopKeepAliveKeeps,
     SignalKeepAliveJoinedKeeps, SignalExitKeeps
  DEF Stop
<1> QED
  BY <1>1, <1>2 DEF Threads

LEMMA NextKeeps == IInv /\ [Next]_vars => IInv'
<1> SUFFICES ASSUME IInv, [Next]_vars PROVE IInv'
  OBVIOUS
<1>1. CASE Main
  BY <1>1, InitializeNetworkKeeps, CreateListenSocketKeeps, RunKeeps, StartAcceptThreadKeeps,
     AwaitAcceptThreadKeeps, DestroyKeepAliveThreadKeeps
  DEF Main
<1>2. CASE Signal
  BY <1>2, SignalKeeps
<1>3. CASE \E t \in Threads : Stop(t) \/ JoinFails(t)
  BY <1>3, StopKeeps, JoinFailsKeeps
<1>4. CASE HandlerOutlivesServer
  BY <1>4, HandlerOutlivesServerKeeps
<1>5. CASE AcceptLoop \/ AcceptFails
  BY <1>5, TestRunningKeeps, CallAcceptKeeps, AcceptInterruptedKeeps, AcceptConnectionKeeps, AcceptFailsKeeps
  DEF AcceptLoop
<1>6. CASE \E c \in Clients : Connect(c) \/ HandleClient(c) \/ RequestOutlivesServer(c)
  BY <1>6, ConnectKeeps, HandleClientKeeps, RequestOutlivesServerKeeps
<1>7. CASE KeepAlive
  BY <1>7, KeepAliveKeeps
<1>8. CASE UNCHANGED vars
  BY <1>8, NobodyMoves
  DEF vars, IInv, ThreadsType, StepsOfFunctions, StopIsFinal, RunNeedsHandler,
      ServedIsAccepted, KeepAliveStops, MainStops, CrashIsInRun, StopSteps,
      ShutdownSteps, BeforeRun, AtSpawn, Acted
<1> QED
  BY <1>1, <1>2, <1>3, <1>4, <1>5, <1>6, <1>7, <1>8 DEF Next

LEMMA InvariantHolds == Spec => []IInv
  BY InitHolds, NextKeeps, PTL DEF Spec

(* The variables have their types in every reachable state, and a thread   *)
(* object counts as joined only when its thread has ended.                 *)
THEOREM ServerTypeCorrect == Spec => []TypeOK
<1>1. IInv => TypeOK
  BY DEF IInv, TypeOK, PcType, ThreadsType, ServedIsAccepted
<1> QED
  BY InvariantHolds, <1>1, PTL

(* Run never sets running again behind a Shutdown: once Shutdown has       *)
(* passed its test, in main or in the handler, the accept loop can only    *)
(* end.                                                                    *)
THEOREM ShutdownHoldsForGood == Spec => []ShutdownIsFinal
<1>1. IInv => ShutdownIsFinal
  BY DEF IInv, ShutdownIsFinal, StopIsFinal, Stopping, Threads, MainFunction, MainStep, SignalStep, StopSteps
<1> QED
  BY InvariantHolds, <1>1, PTL

(* The keep-alive thread never sweeps a registry that main has destroyed.  *)
THEOREM SweepsALiveRegistry == Spec => []RegistryOutlivesSweep
<1>1. IInv => RegistryOutlivesSweep
  BY DEF IInv, RegistryOutlivesSweep, RegistryDestroyed, KeepAliveStops, ThreadsType, MainStep
<1> QED
  BY InvariantHolds, <1>1, PTL

(* Without a signal that interrupts Run the process is terminated for want *)
(* of a thread and for nothing else, however the start fails and whatever  *)
(* the clients do.                                                         *)
THEOREM CrashOnlyInRun == Spec => []CrashNeedsInterruptedRun
<1>1. IInv => CrashNeedsInterruptedRun
  BY DEF IInv, CrashNeedsInterruptedRun, CrashIsInRun, HandlerActed, Acted, SignalStep
<1> QED
  BY InvariantHolds, <1>1, PTL

(* A client thread can meet destroyed managers only on Windows and behind  *)
(* a handler that has acted.                                               *)
THEOREM ExposureOnlyByHandler == Spec => []ExposureNeedsHandler
<1>1. IInv => ExposureNeedsHandler
  BY PlatformsAssumption
  DEF IInv, ExposureNeedsHandler, CatalogDestroyed, AtWork, HandlerActed, Acted,
      MainFunction, SignalStep, ThreadsType, ServedIsAccepted, RunNeedsHandler
<1> QED
  BY InvariantHolds, <1>1, PTL
=============================================================================
