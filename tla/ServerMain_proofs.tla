---------------------------- MODULE ServerMain_proofs ----------------------------
(***************************************************************************)
(* Proofs about ServerMain, for any requests, ports, files and outcomes of *)
(* binding the address.  The inductive invariant says, for each point of   *)
(* main, which objects there are and whether the server may be up.         *)
(***************************************************************************)
EXTENDS ServerMain, TLAPS

Early == {"options", "load", "logging"}
Starting == {"params", "signals", "registry"}
InBlock == {"construct", "endpoints", "run", "wait", "stop", "reset",
            "leave"}
Late == {"shutdown", "return"}

\* The server may be up, and there are requests, only now: while main has it,
\* while an exception leaves main, and when std::terminate has ended it.
Up ==
  \/ /\ pc \in {"wait", "stdin", "stop"}
     /\ options.mode \in {"http", "both"}
  \/ Thrown /\ handles
  \/ exit = "terminated" /\ alive = Objects /\ complete = Parts

\* Which modes reach which points, and where the signal handlers are there.
ModeInv ==
  /\ pc \in (Early \ {"options"}) \union Starting =>
       options.mode \in {"http", "stdio", "both"}
  /\ pc \in InBlock => options.mode \in {"http", "both"}
  /\ pc = "stdin" => options.mode \in {"stdio", "both"}
  /\ pc \in {"registry", "stdin"} \union InBlock \union Late => handles

\* The objects at each point of main.
AliveInv ==
  /\ pc \in Early => alive = {}
  /\ pc \in Starting => alive = {"logger"}
  /\ pc = "construct" => alive = {"logger", "registry"}
  /\ pc \in {"endpoints", "run", "wait", "stop", "reset"} =>
       alive = Objects
  /\ pc = "stdin" => alive = IF options.mode = "both" THEN Objects
                             ELSE {"logger", "registry"}
  /\ pc = "leave" => alive = Objects \ {"http"}
  /\ pc = "shutdown" => alive = {"logger", "registry"}
  /\ pc = "return" => alive = {"registry"}
  /\ pc = "fatal" => alive \subseteq {"logger", "http"}
  /\ pc = "statics" => alive \subseteq {"http"}
  /\ exit \in {"success", "failure"} => alive = {}

\* What the server has been given at each point.
CompleteInv ==
  /\ pc \in {"construct", "endpoints"} => complete = {"capabilities", "content"}
  /\ pc \in {"run", "wait", "stop"} => complete = Parts
  /\ pc = "stdin" /\ options.mode = "both" => complete = Parts

\* Requests only while the server is up.
UpInv ==
  /\ up => Up
  /\ \A r \in Requests : Served(r) => Up

MainInv ==
  /\ options \in Options \union {None}
  /\ job \in [Requests -> Stages]
  /\ pc = "ended" <=> exit # None
  /\ up \in BOOLEAN
  /\ ModeInv /\ AliveInv /\ CompleteInv /\ UpInv

\* Before its first step main has nothing.
LEMMA InitInv == Init => MainInv
BY DEF Stages, Init, MainInv, ModeInv, AliveInv, CompleteInv, UpInv, Served,
       Early, Starting, InBlock, Late

\* A step of main.
LEMMA MainSteps == ASSUME MainInv, Main PROVE MainInv'
<1> USE DEF Early, Starting, InBlock, Late, Go, config, outside, http,
            Objects, Parts
<1> USE OptionsAssumption
<1>1. CASE CheckOptions
  BY <1>1 DEF CheckOptions, Options, MainInv, ModeInv, AliveInv, CompleteInv, UpInv, Up, Thrown, Served
<1>2. CASE Load
  <2>1. /\ pc = "load"
        /\ UNCHANGED <<options, handles, alive, complete, up, job>>
    BY <1>2 DEF Load
  <2>2. \/ pc' = "logging" /\ UNCHANGED exit
        \/ pc' = "ended" /\ exit' = "terminated"
    BY <1>2 DEF Load
  <2> QED
    BY <2>1, <2>2
    DEF MainInv, ModeInv, AliveInv, CompleteInv, UpInv, Up, Thrown, Served
<1>3. CASE ConfigureLogging
  BY <1>3 DEF ConfigureLogging, MainInv, ModeInv, AliveInv, CompleteInv, UpInv, Up, Thrown, Served
<1>4. CASE SetParams
  BY <1>4 DEF SetParams, MainInv, ModeInv, AliveInv, CompleteInv, UpInv, Up, Thrown, Served
<1>5. CASE InstallHandlers
  BY <1>5 DEF InstallHandlers, MainInv, ModeInv, AliveInv, CompleteInv, UpInv, Up, Thrown, Served
<1>6. CASE CreateRegistry
  BY <1>6 DEF CreateRegistry, MainInv, ModeInv, AliveInv, CompleteInv, UpInv, Up, Thrown, Served
<1>7. CASE Construct
  BY <1>7
  DEF Construct, MainInv, ModeInv, AliveInv, CompleteInv, UpInv, Up, Thrown, Served
<1>8. CASE RegisterEndpoints
  BY <1>8
  DEF RegisterEndpoints, MainInv, ModeInv, AliveInv, CompleteInv, UpInv, Up, Thrown, Served
<1>9. CASE RunServer
  BY <1>9
  DEF RunServer, MainInv, ModeInv, AliveInv, CompleteInv, UpInv, Up, Thrown, Served
<1>10. CASE WaitUntilStopped
  BY <1>10
  DEF WaitUntilStopped, MainInv, ModeInv, AliveInv, CompleteInv, UpInv, Up, Thrown, Served
<1>11. CASE RunStdioServer
  BY <1>11
  DEF RunStdioServer, MainInv, ModeInv, AliveInv, CompleteInv, UpInv, Up, Thrown, Served
<1>12. CASE TerminateStdioServer
  BY <1>12
  DEF TerminateStdioServer, MainInv, ModeInv, AliveInv, CompleteInv, UpInv, Up, Thrown, Served
<1>13. CASE StopServer
  BY <1>13
  DEF StopServer, MainInv, ModeInv, AliveInv, CompleteInv, UpInv, Up, Thrown, Served
<1>14. CASE ResetServer
  BY <1>14
  DEF ResetServer, MainInv, ModeInv, AliveInv, CompleteInv, UpInv, Up, Thrown, Served
<1>15. CASE LeaveBlock
  BY <1>15
  DEF LeaveBlock, MainInv, ModeInv, AliveInv, CompleteInv, UpInv, Up, Thrown, Served
<1>16. CASE ShutdownLogger
  BY <1>16
  DEF ShutdownLogger, MainInv, ModeInv, AliveInv, CompleteInv, UpInv, Up, Thrown, Served
<1>17. CASE ReturnFromMain
  BY <1>17
  DEF ReturnFromMain, MainInv, ModeInv, AliveInv, CompleteInv, UpInv, Up, Thrown, Served
<1>18. CASE Unwind
  BY <1>18
  DEF Unwind, MainInv, ModeInv, AliveInv, CompleteInv, UpInv, Up, Thrown, Served
<1>19. CASE Fatal
  BY <1>19
  DEF Fatal, MainInv, ModeInv, AliveInv, CompleteInv, UpInv, Up, Thrown, Served
<1>20. CASE DestroyStatics
  BY <1>20
  DEF DestroyStatics, MainInv, ModeInv, AliveInv, CompleteInv, UpInv, Up, Thrown, Served
<1> QED
  BY <1>1, <1>2, <1>3, <1>4, <1>5, <1>6, <1>7, <1>8, <1>9, <1>10,
     <1>11, <1>12, <1>13, <1>14, <1>15, <1>16, <1>17, <1>18, <1>19, <1>20
  DEF Main

\* A signal, the end of the input, and the steps of requests.
LEMMA OutsideSteps ==
  ASSUME MainInv, Signal \/ Input \/ (\E r \in Requests : Job(r))
  PROVE  MainInv'
<1> USE DEF Early, Starting, InBlock, Late, config, outside, http, Objects,
            Parts
<1> USE OptionsAssumption
<1>1. CASE Signal
  BY <1>1 DEF Signal, MainInv, ModeInv, AliveInv, CompleteInv, UpInv, Up, Thrown, Served
<1>2. CASE Input
  BY <1>2 DEF Input, MainInv, ModeInv, AliveInv, CompleteInv, UpInv, Up, Thrown, Served
<1>3. ASSUME NEW r \in Requests, Job(r) PROVE MainInv'
  <2>1. /\ UNCHANGED <<options, pc, handles, alive, complete, up, exit>>
        /\ job' \in [Requests -> Stages]
        /\ Served(r)' => Served(r) \/ up
        /\ \A q \in Requests : Served(q)' => Served(q) \/ q = r
    BY <1>3
    DEF Job, Begin, Answer, Post, PostedDone, StrayDone, Move, Served, MainInv,
        Stages
  <2>2. \A q \in Requests : Served(q)' => Up
    BY <2>1 DEF MainInv, UpInv
  <2> QED
    BY <2>1, <2>2 DEF MainInv, ModeInv, AliveInv, CompleteInv, UpInv, Up, Thrown
<1> QED  BY <1>1, <1>2, <1>3

\* Every step preserves the invariant.
LEMMA NextInv == MainInv /\ [Next]_vars => MainInv'
<1> SUFFICES ASSUME MainInv, [Next]_vars PROVE MainInv'
  OBVIOUS
<1>1. CASE UNCHANGED vars
  BY <1>1
  DEF vars, MainInv, ModeInv, AliveInv, CompleteInv, UpInv, Up, Thrown, Served
<1>2. CASE Ended
  BY <1>1, <1>2 DEF Ended
<1> QED  BY <1>1, <1>2, MainSteps, OutsideSteps DEF Next

\* The invariant holds throughout (main and StartHttpServer).
THEOREM MainInductive == Spec => []MainInv
BY InitInv, NextInv, PTL DEF Spec

\* Requests are only served between the construction and the destruction of
\* all they use, whatever the mode, whatever signals arrive and wherever the
\* process ends by std::terminate; but for the time after an exception of Run.
THEOREM RequestsSafe == Spec => []RequestsFindEverything
<1>1. MainInv => RequestsFindEverything
  <2> SUFFICES ASSUME MainInv, NEW r \in Requests, Served(r), ~Thrown
               PROVE  alive = Objects /\ complete = Parts
    BY DEF RequestsFindEverything
  <2>1. Up
    BY DEF MainInv, UpInv
  <2> QED
    BY <2>1 DEF Up, MainInv, ModeInv, AliveInv, CompleteInv
<1> QED  BY <1>1, MainInductive, PTL

\* When main has returned, also after an exception of any call before or after
\* the server is there, the process ends with nothing left: after an exception
\* it is the destructor of the static g_http_server that stops the server.
THEOREM MainCleansUp == Spec => []NothingLeft
<1>1. MainInv => NothingLeft
  BY OptionsAssumption
  DEF MainInv, AliveInv, UpInv, Up, Thrown, NothingLeft
<1> QED  BY <1>1, MainInductive, PTL

\* A signal does not end a process that reads std::cin, nor its HTTP server: as
\* long as the input is open, only a message that makes a noexcept function
\* throw does (mcp_demo_server_main.cpp:536-540 and 601-603).
THEOREM SignalsDoNotEndStdio == Spec => InputKeepsServing
<1> DEFINE Keeps ==
      options # None /\ options.mode \in {"stdio", "both"}
        /\ pc = "stdin" /\ input = "open" => pc' = "stdin" /\ up' = up
<1>1. MainInv /\ [Next]_vars => [Keeps]_vars
  <2> SUFFICES ASSUME MainInv, Next, pc = "stdin", input = "open"
               PROVE  pc' = "stdin" /\ up' = up
    OBVIOUS
  <2>1. CASE Main
    BY <2>1
    DEF Main, CheckOptions, Load, ConfigureLogging, SetParams,
        InstallHandlers, CreateRegistry, Construct, RegisterEndpoints,
        RunServer, WaitUntilStopped, RunStdioServer, TerminateStdioServer, StopServer,
        ResetServer, LeaveBlock, ShutdownLogger, ReturnFromMain, Unwind, Fatal, DestroyStatics, Go
  <2>2. CASE Signal
    BY <2>2 DEF Signal, MainInv, ModeInv, http
  <2>3. CASE Input
    BY <2>3 DEF Input, http
  <2>4. CASE \E r \in Requests : Job(r)
    BY <2>4 DEF Job, Begin, Answer, Post, PostedDone, StrayDone, Move,
                 http
  <2>5. CASE Ended
    BY <2>5 DEF Ended, vars
  <2> QED  BY <2>1, <2>2, <2>3, <2>4, <2>5 DEF Next
<1> QED  BY <1>1, MainInductive, PTL DEF Spec, InputKeepsServing

-------------------------------------------------------------------------------
(* Types.                                                                  *)

\* The parameters are there before anything uses them.
ConfigTypes ==
  /\ options \in Options \union {None}
  /\ file \in Files
  /\ cfg \in Values
  /\ loaded \in BOOLEAN
  /\ params \in Values \union {None}
  /\ params # None /\ ~loaded =>
       params.host # "" /\ params.port # 0 /\ params.threads # 0
  /\ pc \in (Early \ {"options"}) \union Starting => options # None
  /\ pc \in {"signals", "registry", "construct", "endpoints", "run"} =>
       params # None

ControlTypes ==
  /\ pc \in {"options", "load", "logging", "params", "signals", "registry",
             "construct", "endpoints", "run", "wait", "stdin", "stop", "reset",
             "leave", "shutdown", "return", "fatal", "statics", "ended"}
  /\ handles \in BOOLEAN /\ flag \in BOOLEAN
  /\ input \in {"open", "bad", "ended"}
  /\ exit \in {None, "success", "failure", "killed", "terminated"}

ServerTypes ==
  /\ alive \subseteq Objects
  /\ complete \subseteq Parts
  /\ up \in BOOLEAN
  /\ job \in [Requests -> Stages]

TypeInv == ConfigTypes /\ ControlTypes /\ ServerTypes

\* A record of a host and two numbers.
LEMMA ValuesOf ==
  ASSUME NEW h \in Hosts, NEW p \in Int, NEW t \in Int
  PROVE  [host |-> h, port |-> p, threads |-> t] \in Values
BY DEF Values

\* Config begins with values, and has them when its loading has failed.
LEMMA ZeroValues == Zero \in Values /\ HalfWritten \in Values
<1> DEFINE empty == ""
<1>1. empty \in Hosts
  BY HostsAssumption
<1>2. Zero = [host |-> empty, port |-> 0, threads |-> 0]
  BY DEF Zero
<1> HIDE DEF empty
<1>3. Zero \in Values
  BY <1>1, <1>2, ValuesOf
<1>4. HalfWritten \in Values
  BY <1>3 DEF HalfWritten, Values
<1> QED  BY <1>3, <1>4

\* Whatever is in the file, Config holds values.
LEMMA LoadConfig == ASSUME ConfigTypes, Load PROVE ConfigTypes'
<1>1. file.state = "good" => file.values \in Values
  BY OptionsAssumption DEF ConfigTypes, File
<1>3. cfg' \in Values /\ loaded' \in BOOLEAN /\ (loaded => loaded')
      /\ pc' \in {"logging", "ended"} /\ pc = "load"
  BY <1>1, ZeroValues DEF Load, ConfigTypes
<1>4. UNCHANGED <<options, file, params>>
  BY DEF Load
<1> QED  BY <1>3, <1>4 DEF ConfigTypes, Early, Starting

\* The parameters are values, and none of them is a zero of Config.
LEMMA ParamsConfig == ASSUME ConfigTypes, SetParams PROVE ConfigTypes'
<1>1. options \in Options
  BY DEF ConfigTypes, SetParams, Go, Starting
<1>2. cfg \in Values
  BY DEF ConfigTypes
<1>3. /\ cfg.host \in Hosts /\ cfg.port \in Int /\ cfg.threads \in Int
      /\ options.port \in Int /\ options.threads \in {0, 2}
  BY <1>1, <1>2, OptionsAssumption DEF Options, Values
<1> DEFINE h == IF options.host # "" THEN options.host
                ELSE IF loaded THEN cfg.host ELSE "127.0.0.1"
           p == IF options.port # 0 THEN options.port
                ELSE IF loaded THEN cfg.port ELSE 8080
           t == IF options.threads # 0 THEN options.threads
                ELSE IF loaded THEN cfg.threads ELSE 1
<1>4. /\ h \in Hosts
      /\ ~loaded => h # ""
  <2>1. options.host \in {"", "0.0.0.0"}
    BY <1>1 DEF Options
  <2> QED  BY <1>3, <2>1, HostsAssumption
<1>5. /\ p \in Int
      /\ ~loaded => p # 0
  BY <1>3
<1>6. /\ t \in Int
      /\ ~loaded => t # 0
  BY <1>3
<1>7. params' = [host |-> h, port |-> p, threads |-> t]
  BY DEF SetParams
<1> HIDE DEF h, p, t
<1>8. params' \in Values
  BY <1>4, <1>5, <1>6, <1>7, ValuesOf
<1>9. ~loaded => params'.host # "" /\ params'.port # 0 /\ params'.threads # 0
  BY <1>4, <1>5, <1>6, <1>7
<1>10. params' # None
  BY <1>8, HostsAssumption
<1>11. UNCHANGED <<options, file, cfg, loaded>> /\ pc' = "signals"
       /\ pc = "params"
  BY DEF SetParams, Go
<1> QED
  BY <1>8, <1>9, <1>10, <1>11 DEF ConfigTypes, Early, Starting

\* The other steps change neither.
LEMMA OtherConfig ==
  ASSUME ConfigTypes, [Next]_vars, ~Load, ~SetParams PROVE ConfigTypes'
<1>1. UNCHANGED <<options, file, cfg, loaded, params>>
  BY DEF Next, Main, CheckOptions, ConfigureLogging, InstallHandlers,
         CreateRegistry, Construct, RegisterEndpoints, RunServer, 
         WaitUntilStopped, RunStdioServer, TerminateStdioServer, StopServer, ResetServer,
         LeaveBlock, ShutdownLogger, ReturnFromMain, Unwind, Fatal, DestroyStatics, Signal, Input,
         Job, Begin, Answer, Post, PostedDone, StrayDone, Move, Ended, Go,
         config, vars
<1>2. pc' \in Early \ {"options"} =>
        options # None \/ pc \in Early \ {"options"}
  BY DEF Next, Main, CheckOptions, ConfigureLogging, InstallHandlers,
         CreateRegistry, Construct, RegisterEndpoints, RunServer, 
         WaitUntilStopped, RunStdioServer, TerminateStdioServer, StopServer, ResetServer,
         LeaveBlock, ShutdownLogger, ReturnFromMain, Unwind, Fatal, DestroyStatics, Signal, Input,
         Job, Begin, Answer, Post, PostedDone, StrayDone, Move, Ended, Go,
         vars, Early
<1>3. /\ pc' = "params" => pc \in {"params", "logging"}
      /\ pc' = "signals" => pc = "signals"
      /\ pc' = "registry" => pc \in {"registry", "signals"}
      /\ pc' = "construct" => pc \in {"construct", "registry"}
      /\ pc' = "endpoints" => pc \in {"endpoints", "construct"}
      /\ pc' = "run" => pc \in {"run", "endpoints"}
  BY DEF Next, Main, CheckOptions, ConfigureLogging, InstallHandlers,
         CreateRegistry, Construct, RegisterEndpoints, RunServer, 
         WaitUntilStopped, RunStdioServer, TerminateStdioServer, StopServer, ResetServer,
         LeaveBlock, ShutdownLogger, ReturnFromMain, Unwind, Fatal, DestroyStatics, Signal, Input,
         Job, Begin, Answer, Post, PostedDone, StrayDone, Move, Ended, Go,
         vars
<1> QED  BY <1>1, <1>2, <1>3 DEF ConfigTypes, Early, Starting

\* Where main is and how it ends.
LEMMA ControlStep == ControlTypes /\ [Next]_vars => ControlTypes'
<1> SUFFICES ASSUME ControlTypes, [Next]_vars PROVE ControlTypes'
  OBVIOUS
<1>1. CASE Main
  <2>1. pc' \in {"options", "load", "logging", "params", "signals",
                 "registry", "construct", "endpoints", "run", "wait", "stdin",
                 "stop", "reset", "leave", "shutdown", "return", "fatal",
                 "statics", "ended"}
    BY <1>1
    DEF Main, CheckOptions, Load, ConfigureLogging, SetParams,
        InstallHandlers, CreateRegistry, Construct, RegisterEndpoints,
        RunServer, WaitUntilStopped, RunStdioServer, TerminateStdioServer, StopServer,
        ResetServer, LeaveBlock, ShutdownLogger, ReturnFromMain, Unwind, Fatal, DestroyStatics, Go
  <2>2. exit' \in {exit, "success", "failure", "terminated"}
    BY <1>1
    DEF Main, CheckOptions, Load, ConfigureLogging, SetParams,
        InstallHandlers, CreateRegistry, Construct, RegisterEndpoints,
        RunServer, WaitUntilStopped, RunStdioServer, TerminateStdioServer, StopServer,
        ResetServer, LeaveBlock, ShutdownLogger, ReturnFromMain, Unwind, Fatal, DestroyStatics, Go
  <2>3. handles' \in {handles, TRUE} /\ flag' \in {flag, FALSE}
        /\ UNCHANGED input
    BY <1>1
    DEF Main, CheckOptions, Load, ConfigureLogging, SetParams,
        InstallHandlers, CreateRegistry, Construct, RegisterEndpoints,
        RunServer, WaitUntilStopped, RunStdioServer, TerminateStdioServer, StopServer,
        ResetServer, LeaveBlock, ShutdownLogger, ReturnFromMain, Unwind, Fatal, DestroyStatics, Go,
        config, outside
  <2> QED  BY <2>1, <2>2, <2>3 DEF ControlTypes
<1>2. CASE Signal
  BY <1>2 DEF Signal, ControlTypes
<1>3. CASE Input
  BY <1>3 DEF Input, ControlTypes
<1>4. CASE \E r \in Requests : Job(r)
  <2>1. UNCHANGED <<pc, handles, flag, input, exit>>
    BY <1>4
    DEF Job, Begin, Answer, Post, PostedDone, StrayDone, Move, outside
  <2> QED  BY <2>1 DEF ControlTypes
<1>5. CASE Ended \/ UNCHANGED vars
  BY <1>5 DEF Ended, vars, ControlTypes
<1> QED  BY <1>1, <1>2, <1>3, <1>4, <1>5 DEF Next

\* The objects, the port and the requests.
LEMMA ServerStep ==
  ConfigTypes /\ ServerTypes /\ [Next]_vars => ServerTypes'
<1> SUFFICES ASSUME ConfigTypes, ServerTypes, [Next]_vars PROVE ServerTypes'
  OBVIOUS
<1>1. CASE RunServer
  BY <1>1, OptionsAssumption DEF RunServer, Go, ServerTypes
<1>2. CASE \E r \in Requests : Job(r)
  <2>1. UNCHANGED <<alive, complete, up>>
    BY <1>2 DEF Job, Begin, Answer, Post, PostedDone, StrayDone, Move, http
  <2>2. job' \in [Requests -> Stages]
    BY <1>2
    DEF Job, Begin, Answer, Post, PostedDone, StrayDone, Move, ServerTypes,
        Stages
  <2> QED  BY <2>1, <2>2 DEF ServerTypes
<1>3. CASE Main /\ ~RunServer
  <2>1. UNCHANGED job /\ up' \in {up, FALSE, TRUE}
    BY <1>3
    DEF Main, CheckOptions, Load, ConfigureLogging, SetParams,
        InstallHandlers, CreateRegistry, Construct, RegisterEndpoints,
        WaitUntilStopped, RunStdioServer, TerminateStdioServer, StopServer, ResetServer,
        LeaveBlock, ShutdownLogger, ReturnFromMain, Unwind, Fatal, DestroyStatics, Go, http
  <2>2. alive' \subseteq Objects /\ complete' \subseteq Parts
    BY <1>3
    DEF Main, CheckOptions, Load, ConfigureLogging, SetParams,
        InstallHandlers, CreateRegistry, Construct, RegisterEndpoints,
        WaitUntilStopped, RunStdioServer, TerminateStdioServer, StopServer, ResetServer,
        LeaveBlock, ShutdownLogger, ReturnFromMain, Unwind, Fatal, DestroyStatics, http, ServerTypes,
        Objects, Parts
  <2> QED  BY <2>1, <2>2 DEF ServerTypes
<1>4. CASE Signal \/ Input \/ Ended \/ UNCHANGED vars
  <2>1. UNCHANGED <<alive, complete, up, job>>
    BY <1>4 DEF Signal, Input, Ended, http, vars
  <2> QED  BY <2>1 DEF ServerTypes
<1> QED  BY <1>1, <1>2, <1>3, <1>4 DEF Next

\* Config, the parameters and the port have their types for any options and
\* files, and a server whose configuration was not loaded, or only half, runs
\* on no zero of it.
THEOREM MainTypes == Spec => []TypeOK
<1>1. Init => TypeInv
  <2> SUFFICES ASSUME Init PROVE TypeInv
    OBVIOUS
  <2>1. ConfigTypes
    BY ZeroValues DEF Init, ConfigTypes, Early, Starting
  <2>2. ControlTypes
    BY DEF Init, ControlTypes
  <2>3. ServerTypes
    BY DEF Init, ServerTypes, Stages
  <2> QED  BY <2>1, <2>2, <2>3 DEF TypeInv
<1>2. TypeInv /\ [Next]_vars => TypeInv'
  BY LoadConfig, ParamsConfig, OtherConfig, ControlStep, ServerStep
  DEF TypeInv
<1>3. TypeInv => TypeOK
  BY DEF TypeInv, ConfigTypes, ControlTypes, ServerTypes, TypeOK
<1> QED  BY <1>1, <1>2, <1>3, PTL DEF Spec

-------------------------------------------------------------------------------
(* What becomes of a process that is told to end.                          *)

\* The steps main may have before it.
Rank(p) ==
  [options |-> 16, load |-> 15, logging |-> 14, params |-> 13, signals |-> 12,
   registry |-> 11, construct |-> 10, endpoints |-> 9, run |-> 8,
   wait |-> 7, stdin |-> 7, stop |-> 6, reset |-> 5, leave |-> 4,
   shutdown |-> 3, return |-> 2, fatal |-> 2, statics |-> 1, ended |-> 0][p]

\* The steps a request may still make.
JobRank(j) ==
  [new |-> 4, running |-> 3, posted |-> 2, finishing |-> 1, stray |-> 1,
   dropped |-> 0, done |-> 0][j]

\* A signal in http mode, or the end of the input in the others, has come,
\* and main has noticed it or is where it will.
Told ==
  \/ pc = "wait" /\ ~flag
  \/ pc = "stdin" /\ input = "ended"
  \/ pc \in {"stop", "reset", "leave", "shutdown", "return"}

\* main never goes back.
LEMMA MainGoesOn ==
  ASSUME MainInv, Main PROVE Rank(pc') < Rank(pc)
<1> USE DEF Go, Rank
<1>1. CASE CheckOptions
  <2>1. pc = "options" /\ pc' \in {"fatal", "ended", "load"}
    BY <1>1 DEF CheckOptions
  <2> QED  BY <2>1
<1>2. CASE Load
  <2>1. pc = "load" /\ pc' \in {"logging", "ended"}
    BY <1>2 DEF Load
  <2> QED  BY <2>1
<1>3. CASE ConfigureLogging
  <2>1. pc = "logging" /\ pc' \in {"params", "fatal"}
    BY <1>3 DEF ConfigureLogging
  <2> QED  BY <2>1
<1>4. CASE SetParams
  <2>1. pc = "params" /\ pc' = "signals"
    BY <1>4 DEF SetParams
  <2> QED  BY <2>1
<1>5. CASE InstallHandlers
  BY <1>5 DEF InstallHandlers
<1>6. CASE CreateRegistry
  <2>1. pc = "registry" /\ pc' \in {"stdin", "construct"}
    BY <1>6 DEF CreateRegistry
  <2> QED  BY <2>1
<1>7. CASE Construct
  BY <1>7 DEF Construct
<1>8. CASE RegisterEndpoints
  BY <1>8 DEF RegisterEndpoints
<1>9. CASE RunServer
  BY <1>9 DEF RunServer
<1>10. CASE WaitUntilStopped
  BY <1>10 DEF WaitUntilStopped
<1>11. CASE RunStdioServer
  BY <1>11 DEF RunStdioServer
<1>12. CASE TerminateStdioServer
  BY <1>12 DEF TerminateStdioServer
<1>13. CASE StopServer
  BY <1>13 DEF StopServer
<1>14. CASE ResetServer
  BY <1>14 DEF ResetServer
<1>15. CASE LeaveBlock
  BY <1>15 DEF LeaveBlock
<1>16. CASE ShutdownLogger
  BY <1>16 DEF ShutdownLogger
<1>17. CASE ReturnFromMain
  BY <1>17 DEF ReturnFromMain
<1>18. CASE Unwind
  BY <1>18 DEF Unwind
<1>19. CASE Fatal
  BY <1>19 DEF Fatal
<1>20. CASE DestroyStatics
  BY <1>20 DEF DestroyStatics
<1> QED
  BY <1>1, <1>2, <1>3, <1>4, <1>5, <1>6, <1>7, <1>8, <1>9, <1>10,
     <1>11, <1>12, <1>13, <1>14, <1>15, <1>16, <1>17, <1>18, <1>19, <1>20
  DEF Main

\* Once told, it goes on to return.
LEMMA ToldGoesOn ==
  ASSUME MainInv, Told, Main PROVE Told' \/ exit' = "success"
<1>1. CASE pc = "wait" \/ pc = "stdin"
  BY <1>1 DEF Told, Main, Go, CheckOptions, Load, ConfigureLogging, SetParams,
              InstallHandlers, CreateRegistry, Construct, RegisterEndpoints,
              RunServer, WaitUntilStopped, RunStdioServer, TerminateStdioServer, StopServer,
              ResetServer, LeaveBlock, ShutdownLogger, ReturnFromMain, Unwind, Fatal, DestroyStatics
<1>2. CASE pc \in {"stop", "reset", "leave", "shutdown", "return"}
  BY <1>2 DEF Told, Main, Go, CheckOptions, Load, ConfigureLogging, SetParams,
              InstallHandlers, CreateRegistry, Construct, RegisterEndpoints,
              RunServer, WaitUntilStopped, RunStdioServer, TerminateStdioServer, StopServer,
              ResetServer, LeaveBlock, ShutdownLogger, ReturnFromMain, Unwind, Fatal, DestroyStatics
<1> QED  BY <1>1, <1>2 DEF Told

\* Signals, the input and the requests do not hold it up: the handlers are
\* installed, and nothing clears what they have done.
LEMMA OutsideKeepsTold ==
  ASSUME MainInv, Told,
         \/ Signal \/ Input
         \/ (\E r \in Requests : Job(r))
         \/ Ended \/ UNCHANGED vars
  PROVE  Told' /\ UNCHANGED pc
<1>1. handles
  BY DEF Told, MainInv, ModeInv, InBlock, Late
<1>2. CASE Signal
  BY <1>1, <1>2 DEF Signal, Told, config, http
<1>3. CASE Input
  BY <1>3 DEF Input, Told
<1>4. CASE \E r \in Requests : Job(r)
  <2>1. UNCHANGED <<pc, flag, input>>
    BY <1>4 DEF Job, Begin, Answer, Post, PostedDone, StrayDone, Move, outside
  <2> QED  BY <2>1 DEF Told
<1>5. CASE Ended \/ UNCHANGED vars
  BY <1>5 DEF Ended, vars, Told
<1> QED  BY <1>2, <1>3, <1>4, <1>5

\* A request goes forward.
LEMMA JobsGoOn ==
  ASSUME MainInv, [Next]_vars, NEW r \in Requests
  PROVE  job'[r] = job[r] \/ JobRank(job'[r]) < JobRank(job[r])
<1>1. CASE \E q \in Requests : Job(q)
  <2>1. PICK q \in Requests, from, to \in Stages :
          /\ job[q] = from /\ job' = [job EXCEPT ![q] = to]
          /\ JobRank(to) < JobRank(from)
    BY <1>1 DEF Job, Begin, Answer, Post, PostedDone, StrayDone, Move, JobRank,
                Stages
  <2> QED  BY <2>1 DEF MainInv
<1>2. CASE ~\E q \in Requests : Job(q)
  <2>1. UNCHANGED job
    BY <1>2 DEF Next, Main, Go, CheckOptions, Load, ConfigureLogging, SetParams,
                InstallHandlers, CreateRegistry, Construct, RegisterEndpoints,
                RunServer, WaitUntilStopped, RunStdioServer,
                TerminateStdioServer, StopServer, ResetServer, LeaveBlock, ShutdownLogger,
                ReturnFromMain, Unwind, Fatal, DestroyStatics, Signal, Input, Ended, vars
  <2> QED  BY <2>1
<1> QED  BY <1>1, <1>2

\* An exception on its way out of main is not held up either; a signal may
\* only end the process earlier, before the handlers are installed.
LEMMA ThrownGoesOn ==
  ASSUME MainInv, Thrown, [Next]_vars
  PROVE  /\ Thrown' \/ exit' \in {"failure", "killed"}
         /\ UNCHANGED pc \/ Rank(pc') < Rank(pc)
<1>1. CASE Main
  <2>1. Fatal \/ DestroyStatics
    BY <1>1 DEF Thrown, Main, Go, CheckOptions, Load, ConfigureLogging,
                SetParams, InstallHandlers, CreateRegistry, Construct,
                RegisterEndpoints, RunServer, WaitUntilStopped, RunStdioServer,
                TerminateStdioServer, StopServer, ResetServer, LeaveBlock,
                ShutdownLogger, ReturnFromMain, Unwind
  <2>2. Thrown' \/ exit' = "failure"
    BY <2>1 DEF Fatal, DestroyStatics, Go, Thrown
  <2> QED  BY <1>1, <2>2, MainGoesOn
<1>2. CASE Signal
  <2>1. UNCHANGED pc \/ (pc' = "ended" /\ exit' = "killed")
    BY <1>2 DEF Signal
  <2>2. pc' = "ended" => Rank(pc') < Rank(pc)
    BY DEF Thrown, Rank
  <2> QED  BY <2>1, <2>2 DEF Thrown
<1>3. CASE UNCHANGED pc
  BY <1>3 DEF Thrown
<1>4. Main \/ Signal \/ UNCHANGED pc
  BY DEF Next, Input, Job, Begin, Answer, Post, PostedDone, StrayDone, Move,
         Ended, vars
<1> QED  BY <1>1, <1>2, <1>3, <1>4

\* The way to the end: once a process is told to end, in http mode by a
\* signal and in the others by the end of its input, or an exception leaves
\* main, neither signals nor requests take it back, every step of main is one
\* nearer to the end, and what StopServer and DestroyStatics wait for are
\* requests that go forward too (mcp_demo_server_main.cpp:517-615).
THEOREM ToldToEnd ==
  Spec => /\ [][Told => Told' \/ exit' = "success"]_vars
          /\ [][Thrown => Thrown' \/ exit' \in {"failure", "killed"}]_vars
          /\ [][Told \/ Thrown => UNCHANGED pc \/ Rank(pc') < Rank(pc)]_vars
          /\ [][\A r \in Requests :
                  job'[r] = job[r] \/ JobRank(job'[r]) < JobRank(job[r])]_vars
<1>1. MainInv /\ [Next]_vars => [Told => Told' \/ exit' = "success"]_vars
  BY ToldGoesOn, OutsideKeepsTold DEF Next
<1>2. MainInv /\ [Next]_vars =>
        [Told \/ Thrown => UNCHANGED pc \/ Rank(pc') < Rank(pc)]_vars
  BY MainGoesOn, OutsideKeepsTold, ThrownGoesOn DEF Next
<1>3. MainInv /\ [Next]_vars =>
        [\A r \in Requests :
           job'[r] = job[r] \/ JobRank(job'[r]) < JobRank(job[r])]_vars
  BY JobsGoOn
<1>4. MainInv /\ [Next]_vars =>
        [Thrown => Thrown' \/ exit' \in {"failure", "killed"}]_vars
  BY ThrownGoesOn
<1> QED  BY <1>1, <1>2, <1>3, <1>4, MainInductive, PTL DEF Spec
===============================================================================
