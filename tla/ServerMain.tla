------------------------------- MODULE ServerMain -------------------------------
(***************************************************************************)
(* The process of the demo server (src/src/mcp_demo_server_main.cpp): main *)
(* with the configuration (src/src/config), signals, the three modes, and  *)
(* the lifetimes of the objects the coroutines of the HTTP server use.     *)
(***************************************************************************)
EXTENDS Integers, FiniteSets

CONSTANTS
  Requests,      \* requests that reach the HTTP server
  Hosts,         \* addresses, and "" when --host is not given
  Ports,         \* --port: 0 when not given
  Files,         \* the configuration file: a subset of File
  BindMayFail,   \* the address may be in use
  None

\* What Config holds.
Values == [host : Hosts, port : Int, threads : Int]

\* The file is missing, cannot be opened or is no JSON ("unusable"), may not
\* even be asked for, has a member of the wrong type, or gives every member a
\* value.
File == [state : {"unusable", "no access", "wrong types"}]
          \union [state : {"good"}, values : Values]

ASSUME OptionsAssumption ==
  /\ Ports \subseteq Int
  /\ Files \subseteq File
  /\ BindMayFail \in BOOLEAN
  /\ None \notin {"success", "failure", "killed", "terminated"} \union Int

ASSUME HostsAssumption ==
  /\ "" \in Hosts /\ "0.0.0.0" \in Hosts /\ "127.0.0.1" \in Hosts
  /\ None \notin Values

VARIABLES
  options,   \* what ParseOptions returned, or None: it has thrown
  file,      \* the configuration file
  pc,        \* where main is
  cfg,       \* Config::cfg_
  loaded,    \* config_loaded
  params,    \* host, port and thread_num
  handles,   \* the signal handlers are installed
  flag,      \* g_running
  input,     \* std::cin: open, open with a message that ends the process, or
             \* ended
  alive,     \* the objects that have been constructed and not destroyed
  complete,  \* what the server has been given: content, endpoints, callback
  up,        \* the HTTP server listens
  job,       \* job[r]: where the coroutine of request r is
  exit       \* how the process has ended

config == <<options, file, cfg, loaded, params>>
outside == <<handles, flag, input>>
http == <<alive, complete, up>>
vars == <<options, file, pc, cfg, loaded, params, handles, flag, input, alive,
          complete, up, job, exit>>

Options ==
  [mode : {"http", "stdio", "both", "other"}, host : {"", "0.0.0.0"},
   port : Ports, threads : {0, 2}, help : BOOLEAN]

\* Config is a static object: its members begin as zeros.
Zero == [host |-> "", port |-> 0, threads |-> 0]

\* The conversion into cfg_ has failed after its first member.
HalfWritten == [Zero EXCEPT !.port = 8080]

Init ==
  /\ options \in Options \union {None}
  /\ file \in Files
  /\ pc = "options"
  /\ cfg = Zero
  /\ loaded = FALSE
  /\ params = None
  /\ handles = FALSE
  /\ flag = TRUE
  /\ input = "open"
  /\ alive = {}
  /\ complete = {}
  /\ up = FALSE
  /\ job = [r \in Requests |-> "new"]
  /\ exit = None

-------------------------------------------------------------------------------
(* Start.                                                                  *)

Go(from, to) == pc = from /\ pc' = to /\ UNCHANGED <<job, exit>>

\* ParseOptions throws, help is asked for, or the mode is none.
CheckOptions ==
  /\ pc = "options"
  /\ \/ /\ options = None
        /\ pc' = "fatal" /\ UNCHANGED exit
     \/ /\ options # None /\ options.help
        /\ pc' = "ended" /\ exit' = "success"
     \/ /\ options # None /\ ~options.help
        /\ pc' = IF options.mode = "other" THEN "fatal" ELSE "load"
        /\ UNCHANGED exit
  /\ UNCHANGED <<config, outside, http, job>>

\* LoadFromFile: the exceptions it catches leave cfg_ partly written.  It is
\* noexcept, and does not catch a json::type_error, nor what exists() throws.
Load ==
  /\ pc = "load"
  /\ \/ /\ file.state = "unusable"
        /\ pc' = "logging"
        /\ UNCHANGED <<cfg, loaded, exit>>
     \/ /\ file.state = "no access"
        /\ pc' = "ended" /\ exit' = "terminated"
        /\ UNCHANGED <<cfg, loaded>>
     \/ /\ file.state = "wrong types"
        /\ \/ /\ cfg' \in {Zero, HalfWritten}
              /\ pc' = "logging"
              /\ UNCHANGED exit
           \/ pc' = "ended" /\ exit' = "terminated" /\ UNCHANGED cfg
        /\ UNCHANGED loaded
     \/ /\ file.state = "good"
        /\ cfg' = file.values
        /\ loaded' = TRUE
        /\ pc' = "logging"
        /\ UNCHANGED exit
  /\ UNCHANGED <<options, file, params, outside, http, job>>

\* ConfigureLogging: Init may throw, for want of a directory for the log.
ConfigureLogging ==
  /\ \/ /\ Go("logging", "params")
        /\ alive' = alive \union {"logger"}
     \/ /\ Go("logging", "fatal")
        /\ UNCHANGED alive
  /\ UNCHANGED <<config, outside, complete, up>>

\* Mutant: Config is asked although no file was loaded.
SetParams_Unloaded ==
  /\ Go("params", "signals")
  /\ params' =
       [host |-> IF options.host # "" THEN options.host ELSE cfg.host,
        port |-> IF options.port # 0 THEN options.port ELSE cfg.port,
        threads |-> IF options.threads # 0 THEN options.threads
                    ELSE cfg.threads]
  /\ UNCHANGED <<options, file, cfg, loaded, outside, http>>

\* The command line, or else the file, or else the defaults of README.md:93.
SetParams ==
  /\ Go("params", "signals")
  /\ params' =
       [host |-> IF options.host # "" THEN options.host
                 ELSE IF loaded THEN cfg.host ELSE "127.0.0.1",
        port |-> IF options.port # 0 THEN options.port
                 ELSE IF loaded THEN cfg.port ELSE 8080,
        threads |-> IF options.threads # 0 THEN options.threads
                    ELSE IF loaded THEN cfg.threads ELSE 1]
  /\ UNCHANGED <<options, file, cfg, loaded, outside, http>>

InstallHandlers ==
  /\ Go("signals", "registry")
  /\ handles' = TRUE
  /\ UNCHANGED <<config, flag, input, http>>

\* McpServer, SetCapabilities and RegisterDemoContent.
CreateRegistry ==
  /\ Go("registry", IF options.mode = "stdio" THEN "stdin" ELSE "construct")
  /\ alive' = alive \union {"registry"}
  /\ complete' = {"capabilities", "content"}
  /\ UNCHANGED <<config, outside, up>>

-------------------------------------------------------------------------------
(* StartHttpServer.                                                        *)

\* EventQueue events, and the server object.
Construct ==
  /\ Go("construct", "endpoints")
  /\ alive' = alive \union {"events", "http"}
  /\ UNCHANGED <<config, outside, complete, up>>

\* RegisterSseEndpoints and SetSseCallback.
RegisterEndpoints ==
  /\ Go("endpoints", "run")
  /\ complete' = complete \union {"endpoints", "callback"}
  /\ UNCHANGED <<config, outside, alive, up>>

\* Run: async_start binds the address or fails, and nobody asks.
RunServer ==
  /\ Go("run", IF options.mode = "http" THEN "wait" ELSE "stdin")
  /\ up' \in {TRUE, ~BindMayFail}
  /\ UNCHANGED <<config, outside, alive, complete>>

\* The registry, the constructor, the endpoints or Run throws, Run perhaps when
\* it listens already.  On its way to the handler in main the exception
\* destroys the queue and the registry; g_http_server is static and stays.
Unwind ==
  /\ \E at \in {"registry", "construct", "endpoints", "run"} : Go(at, "fatal")
  /\ alive' = alive \ {"registry", "events"}
  /\ up' \in {FALSE, pc = "run"}
  /\ UNCHANGED <<config, outside, complete>>

-------------------------------------------------------------------------------
(* Until the end.                                                          *)

\* WaitUntilStopped.
WaitUntilStopped ==
  /\ Go("wait", "stop")
  /\ ~flag
  /\ UNCHANGED <<config, outside, http>>

\* Mutant: the loop over the input looks at g_running too.
RunStdioServer_Signalled ==
  /\ Go("stdin", IF options.mode = "both" THEN "stop" ELSE "shutdown")
  /\ input = "ended" \/ ~flag
  /\ UNCHANGED <<config, outside, http>>

\* RunStdioServer returns at the end of std::cin; nothing there looks at
\* g_running.
RunStdioServer ==
  /\ Go("stdin", IF options.mode = "both" THEN "stop" ELSE "shutdown")
  /\ input = "ended"
  /\ flag' = IF options.mode = "both" THEN FALSE ELSE flag
  /\ UNCHANGED <<config, handles, input, http>>

\* A message of a negative length, or one whose reply cannot be dumped, throws
\* in a noexcept function (see StdioServer).
TerminateStdioServer ==
  /\ pc = "stdin" /\ input = "bad"
  /\ pc' = "ended" /\ exit' = "terminated"
  /\ UNCHANGED <<config, outside, http, job>>

\* The coroutine of r runs on a thread of the server.
Served(r) == job[r] \in {"running", "finishing"}

\* Mutant: the server is stopped in main's last lines, after the queue is gone.
StopServer_Late ==
  /\ Go("stop", "reset")
  /\ alive' = alive \ {"events"}
  /\ UNCHANGED <<config, outside, complete, up>>

\* Mutant: the posted work is waited for as well.
StopServer_WaitsForPosted ==
  /\ Go("stop", "reset")
  /\ \A r \in Requests : ~Served(r) /\ job[r] # "posted"
  /\ up' = FALSE
  /\ UNCHANGED <<config, outside, alive, complete>>

\* StopHttpServer: Stop waits for the threads of the server.
StopServer ==
  /\ Go("stop", "reset")
  /\ \A r \in Requests : ~Served(r)
  /\ up' = FALSE
  /\ UNCHANGED <<config, outside, alive, complete>>

\* g_http_server.reset(); then events goes out of scope.
ResetServer ==
  /\ Go("reset", "leave")
  /\ alive' = alive \ {"http"}
  /\ UNCHANGED <<config, outside, complete, up>>

LeaveBlock ==
  /\ Go("leave", "shutdown")
  /\ alive' = alive \ {"events"}
  /\ UNCHANGED <<config, outside, complete, up>>

ShutdownLogger ==
  /\ Go("shutdown", "return")
  /\ alive' = alive \ {"logger"}
  /\ UNCHANGED <<config, outside, complete, up>>

\* server goes out of scope.
ReturnFromMain ==
  /\ pc = "return" /\ pc' = "ended"
  /\ exit' = "success"
  /\ alive' = alive \ {"registry"}
  /\ UNCHANGED <<config, outside, complete, up, job>>

\* Mutant: the logger is left as it is.
Fatal_NoShutdown ==
  /\ Go("fatal", "statics")
  /\ UNCHANGED <<config, outside, http>>

\* The handler of exceptions; it leaves g_http_server alone.
Fatal ==
  /\ Go("fatal", "statics")
  /\ alive' = alive \ {"logger"}
  /\ UNCHANGED <<config, outside, complete, up>>

\* return 1: the destructor of g_http_server, if there is a server, stops it.
DestroyStatics ==
  /\ pc = "statics" /\ pc' = "ended"
  /\ \A r \in Requests : ~Served(r)
  /\ exit' = "failure"
  /\ alive' = alive \ {"http"}
  /\ up' = FALSE
  /\ UNCHANGED <<config, outside, complete, job>>

-------------------------------------------------------------------------------
(* Signals, the input, and the requests.                                   *)

\* HandleSignal, or the default action of SIGINT and SIGTERM.
Signal ==
  /\ exit = None
  /\ \/ /\ handles
        /\ flag' = FALSE
        /\ UNCHANGED <<pc, exit>>
     \/ /\ ~handles
        /\ pc' = "ended" /\ exit' = "killed"
        /\ UNCHANGED flag
  /\ UNCHANGED <<config, handles, input, http, job>>

\* The input ends, or brings a message that will end the process.
Input ==
  /\ exit = None
  /\ input = "open" /\ input' \in {"ended", "bad"}
  /\ UNCHANGED <<config, pc, handles, flag, http, job, exit>>

\* The coroutine of a request goes from one state to another.
Move(r, from, to) ==
  /\ exit = None
  /\ job[r] = from
  /\ job' = [job EXCEPT ![r] = to]
  /\ UNCHANGED <<config, pc, outside, http, exit>>

Begin(r) == up /\ Move(r, "new", "running")
Answer(r) == Move(r, "running", "done") \/ Move(r, "finishing", "done")

\* write_file posts work to a thread the server does not own.
Post(r) == Move(r, "running", "posted")

\* The work is done.  While the server is up the request goes on there; after
\* its stop the library may drop it or go on in the thread that did the work.
PostedDone(r) ==
  \/ up /\ Move(r, "posted", "finishing")
  \/ ~up /\ Move(r, "posted", "dropped")
  \/ ~up /\ Move(r, "posted", "stray")

StrayDone(r) == Move(r, "stray", "done")

-------------------------------------------------------------------------------
(* The specification.                                                      *)

Main ==
  \/ CheckOptions \/ Load \/ ConfigureLogging \/ SetParams \/ InstallHandlers
  \/ CreateRegistry
  \/ Construct \/ RegisterEndpoints \/ RunServer
  \/ WaitUntilStopped \/ RunStdioServer \/ TerminateStdioServer
  \/ StopServer \/ ResetServer \/ LeaveBlock
  \/ ShutdownLogger \/ ReturnFromMain
  \/ Unwind \/ Fatal \/ DestroyStatics

Job(r) == Begin(r) \/ Answer(r) \/ Post(r) \/ PostedDone(r) \/ StrayDone(r)

Ended == exit # None /\ UNCHANGED vars

Next ==
  \/ Main
  \/ Signal
  \/ Input
  \/ \E r \in Requests : Job(r)
  \/ Ended

Spec == Init /\ [][Next]_vars

\* main runs, and so does a request that has a thread.  Nobody need send a
\* signal or end the input, and posted work may take for ever.
FairSpec ==
  Spec /\ WF_vars(Main) /\ \A r \in Requests : WF_vars(Answer(r) \/ Post(r))

-------------------------------------------------------------------------------
(* Properties.                                                             *)

Objects == {"logger", "registry", "events", "http"}
Stages ==
  {"new", "running", "posted", "finishing", "dropped", "stray", "done"}
Parts == {"capabilities", "content", "endpoints", "callback"}

\* Types of the process, its objects and its parameters: it never runs on
\* the zeros of a configuration that was not loaded.
TypeOK ==
  /\ options \in Options \union {None}
  /\ file \in Files
  /\ pc \in {"options", "load", "logging", "params", "signals", "registry",
             "construct", "endpoints", "run", "wait", "stdin", "stop", "reset",
             "leave", "shutdown", "return", "fatal", "statics", "ended"}
  /\ cfg \in Values
  /\ loaded \in BOOLEAN /\ handles \in BOOLEAN /\ flag \in BOOLEAN
  /\ params \in Values \union {None}
  /\ params # None /\ ~loaded =>
       params.host # "" /\ params.port # 0 /\ params.threads # 0
  /\ input \in {"open", "bad", "ended"}
  /\ alive \subseteq Objects
  /\ complete \subseteq Parts
  /\ up \in BOOLEAN
  /\ job \in [Requests -> Stages]
  /\ exit \in {None, "success", "failure", "killed", "terminated"}

\* An exception is on its way out of main, or has left it.
Thrown == pc \in {"fatal", "statics"}

\* From the first request the server accepts to the last step of the last
\* one, everything a request may touch is there: the content and capabilities
\* are registered, the callback installed, and the registry, the queue the
\* callback and the streams refer to, the server object and the logger exist.
\* Two exceptions: work that was posted when the server stopped is on its own,
\* and when Run throws while it listens, the queue and the registry go first
\* and the server is stopped after main.
RequestsFindEverything ==
  \A r \in Requests :
    Served(r) /\ ~Thrown => alive = Objects /\ complete = Parts

\* Whichever way main ends, by return or by an exception of any of its calls:
\* when the process ends no server listens, no thread is in a request, and the
\* logger, the server, the queue and the registry have been destroyed.
NothingLeft ==
  exit \in {"success", "failure"} =>
    /\ alive = {} /\ ~up
    /\ \A r \in Requests : ~Served(r)

\* A process ends when it is told to: in http mode by a signal, in the other
\* modes by the end of its input, unless a message in it ends the process; and
\* after an exception too, although the server may be up then.
EndsWhenTold ==
  /\ pc = "wait" /\ ~flag ~> exit = "success"
  /\ pc = "stdin" /\ input = "ended" ~> exit = "success"
  /\ pc = "fatal" ~> exit \in {"failure", "killed"}

\* While std::cin is open, with no message in it that ends the process, no
\* number of signals ends a process in stdio or both mode once it reads its
\* input, and in both mode the HTTP server stays up: "Run both transports"
\* (README.md:70) holds to the end.
InputKeepsServing ==
  [][options # None /\ options.mode \in {"stdio", "both"}
     /\ pc = "stdin" /\ input = "open" => pc' = "stdin" /\ up' = up]_vars
===============================================================================
