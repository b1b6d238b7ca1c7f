--------------------------------- MODULE Logger ---------------------------------
(***************************************************************************)
(* mcp::Logger (src/src/logger): one spdlog logger, which is also in the   *)
(* registry of spdlog under its name.  Code outside the logger may put its *)
(* own loggers there: then Init can fail after it has set logger_.         *)
(***************************************************************************)
EXTENDS Naturals, Sequences

CONSTANTS
  Names,      \* names of loggers
  Levels,     \* spdlog::level
  Info,       \* spdlog::level::info
  Foreign,    \* a logger that is not ours
  Free,       \* no logger
  MaxLoggers  \* bound: loggers that are constructed

ASSUME LoggerAssumption ==
  /\ Info \in Levels
  /\ Foreign # Free
  /\ Foreign \notin Nat /\ Free \notin Nat
  /\ MaxLoggers \in Nat

VARIABLES
  loggers,      \* history: the loggers Init has constructed
  logger,       \* logger_: an index of loggers, or 0 for a null pointer
  initialized,  \* initialized_
  registry      \* spdlog's registry: the logger of each name

vars == <<loggers, logger, initialized, registry>>

Start ==
  /\ loggers = <<>>
  /\ logger = 0
  /\ initialized = FALSE
  /\ registry = [n \in Names |-> Free]

-------------------------------------------------------------------------------

\* Init returns at once.
InitAgain == initialized /\ UNCHANGED vars

\* Init throws while it makes the sinks, as for a log file without a
\* directory, and has changed nothing.
InitWithoutSinks == ~initialized /\ UNCHANGED vars

\* Mutant: logger_ is set to a logger that is not constructed.
Init_Dangling(n) ==
  /\ ~initialized
  /\ Len(loggers) < MaxLoggers
  /\ logger' = Len(loggers) + 1
  /\ UNCHANGED <<loggers, registry, initialized>>

\* Init: logger_ is set first; register_logger throws if the name is taken.
Init(n) ==
  /\ ~initialized
  /\ Len(loggers) < MaxLoggers
  /\ loggers' = Append(loggers, [name |-> n, level |-> Info])
  /\ logger' = Len(loggers) + 1
  /\ \/ /\ registry[n] = Free
        /\ registry' = [registry EXCEPT ![n] = Len(loggers) + 1]
        /\ initialized' = TRUE
     \/ /\ registry[n] # Free
        /\ UNCHANGED <<registry, initialized>>

\* SetLevel needs a logger: it follows logger_ without a test.
SetLevel(l) ==
  /\ logger # 0
  /\ loggers' = [loggers EXCEPT ![logger].level = l]
  /\ UNCHANGED <<logger, initialized, registry>>

\* Mutant: a logger is dropped that Init could not register.
Shutdown_AnyLogger ==
  \/ /\ logger = 0
     /\ UNCHANGED vars
  \/ /\ logger # 0
     /\ registry' = [registry EXCEPT ![loggers[logger].name] = Free]
     /\ logger' = 0
     /\ initialized' = FALSE
     /\ UNCHANGED loggers

\* Mutant: the logger stays in the registry.
Shutdown_KeepsName ==
  \/ /\ ~initialized \/ logger = 0
     /\ UNCHANGED vars
  \/ /\ initialized /\ logger # 0
     /\ logger' = 0
     /\ initialized' = FALSE
     /\ UNCHANGED <<loggers, registry>>

\* spdlog::drop takes whatever has the name of logger_.
Shutdown ==
  \/ /\ ~initialized \/ logger = 0
     /\ UNCHANGED vars
  \/ /\ initialized /\ logger # 0
     /\ registry' = [registry EXCEPT ![loggers[logger].name] = Free]
     /\ logger' = 0
     /\ initialized' = FALSE
     /\ UNCHANGED loggers

\* Other code registers a logger and drops it.  Assumed of it: it drops only
\* what it has registered (nothing in the sources drops any logger but here).
OthersRegister(n) ==
  /\ registry[n] = Free
  /\ registry' = [registry EXCEPT ![n] = Foreign]
  /\ UNCHANGED <<loggers, logger, initialized>>

OthersDrop(n) ==
  /\ registry[n] = Foreign
  /\ registry' = [registry EXCEPT ![n] = Free]
  /\ UNCHANGED <<loggers, logger, initialized>>

Next ==
  \/ InitAgain
  \/ InitWithoutSinks
  \/ \E n \in Names : Init(n)
  \/ \E l \in Levels : SetLevel(l)
  \/ Shutdown
  \/ \E n \in Names : OthersRegister(n) \/ OthersDrop(n)

Spec == Start /\ [][Next]_vars

-------------------------------------------------------------------------------
(* Properties.                                                             *)

\* Types of the logger and the registry.
TypeOK ==
  /\ loggers \in Seq([name : Names, level : Levels])
  /\ logger \in 0 .. Len(loggers)
  /\ initialized \in BOOLEAN
  /\ registry \in [Names -> (Nat \ {0}) \union {Foreign, Free}]

\* initialized_, logger_ and spdlog's registry agree, whatever failed before:
\* while the logger is initialized it can be found under its name, so that
\* SetLevel sets the level of the logger others find there, and otherwise
\* nothing of it is left in the registry and every name can be used again.
RegisteredWhileInitialized ==
  /\ initialized => logger # 0 /\ registry[loggers[logger].name] = logger
  /\ \A n \in Names :
       registry[n] \in Nat =>
         initialized /\ registry[n] = logger /\ loggers[logger].name = n

\* The logger of other code stays in the registry: neither an Init that fails
\* on its name nor the Shutdown after it takes it away.
ForeignLoggersStay ==
  [][\A n \in Names :
       registry[n] = Foreign /\ registry'[n] # Foreign => OthersDrop(n)]_vars
===============================================================================
