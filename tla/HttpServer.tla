------------------------------- MODULE HttpServer -------------------------------
(***************************************************************************)
(* mcp::HttpJsonRpcServer (src/src/json_rpc/http_jsonrpc.cpp) on the       *)
(* worker threads of cinatra, with the two streams and the file writes of  *)
(* the demo server (src/src/mcp_demo_server_main.cpp).                     *)
(*                                                                         *)
(* A connection is served by one coroutine on one worker, which it keeps   *)
(* until it awaits something: a write to the network, a timer, or work     *)
(* posted to another thread.  What it has awaited puts it at the end of    *)
(* the run queue of its worker.                                            *)
(***************************************************************************)
EXTENDS Naturals, Sequences, FiniteSets

CONSTANTS
  Workers,        \* thread_num threads
  Requests,       \* connections that send one request
  Routes,         \* what they may ask for: a subset of Route
  StatusStreams,  \* connections to GET /sse/events
  CallStreams,    \* connections to GET /sse/tool_calls
  SlowClients,    \* connections whose client need not read what it is sent
  MaxBatch,       \* bound: events drained at once
  MaxStarts,      \* bound: calls of async_start
  None            \* nobody, nothing

Streams == StatusStreams \union CallStreams
Conns == Requests \union Streams

\* "write_file" is a POST /jsonrpc that calls the tool write_file, "jsonrpc"
\* any other, "unknown" what no handler is registered for.
Route == {"jsonrpc", "write_file", "OPTIONS", "health", "info", "unknown"}

\* What a coroutine awaits.
Kinds == {"network", "timer", "posted work"}

ASSUME ConnsAssumption ==
  /\ Requests \intersect Streams = {}
  /\ StatusStreams \intersect CallStreams = {}
  /\ SlowClients \subseteq Streams
  /\ Routes \subseteq Route
  /\ MaxBatch \in Nat /\ MaxStarts \in Nat
  /\ None \notin Conns \union Workers \union Kinds

VARIABLES
  running,  \* HttpJsonRpcServer::running_
  server,   \* the cinatra server
  starts,   \* history: how often async_start has been called
  flag,     \* g_running
  pc,       \* pc[c]: where the coroutine of c goes on
  route,    \* route[c]: what request c asks for
  left,     \* left[c]: events stream c has drained and not written
  worker,   \* worker[c]: the thread c is served by
  awaits,   \* awaits[c]: what c waits for
  ready,    \* ready[w]: the connections that can go on on w
  on        \* on[w]: the connection w is serving

owner == <<running, server, starts>>
conns == <<pc, route, left, worker, awaits>>
vars == <<running, server, starts, flag, pc, route, left, worker, awaits,
          ready, on>>

Init ==
  /\ running = FALSE
  /\ server = "constructed"
  /\ starts = 0
  /\ flag = TRUE
  /\ pc = [c \in Conns |-> "new"]
  /\ route = [c \in Requests |-> None]
  /\ left = [c \in Streams |-> 0]
  /\ worker = [c \in Conns |-> None]
  /\ awaits = [c \in Conns |-> None]
  /\ ready = [w \in Workers |-> <<>>]
  /\ on = [w \in Workers |-> None]

-------------------------------------------------------------------------------
(* The owner of the server, who calls Run, Stop and the destructor one     *)
(* after the other, in any order and number.                               *)

\* running_ is all that Run looks at, so it also starts a server that has been
\* stopped.  async_start listens or fails; its result is dropped.
Run ==
  /\ server \notin {"stopping", "destroyed"}
  /\ \/ /\ running
        /\ UNCHANGED owner
     \/ /\ ~running /\ starts < MaxStarts
        /\ running' = TRUE
        /\ starts' = starts + 1
        /\ server' \in {"listening", "failed"}
  /\ UNCHANGED <<flag, conns, ready, on>>

\* running_.store(false); server.stop() begins: no worker takes up another
\* coroutine.
Stop ==
  /\ running
  /\ running' = FALSE
  /\ server' = "stopping"
  /\ UNCHANGED <<starts, flag, conns, ready, on>>

\* server.stop() returns when its threads have ended.
Stopped ==
  /\ server = "stopping"
  /\ \A w \in Workers : on[w] = None
  /\ server' = "stopped"
  /\ UNCHANGED <<running, starts, flag, conns, ready, on>>

\* Mutant: the destructor does not call Stop.
Destroy_Unstopped ==
  /\ server \notin {"stopping", "destroyed"}
  /\ server' = "destroyed"
  /\ UNCHANGED <<running, starts, flag, conns, ready, on>>

\* The destructor calls Stop, which looks at running_ only, and destroys the
\* cinatra server.
Destroy ==
  /\ ~running /\ server \notin {"stopping", "destroyed"}
  /\ server' = "destroyed"
  /\ UNCHANGED <<running, starts, flag, conns, ready, on>>

\* A signal, or the end of the stdio loop.
Signal ==
  /\ flag
  /\ flag' = FALSE
  /\ UNCHANGED <<owner, conns, ready, on>>

-------------------------------------------------------------------------------
(* The workers.                                                            *)

\* A client connects; cinatra gives it to one of its threads.
Connect(c) ==
  /\ server = "listening"
  /\ pc[c] = "new"
  /\ \E w \in Workers :
       /\ worker' = [worker EXCEPT ![c] = w]
       /\ ready' = [ready EXCEPT ![w] = Append(@, c)]
  /\ pc' = [pc EXCEPT ![c] = "entry"]
  /\ \/ /\ c \in Streams
        /\ UNCHANGED route
     \/ /\ c \in Requests
        /\ \E r \in Routes : route' = [route EXCEPT ![c] = r]
  /\ UNCHANGED <<owner, flag, left, awaits, on>>

Schedule(w) ==
  /\ server = "listening"
  /\ on[w] = None /\ ready[w] # <<>>
  /\ on' = [on EXCEPT ![w] = Head(ready[w])]
  /\ ready' = [ready EXCEPT ![w] = Tail(@)]
  /\ UNCHANGED <<owner, flag, conns>>

\* c is being served.
Serving(c) == worker[c] # None /\ on[worker[c]] = c

\* Mutant: the thread waits instead of the coroutine.
Await_Blocking(c, what, next) ==
  /\ Serving(c)
  /\ awaits' = [awaits EXCEPT ![c] = what]
  /\ pc' = [pc EXCEPT ![c] = next]
  /\ UNCHANGED <<owner, flag, route, worker, ready, on>>

\* co_await: the worker is free, and the coroutine goes on at next.
Await(c, what, next) ==
  /\ Serving(c)
  /\ awaits' = [awaits EXCEPT ![c] = what]
  /\ pc' = [pc EXCEPT ![c] = next]
  /\ on' = [on EXCEPT ![worker[c]] = None]
  /\ UNCHANGED <<owner, flag, route, worker, ready>>

\* co_return.
Return(c, outcome) ==
  /\ Serving(c)
  /\ pc' = [pc EXCEPT ![c] = outcome]
  /\ on' = [on EXCEPT ![worker[c]] = None]
  /\ UNCHANGED <<owner, flag, route, left, worker, awaits, ready>>

\* What c has awaited is there.
Resume(c, what) ==
  /\ server # "destroyed"
  /\ awaits[c] = what
  /\ awaits' = [awaits EXCEPT ![c] = None]
  /\ ready' = [ready EXCEPT ![worker[c]] = Append(@, c)]
  /\ UNCHANGED <<owner, flag, pc, route, left, worker, on>>

-------------------------------------------------------------------------------
(* Requests.                                                               *)

\* The status of the response.  The answers of POST /jsonrpc are the subject
\* of HttpJsonRpc.
Response(r) ==
  CASE r \in {"jsonrpc", "write_file"} -> {"ok", "no_content"}
    [] r \in {"health", "info"} -> {"ok"}
    [] r = "OPTIONS" -> {"no_content"}
    [] r = "unknown" -> {"not_found"}

\* Nothing is awaited: the constant handlers, the default handler, and every
\* method but a call of write_file with good arguments.
Respond(c) ==
  /\ pc[c] = "entry"
  /\ \E status \in Response(route[c]) : Return(c, status)

\* write_file: the file is written by a thread that is no worker.
PostWrite(c) ==
  /\ pc[c] = "entry" /\ route[c] = "write_file"
  /\ Await(c, "posted work", "written")
  /\ UNCHANGED left

RespondWritten(c) ==
  /\ pc[c] = "written"
  /\ \E status \in Response(route[c]) : Return(c, status)

-------------------------------------------------------------------------------
(* Streams.                                                                *)

\* begin_sse; it may fail.
BeginSse(s) ==
  /\ pc[s] = "entry"
  /\ Await(s, "network", "begun")
  /\ UNCHANGED left

\* The "connected" event, unless begin_sse failed.
SendConnected(s) ==
  /\ pc[s] = "begun"
  /\ \/ Await(s, "network", "loop") /\ UNCHANGED left
     \/ Return(s, "ended")

\* while (g_running.load()): the status, or what is in the event queue.
Loop(s) ==
  /\ pc[s] = "loop"
  /\ \/ /\ flag
        /\ Serving(s)
        /\ \E n \in IF s \in StatusStreams THEN {1} ELSE 0 .. MaxBatch :
             left' = [left EXCEPT ![s] = n]
        /\ pc' = [pc EXCEPT ![s] = "send"]
        /\ UNCHANGED <<owner, flag, route, worker, awaits, ready, on>>
     \/ /\ ~flag
        /\ Await(s, "network", "end_sse")
        /\ UNCHANGED left

\* Mutant: one event more is sent than was drained.
Send_PastEnd(s) ==
  /\ pc[s] = "send" /\ left[s] >= 0
  /\ Await(s, "network", "send")
  /\ left' = [left EXCEPT ![s] = @ - 1]

\* send_event, once for each event.
Send(s) ==
  /\ pc[s] = "send" /\ left[s] > 0
  /\ Await(s, "network", "send")
  /\ left' = [left EXCEPT ![s] = @ - 1]

\* The text of the next event cannot be dumped: the catch clause ends the
\* stream.  The texts of the status stream are constants.
Throw(s) ==
  /\ s \in CallStreams
  /\ pc[s] = "send" /\ left[s] > 0
  /\ Await(s, "network", "end_sse")
  /\ left' = [left EXCEPT ![s] = 0]

\* Mutant: the sleep is not awaited.
Sleep_Busy(s) ==
  /\ pc[s] = "send" /\ left[s] = 0
  /\ Serving(s)
  /\ pc' = [pc EXCEPT ![s] = "loop"]
  /\ UNCHANGED <<owner, flag, route, left, worker, awaits, ready, on>>

\* sleep_for.
Sleep(s) ==
  /\ pc[s] = "send" /\ left[s] = 0
  /\ Await(s, "timer", "loop")
  /\ UNCHANGED left

EndSse(s) ==
  /\ pc[s] = "end_sse"
  /\ Return(s, "ended")

-------------------------------------------------------------------------------
(* The specification.                                                      *)

Request(c) == Respond(c) \/ PostWrite(c) \/ RespondWritten(c)

Stream(s) ==
  \/ BeginSse(s) \/ SendConnected(s) \/ Loop(s) \/ Send(s) \/ Throw(s)
  \/ Sleep(s) \/ EndSse(s)

Owner == Run \/ Stop \/ Stopped \/ Destroy

Destroyed == server = "destroyed" /\ UNCHANGED vars

Next ==
  \/ Owner
  \/ Signal
  \/ \E c \in Conns : Connect(c)
  \/ \E w \in Workers : Schedule(w)
  \/ \E c \in Conns, what \in Kinds : Resume(c, what)
  \/ \E c \in Requests : Request(c)
  \/ \E s \in Streams : Stream(s)
  \/ Destroyed

Spec == Init /\ [][Next]_vars

\* Coroutines come to their next await, and server.stop() returns when it can.
\* Workers run what is ready, timers fire and files are written; a write to
\* the network ends if the client reads.  What cinatra does for a server that
\* is started again is not known, so this is assumed of the first start only.
FairSpec ==
  /\ Spec
  /\ \A c \in Requests : WF_vars(Request(c))
  /\ \A s \in Streams : WF_vars(Stream(s))
  /\ WF_vars(Stopped)
  /\ \A w \in Workers : WF_vars(starts = 1 /\ Schedule(w))
  /\ \A c \in Conns :
       /\ WF_vars(starts = 1 /\ Resume(c, "timer"))
       /\ WF_vars(starts = 1 /\ Resume(c, "posted work"))
  /\ \A c \in Conns \ SlowClients : WF_vars(starts = 1 /\ Resume(c, "network"))

-------------------------------------------------------------------------------
(* Properties.                                                             *)

Statuses == {"ok", "no_content", "not_found"}

\* Types of the flags, the coroutines and the workers.
TypeOK ==
  /\ running \in BOOLEAN /\ flag \in BOOLEAN
  /\ server \in {"constructed", "listening", "failed", "stopping", "stopped",
                 "destroyed"}
  /\ starts \in 0 .. MaxStarts
  /\ pc \in [Conns -> {"new", "entry", "written", "begun", "loop", "send",
                       "end_sse", "ended"} \union Statuses]
  /\ route \in [Requests -> Routes \union {None}]
  /\ left \in [Streams -> 0 .. MaxBatch + 1]
  /\ worker \in [Conns -> Workers \union {None}]
  /\ awaits \in [Conns -> Kinds \union {None}]
  /\ ready \in [Workers -> Seq(Conns)]
  /\ on \in [Workers -> Conns \union {None}]

Over(c) == pc[c] \in Statuses \union {"ended"}

Live(c) == pc[c] # "new" /\ ~Over(c)

\* running_ is all that the destructor looks at.  Whatever order Run and Stop
\* are called in before, also Run after Stop: no thread is left in a coroutine
\* of a destroyed server, where it would go on with what is gone.
NoThreadOutlivesServer ==
  server \in {"stopped", "destroyed"} => \A w \in Workers : on[w] = None

\* Stop waits for the threads of the server, and every coroutine gives its
\* thread back, even a stream whose client does not read and a call that is
\* waiting for a file: so Stop, and the destructor, do not hang.
StopReturns == server = "stopping" ~> server = "stopped"

Up == server = "listening" /\ starts = 1

\* "Two open SSE streams do not block tool calls, especially with
\* `--threads 1`" (SERVER_TESTING.md:198): every request is answered while
\* the server is up, also when a client does not read its stream and while
\* a file is being written.
RequestsAnswered ==
  \A c \in Requests : pc[c] # "new" /\ Up ~> Over(c) \/ ~Up

\* "Terminal A keeps receiving `server_status` events"
\* (SERVER_TESTING.md:103), whatever else the workers have to do.
StatusKeepsComing ==
  \A s \in StatusStreams \ SlowClients :
    pc[s] \in {"loop", "send"} /\ flag /\ Up
      ~> (pc[s] = "send" /\ awaits[s] = "network") \/ ~flag \/ ~Up
===============================================================================
