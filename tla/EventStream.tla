------------------------------ MODULE EventStream ------------------------------
(***************************************************************************)
(* The events of tool calls on their way from the calls to the clients of  *)
(* GET /sse/tool_calls (src/src/mcp_demo_server_main.cpp with the          *)
(* send_event of src/src/json_rpc/http_jsonrpc.cpp).                       *)
(*                                                                         *)
(* CallTool emits tool_call_start and then tool_call_end or                *)
(* tool_call_error through the SSE callback, which pushes them on the      *)
(* EventQueue; the "tools/call" handler of the HTTP dispatcher then pushes *)
(* tool_call, that of the stdio dispatcher (events == nullptr) does not.   *)
(* Every open stream polls: it drains the whole queue, writes what it got  *)
(* one event after the other, sleeps, and starts again.                    *)
(*                                                                         *)
(* An event is named by its position in log, the history of all pushes.    *)
(***************************************************************************)
EXTENDS Naturals, Sequences, FiniteSets

CONSTANTS
  HttpCalls,   \* tools/call requests received over HTTP
  StdioCalls,  \* tools/call requests received over stdio ("both" mode)
  BadTexts,    \* calls whose handler throws a text that is not UTF-8
  Streams      \* connections to /sse/tool_calls

Calls == HttpCalls \union StdioCalls

ASSUME CallsAssumption ==
  /\ HttpCalls \intersect StdioCalls = {}
  /\ BadTexts \subseteq Calls
  /\ IsFiniteSet(Streams)

VARIABLES
  phase,     \* phase[c]: how far call c is
  log,       \* history: the events pushed, in order
  queue,     \* EventQueue::events_
  pc,        \* pc[s]: where the handler of stream s is
  batch,     \* batch[s]: what s drained and has not written yet
  alive,     \* alive[s]: the client of s is connected
  received,  \* history: received[s], the events the client of s got
  lost,      \* history: the events written to a connection without client, or
             \* destroyed with their batch
  running,   \* g_running
  stopped    \* StopHttpServer has been called

calls == <<phase, log>>
streams == <<pc, batch, alive, received, lost>>
flags == <<running, stopped>>
vars ==
  <<phase, log, queue, pc, batch, alive, received, lost, running, stopped>>

EventTypes ==
  {"tool_call_start", "tool_call_end", "tool_call_error", "tool_call"}
Event == [call : Calls, type : EventTypes]

Init ==
  /\ phase = [c \in Calls |-> "new"]
  /\ log = <<>>
  /\ queue = <<>>
  /\ pc = [s \in Streams |-> "closed"]
  /\ batch = [s \in Streams |-> <<>>]
  /\ alive = [s \in Streams |-> FALSE]
  /\ received = [s \in Streams |-> <<>>]
  /\ lost = {}
  /\ running = TRUE
  /\ stopped = FALSE

-------------------------------------------------------------------------------
(* EventQueue: both operations hold mutex_ throughout.                     *)

\* Mutant: a stack instead of a queue.
Push_Front(e) ==
  /\ log' = Append(log, e)
  /\ queue' = <<Len(log) + 1>> \o queue

Push(e) ==
  /\ log' = Append(log, e)
  /\ queue' = Append(queue, Len(log) + 1)

\* Mutant: the queue is copied and not emptied.
Drain_Copies(s) ==
  /\ batch' = [batch EXCEPT ![s] = queue]
  /\ UNCHANGED queue

\* Mutant: the queue is emptied before it is copied.
Drain_ClearsFirst(s) ==
  /\ batch' = [batch EXCEPT ![s] = <<>>]
  /\ queue' = <<>>

\* Swaps the queue with an empty one and returns what it held.
Drain(s) ==
  /\ batch' = [batch EXCEPT ![s] = queue]
  /\ queue' = <<>>

-------------------------------------------------------------------------------
(* The "tools/call" handler.                                               *)

Advance(c, from, to) ==
  /\ phase[c] = from
  /\ phase' = [phase EXCEPT ![c] = to]
  /\ UNCHANGED <<streams, flags>>

\* Mutant: the event has a name no client knows.
StartTool_OtherEvent(c) ==
  /\ Advance(c, "new", "running")
  /\ Push([call |-> c, type |-> "tool_call_started"])

\* The tool exists: CallTool emits tool_call_start and awaits the handler.
StartTool(c) ==
  /\ Advance(c, "new", "running")
  /\ Push([call |-> c, type |-> "tool_call_start"])

\* It does not: CallTool returns an error result and emits nothing.
MissTool(c) ==
  /\ Advance(c, "new", "returned")
  /\ UNCHANGED <<log, queue>>

\* The handler completes or throws.
FinishTool(c) ==
  /\ Advance(c, "running", "returned")
  /\ \E type \in {"tool_call_end", "tool_call_error"} :
       Push([call |-> c, type |-> type])

\* CallTool has returned; the dispatcher of the HTTP server reports.
Report(c) ==
  /\ Advance(c, "returned", "replied")
  /\ \/ /\ c \in HttpCalls
        /\ Push([call |-> c, type |-> "tool_call"])
     \/ /\ c \in StdioCalls
        /\ UNCHANGED <<log, queue>>

-------------------------------------------------------------------------------
(* A stream.                                                               *)

\* begin_sse succeeds and the "connected" event is written, or it fails and
\* the handler returns.
Open(s) ==
  /\ pc[s] = "closed"
  /\ \/ /\ pc' = [pc EXCEPT ![s] = "check"]
        /\ alive' = [alive EXCEPT ![s] = TRUE]
     \/ /\ pc' = [pc EXCEPT ![s] = "ended"]
        /\ UNCHANGED alive
  /\ UNCHANGED <<calls, queue, batch, received, lost, flags>>

\* The client goes away before the stream ends: only a later write can find
\* out.
Disconnect(s) ==
  /\ alive[s] /\ pc[s] # "ended"
  /\ alive' = [alive EXCEPT ![s] = FALSE]
  /\ UNCHANGED <<calls, queue, pc, batch, received, lost, flags>>

\* while (g_running.load()); end_sse after the loop.
Check(s) ==
  /\ pc[s] = "check"
  /\ pc' = [pc EXCEPT ![s] = IF running THEN "drain" ELSE "ended"]
  /\ UNCHANGED <<calls, queue, batch, alive, received, lost, flags>>

Take(s) ==
  /\ pc[s] = "drain"
  /\ pc' = [pc EXCEPT ![s] = "send"]
  /\ Drain(s)
  /\ UNCHANGED <<calls, alive, received, lost, flags>>

\* event.dump() throws on the error of a tool that is not UTF-8.
Dumps(i) == ~(log[i].call \in BadTexts /\ log[i].type = "tool_call_error")

\* Mutant: the batch is written from its end.
Send_LastFirst(s) ==
  /\ pc[s] = "send"
  /\ batch[s] # <<>>
  /\ LET n == Len(batch[s]) IN
       /\ batch' = [batch EXCEPT ![s] = SubSeq(@, 1, n - 1)]
       /\ received' = [received EXCEPT ![s] = Append(@, batch[s][n])]
  /\ UNCHANGED <<calls, queue, pc, alive, lost, flags>>

\* send_event: the write reaches the client, or it returns false.  Nobody
\* looks at the result: the loop goes on with the next event.
Send(s) ==
  /\ pc[s] = "send"
  /\ batch[s] # <<>> /\ Dumps(Head(batch[s]))
  /\ batch' = [batch EXCEPT ![s] = Tail(@)]
  /\ \/ /\ alive[s]
        /\ received' = [received EXCEPT ![s] = Append(@, Head(batch[s]))]
        /\ UNCHANGED lost
     \/ /\ ~alive[s]
        /\ lost' = lost \union {Head(batch[s])}
        /\ UNCHANGED received
  /\ UNCHANGED <<calls, queue, pc, alive, flags>>

Elements(seq) == {seq[i] : i \in DOMAIN seq}

\* An event cannot be dumped: the exception leaves the loop, which destroys
\* the rest of the batch, and the catch clause ends the stream.
Throw(s) ==
  /\ pc[s] = "send"
  /\ batch[s] # <<>> /\ ~Dumps(Head(batch[s]))
  /\ batch' = [batch EXCEPT ![s] = <<>>]
  /\ lost' = lost \union Elements(batch[s])
  /\ pc' = [pc EXCEPT ![s] = "ended"]
  /\ UNCHANGED <<calls, queue, alive, received, flags>>

\* Mutant: the loop condition is tested only once.
Sleep_Unconditional(s) ==
  /\ pc[s] = "send"
  /\ batch[s] = <<>>
  /\ pc' = [pc EXCEPT ![s] = "drain"]
  /\ UNCHANGED <<calls, queue, batch, alive, received, lost, flags>>

\* The batch is written: sleep_for(250ms), then the loop condition again.
Sleep(s) ==
  /\ pc[s] = "send"
  /\ batch[s] = <<>>
  /\ pc' = [pc EXCEPT ![s] = "check"]
  /\ UNCHANGED <<calls, queue, batch, alive, received, lost, flags>>

\* A signal, or the end of the stdio loop in "both" mode.
Stop ==
  /\ running
  /\ running' = FALSE
  /\ UNCHANGED <<calls, queue, streams, stopped>>

\* main then stops the HTTP server and destroys it.  The streams and calls
\* it has begun may go on or be suspended for good: the library decides.
StopHttpServer ==
  /\ ~running /\ ~stopped
  /\ stopped' = TRUE
  /\ UNCHANGED <<calls, queue, streams, running>>

-------------------------------------------------------------------------------
(* The specification.                                                      *)

Call(c) == StartTool(c) \/ MissTool(c) \/ FinishTool(c) \/ Report(c)

\* What the coroutine of a stream does once it is open.
Poll(s) == Check(s) \/ Take(s) \/ Send(s) \/ Throw(s) \/ Sleep(s)

\* The server has stopped, every call is answered, every stream has ended.
Over ==
  /\ ~running
  /\ \A c \in Calls : phase[c] = "replied"
  /\ \A s \in Streams : pc[s] = "ended"
  /\ UNCHANGED vars

Next ==
  \/ \E c \in Calls : Call(c)
  \/ \E s \in Streams : Open(s) \/ Disconnect(s) \/ Poll(s)
  \/ Stop
  \/ StopHttpServer
  \/ Over

Spec == Init /\ [][Next]_vars

\* Timers fire and writes return, with or without a client: as long as the
\* HTTP server is there an open stream does not stop polling.
FairSpec == Spec /\ \A s \in Streams : WF_vars(~stopped /\ Poll(s))

-------------------------------------------------------------------------------
(* Properties.                                                             *)

Positions == 1 .. Len(log)

\* Types of the queue, the streams and the histories.
TypeOK ==
  /\ phase \in [Calls -> {"new", "running", "returned", "replied"}]
  /\ log \in Seq(Event)
  /\ queue \in Seq(Positions)
  /\ pc \in [Streams -> {"closed", "check", "drain", "send", "ended"}]
  /\ batch \in [Streams -> Seq(Positions)]
  /\ alive \in [Streams -> BOOLEAN]
  /\ received \in [Streams -> Seq(Positions)]
  /\ lost \subseteq Positions
  /\ running \in BOOLEAN
  /\ stopped \in BOOLEAN

\* Where an event may be: the queue, the batch of one stream, the client of
\* one stream, or lost.
Places ==
  {<<"queue">>, <<"lost">>}
    \union {<<kind, s>> : kind \in {"batch", "client"}, s \in Streams}

At(i, place) ==
  CASE place = <<"queue">> -> i \in Elements(queue)
    [] place = <<"lost">> -> i \in lost
    [] place[1] = "batch" -> i \in Elements(batch[place[2]])
    [] place[1] = "client" -> i \in Elements(received[place[2]])

\* No event vanishes and none is duplicated, whatever streams open, close
\* and drain at the same time: every event ever pushed is at exactly one
\* place, and a stream that has ended keeps none back.
NothingVanishes ==
  /\ \A i \in Positions : Cardinality({p \in Places : At(i, p)}) = 1
  /\ \A s \in Streams : pc[s] # "send" => batch[s] = <<>>

Rank(type) ==
  CASE type = "tool_call_start" -> 1
    [] type \in {"tool_call_end", "tool_call_error"} -> 2
    [] type = "tool_call" -> 3

\* Two events of one call that reach the same client reach it in the order
\* start, end or error, tool_call, and never twice, although other calls
\* push between them and the stream fetches them in several batches.
EventsOfACallInOrder ==
  \A s \in Streams : \A i, j \in DOMAIN received[s] :
    LET a == log[received[s][i]]  b == log[received[s][j]] IN
      i < j /\ a.call = b.call => Rank(a.type) < Rank(b.type)

\* The polling streams implement at-most-once delivery in order.
Delivery == INSTANCE EventDelivery WITH Events <- Event
RefinesEventDelivery == Delivery!Spec

\* The streams whose client is connected.
Clients == {s \in Streams : alive[s]}

\* "/sse/tool_calls emits tool start and end events after a tool call"
\* (SERVER_TESTING.md:199): an event that is queued while exactly one client
\* is connected reaches that client, unless it leaves, another one joins or
\* the server stops.
OnlyClientGetsEvents ==
  \A s \in Streams : \A i \in 1 .. 3 * Cardinality(Calls) :
    i \in Elements(queue) /\ Clients = {s} /\ running
      ~> i \in Elements(received[s]) \/ Clients # {s} \/ ~running

\* After g_running is cleared every open stream writes what it has drained
\* and ends, unless main stops the HTTP server first: none is left polling.
StreamsEndAfterStop ==
  \A s \in Streams :
    ~running /\ pc[s] # "closed"
      ~> stopped \/ (pc[s] = "ended" /\ batch[s] = <<>>)
===============================================================================
