------------------------------- MODULE McpServer -------------------------------
(***************************************************************************)
(* mcp::McpServer (src/src/mcp/mcp_server.{h,cpp}): three registries of    *)
(* tools, resources and prompts, each a pair of maps (descriptions and     *)
(* code) under one std::shared_mutex, and the SSE callback under a mutex.  *)
(*                                                                         *)
(* A task is a chain of awaited coroutines.  Its stack holds one frame per *)
(* member function in progress, the innermost first: a tool handler or an  *)
(* SSE callback is user code and may call the server again, so the stack   *)
(* grows while user code runs.  Tasks interleave between any two accesses  *)
(* to shared state.                                                        *)
(***************************************************************************)
EXTENDS Naturals, Sequences

CONSTANTS
  Tasks,      \* tasks that use the server concurrently
  Kinds,      \* the registries in use, among "tool", "resource", "prompt"
  Names,      \* tool names, resource URIs, prompt names
  Regs,       \* registrations: a description together with its code
  None,       \* a missing entry, no lock owner
  MaxDepth,   \* bound: frames on a stack
  MaxOps      \* bound: operations started

ASSUME ConstantsAssumption ==
  /\ Kinds \subseteq {"tool", "resource", "prompt"}
  /\ None \notin Tasks \union Regs
  /\ MaxDepth \in Nat
  /\ MaxOps \in Nat

VARIABLES
  meta,      \* tools_, resources_, prompts_
  impl,      \* tool_handlers_, resource_providers_, prompt_generators_
  writer,    \* writer[k]: the task that holds the mutex of k exclusively
  readers,   \* readers[k]: the tasks that hold the mutex of k shared
  sseOwner,  \* the task that holds sse_mutex_
  callback,  \* whether sse_callback_ is set
  stack,     \* stack[t]: the frames of task t, innermost first
  seen,      \* seen[t]: what the last listing or lookup of t returned
  ops        \* operations started so far

locks == <<writer, readers, sseOwner>>
vars == <<meta, impl, locks, callback, stack, seen, ops>>

-------------------------------------------------------------------------------
(* Frames.                                                                 *)

Entry == Regs \union {None}

Events == {"tools_changed", "tool_call_start", "tool_call_end",
           "tool_call_error"}

RegisterFrame == [op : {"register"}, kind : Kinds, name : Names, reg : Regs,
                  pc : {"acquire", "meta", "impl", "notifying"}]
ListFrame == [op : {"list"}, kind : Kinds, pc : {"acquire", "inside"}]
CallFrame == [op : {"call"}, kind : Kinds, name : Names,
              pc : {"acquire", "inside", "starting", "running", "ending",
                    "erring"}]
EmitFrame == [op : {"emit"}, event : Events,
              pc : {"acquire", "copy", "calling"}]
Frame == RegisterFrame \union ListFrame \union CallFrame \union EmitFrame

Emit(e) == [op |-> "emit", event |-> e, pc |-> "acquire"]

Top(t) == Head(stack[t])

At(t, op, pc) ==
  /\ stack[t] # <<>>
  /\ Top(t).op = op
  /\ Top(t).pc = pc

\* A tool handler, provider or generator, or an SSE callback, is running.
InUserCode(f) ==
  \/ f.op = "call" /\ f.pc = "running"
  \/ f.op = "emit" /\ f.pc = "calling"

\* No function of the server is executing in task t: either none is in
\* progress or the innermost one waits for user code.
Outside(t) == stack[t] # <<>> => InUserCode(Top(t))

Replace(t, f) == stack' = [stack EXCEPT ![t] = <<f>> \o Tail(@)]
\* The innermost frame becomes f and calls EmitSseEvent(e).
CallEmit(t, f, e) == stack' = [stack EXCEPT ![t] = <<Emit(e), f>> \o Tail(@)]
Pop(t) == stack' = [stack EXCEPT ![t] = Tail(@)]

-------------------------------------------------------------------------------
(* Operations begin at the bottom of a stack, or in user code the server   *)
(* itself has called.                                                      *)

Begin(t, f) ==
  /\ ops < MaxOps
  /\ Outside(t)
  /\ Len(stack[t]) + 1 < MaxDepth
  /\ ops' = ops + 1
  /\ stack' = [stack EXCEPT ![t] = <<f>> \o @]
  /\ UNCHANGED <<meta, impl, locks, callback, seen>>

\* RegisterTool, RegisterResource, RegisterPrompt.
BeginRegister(t) ==
  \E k \in Kinds, n \in Names, r \in Regs :
    Begin(t, [op |-> "register", kind |-> k, name |-> n, reg |-> r,
              pc |-> "acquire"])

\* ListTool, ListResources, ListPrompts; HasTool, HasResource and HasPrompt
\* read one entry of the same map under the same shared lock.
BeginList(t) ==
  \E k \in Kinds : Begin(t, [op |-> "list", kind |-> k, pc |-> "acquire"])

\* CallTool, ReadResource, GetPrompt.
BeginCall(t) ==
  \E k \in Kinds, n \in Names :
    Begin(t, [op |-> "call", kind |-> k, name |-> n,
              pc |-> "acquire"])

\* The lock, the assignment and the unlock are one step: no other step of
\* the program can tell them apart.
SetSseCallback(t) ==
  /\ ops < MaxOps
  /\ Outside(t)
  /\ sseOwner = None
  /\ \E installed \in BOOLEAN : callback' = installed
  /\ ops' = ops + 1
  /\ UNCHANGED <<meta, impl, locks, stack, seen>>

-------------------------------------------------------------------------------
(* Registration: std::lock_guard, two map assignments, unlock, then the    *)
(* tools_changed event outside the lock.                                   *)

\* Mutant: the registration does not wait for the mutex.
LockExclusive_NoWait(t) ==
  /\ At(t, "register", "acquire")
  /\ writer' = [writer EXCEPT ![Top(t).kind] = t]
  /\ Replace(t, [Top(t) EXCEPT !.pc = "meta"])
  /\ UNCHANGED <<meta, impl, readers, sseOwner, callback, seen, ops>>

LockExclusive(t) ==
  /\ At(t, "register", "acquire")
  /\ LET f == Top(t) IN
       /\ writer[f.kind] = None
       /\ readers[f.kind] = {}
       /\ writer' = [writer EXCEPT ![f.kind] = t]
       /\ Replace(t, [f EXCEPT !.pc = "meta"])
  /\ UNCHANGED <<meta, impl, readers, sseOwner, callback, seen, ops>>

WriteMeta(t) ==
  /\ At(t, "register", "meta")
  /\ LET f == Top(t) IN
       /\ meta' = [meta EXCEPT ![f.kind] = [@ EXCEPT ![f.name] = f.reg]]
       /\ Replace(t, [f EXCEPT !.pc = "impl"])
  /\ UNCHANGED <<impl, locks, callback, seen, ops>>

\* Mutant: the event has a name no client knows.
WriteImpl_OtherEvent(t) ==
  /\ At(t, "register", "impl")
  /\ LET f == Top(t) IN
       /\ impl' = [impl EXCEPT ![f.kind] = [@ EXCEPT ![f.name] = f.reg]]
       /\ writer' = [writer EXCEPT ![f.kind] = None]
       /\ CallEmit(t, [f EXCEPT !.pc = "notifying"], f.kind)
  /\ UNCHANGED <<meta, readers, sseOwner, callback, seen, ops>>

WriteImpl(t) ==
  /\ At(t, "register", "impl")
  /\ LET f == Top(t) IN
       /\ impl' = [impl EXCEPT ![f.kind] = [@ EXCEPT ![f.name] = f.reg]]
       /\ writer' = [writer EXCEPT ![f.kind] = None]
       /\ \/ /\ f.kind = "tool"
             /\ CallEmit(t, [f EXCEPT !.pc = "notifying"], "tools_changed")
          \/ /\ f.kind # "tool"
             /\ Pop(t)
  /\ UNCHANGED <<meta, readers, sseOwner, callback, seen, ops>>

-------------------------------------------------------------------------------
(* Listing and calling: std::shared_lock, read, unlock.                    *)

\* Mutant: readers do not wait for the writer.
LockShared_NoWait(t) ==
  /\ At(t, "list", "acquire") \/ At(t, "call", "acquire")
  /\ readers' = [readers EXCEPT ![Top(t).kind] = @ \union {t}]
  /\ Replace(t, [Top(t) EXCEPT !.pc = "inside"])
  /\ UNCHANGED <<meta, impl, writer, sseOwner, callback, seen, ops>>

LockShared(t) ==
  /\ At(t, "list", "acquire") \/ At(t, "call", "acquire")
  /\ LET f == Top(t) IN
       /\ writer[f.kind] = None
       /\ readers' = [readers EXCEPT ![f.kind] = @ \union {t}]
       /\ Replace(t, [f EXCEPT !.pc = "inside"])
  /\ UNCHANGED <<meta, impl, writer, sseOwner, callback, seen, ops>>

ReadMeta(t) ==
  /\ At(t, "list", "inside")
  /\ LET f == Top(t) IN
       /\ seen' = [seen EXCEPT ![t] = [kind |-> f.kind, map |-> meta[f.kind]]]
       /\ readers' = [readers EXCEPT ![f.kind] = @ \ {t}]
  /\ Pop(t)
  /\ UNCHANGED <<meta, impl, writer, sseOwner, callback, ops>>

\* Mutant: the shared lock lives as long as the call.
Find_KeepsLock(t) ==
  /\ At(t, "call", "inside")
  /\ LET f == Top(t) IN
       \/ /\ impl[f.kind][f.name] = None
          /\ readers' = [readers EXCEPT ![f.kind] = @ \ {t}]
          /\ Pop(t)
       \/ /\ impl[f.kind][f.name] # None
          /\ Replace(t, [f EXCEPT !.pc = "running"])
          /\ UNCHANGED readers
  /\ UNCHANGED <<meta, impl, writer, sseOwner, callback, seen, ops>>

\* Mutant: tool_call_start is emitted before the tool is looked up.
Find_StartsFirst(t) ==
  /\ At(t, "call", "inside")
  /\ LET f == Top(t) IN
       /\ readers' = [readers EXCEPT ![f.kind] = @ \ {t}]
       /\ CallEmit(t, [f EXCEPT !.pc = "starting"], "tool_call_start")
  /\ UNCHANGED <<meta, impl, writer, sseOwner, callback, seen, ops>>

\* find() under the shared lock.  A hit copies the code, unlocks and, for a
\* tool, emits tool_call_start; a miss returns an error result (tool) or
\* throws (resource, prompt): either way the frame is gone.
Find(t) ==
  /\ At(t, "call", "inside")
  /\ LET f == Top(t)
         r == impl[f.kind][f.name]
     IN
       /\ seen' = [seen EXCEPT ![t] = [kind |-> f.kind, name |-> f.name,
                                       reg |-> r]]
       /\ readers' = [readers EXCEPT ![f.kind] = @ \ {t}]
       /\ \/ /\ r = None
             /\ Pop(t)
          \/ /\ r # None
             /\ f.kind = "tool"
             /\ CallEmit(t, [f EXCEPT !.pc = "starting"],
                         "tool_call_start")
          \/ /\ r # None
             /\ f.kind # "tool"
             /\ Replace(t, [f EXCEPT !.pc = "running"])
  /\ UNCHANGED <<meta, impl, writer, sseOwner, callback, ops>>

\* The awaited handler completes.
HandlerReturns(t) ==
  /\ At(t, "call", "running")
  /\ LET f == Top(t) IN
       \/ /\ f.kind = "tool"
          /\ CallEmit(t, [f EXCEPT !.pc = "ending"], "tool_call_end")
       \/ /\ f.kind # "tool"
          /\ Pop(t)
  /\ UNCHANGED <<meta, impl, locks, callback, seen, ops>>

\* The awaited handler throws: CallTool turns the exception into an error
\* result, ReadResource and GetPrompt rethrow it to their caller.
HandlerThrows(t) ==
  /\ At(t, "call", "running")
  /\ LET f == Top(t) IN
       \/ /\ f.kind = "tool"
          /\ CallEmit(t, [f EXCEPT !.pc = "erring"], "tool_call_error")
       \/ /\ f.kind # "tool"
          /\ Pop(t)
  /\ UNCHANGED <<meta, impl, locks, callback, seen, ops>>

-------------------------------------------------------------------------------
(* EmitSseEvent: copy the callback under sse_mutex_, call it unlocked.     *)

EmitLock(t) ==
  /\ At(t, "emit", "acquire")
  /\ sseOwner = None
  /\ sseOwner' = t
  /\ Replace(t, [Top(t) EXCEPT !.pc = "copy"])
  /\ UNCHANGED <<meta, impl, writer, readers, callback, seen, ops>>

\* The stack of a caller g (below it, rest) whose EmitSseEvent returned:
\* CallTool goes on to the handler after tool_call_start, and after any
\* other event the caller itself returns.
AfterEmit(g, rest) ==
  IF g.op = "call" /\ g.pc = "starting"
    THEN <<[g EXCEPT !.pc = "running"]>> \o rest
    ELSE rest

\* Mutant: the catch block guards its own event as well.
AfterEmitThrew_Again(g, rest) ==
  IF g.op = "call" /\ g.pc \in {"ending", "erring"}
    THEN <<Emit("tool_call_error"), [g EXCEPT !.pc = "erring"]>> \o rest
    ELSE rest

\* The same when the callback threw.  Only the tool_call_end event is
\* emitted inside CallTool's try block: its catch then emits
\* tool_call_error.  Every other exception leaves the caller as well.
AfterEmitThrew(g, rest) ==
  IF g.op = "call" /\ g.pc = "ending"
    THEN <<Emit("tool_call_error"), [g EXCEPT !.pc = "erring"]>> \o rest
    ELSE rest

EmitCopy(t) ==
  /\ At(t, "emit", "copy")
  /\ sseOwner' = None
  /\ \/ /\ callback
        /\ Replace(t, [Top(t) EXCEPT !.pc = "calling"])
     \/ /\ ~callback
        /\ stack' = [stack EXCEPT ![t] = AfterEmit(@[2], Tail(Tail(@)))]
  /\ UNCHANGED <<meta, impl, writer, readers, callback, seen, ops>>

CallbackReturns(t) ==
  /\ At(t, "emit", "calling")
  /\ stack' = [stack EXCEPT ![t] = AfterEmit(@[2], Tail(Tail(@)))]
  /\ UNCHANGED <<meta, impl, locks, callback, seen, ops>>

CallbackThrows(t) ==
  /\ At(t, "emit", "calling")
  /\ stack' = [stack EXCEPT ![t] = AfterEmitThrew(@[2], Tail(Tail(@)))]
  /\ UNCHANGED <<meta, impl, locks, callback, seen, ops>>

-------------------------------------------------------------------------------
(* The specification.                                                      *)

Init ==
  /\ meta = [k \in Kinds |-> [n \in Names |-> None]]
  /\ impl = [k \in Kinds |-> [n \in Names |-> None]]
  /\ writer = [k \in Kinds |-> None]
  /\ readers = [k \in Kinds |-> {}]
  /\ sseOwner = None
  /\ callback = FALSE
  /\ stack = [t \in Tasks |-> <<>>]
  /\ seen = [t \in Tasks |-> None]
  /\ ops = 0

\* Calls a user makes of the server.
Use(t) ==
  \/ BeginRegister(t)
  \/ BeginList(t)
  \/ BeginCall(t)
  \/ SetSseCallback(t)

\* Steps of an operation in progress, user code's completion included.
Step(t) ==
  \/ LockExclusive(t)
  \/ WriteMeta(t)
  \/ WriteImpl(t)
  \/ LockShared(t)
  \/ ReadMeta(t)
  \/ Find(t)
  \/ HandlerReturns(t)
  \/ HandlerThrows(t)
  \/ EmitLock(t)
  \/ EmitCopy(t)
  \/ CallbackReturns(t)
  \/ CallbackThrows(t)

\* The bound on operations is used up and every one of them has returned.
Quiescent ==
  /\ ops = MaxOps
  /\ \A t \in Tasks : stack[t] = <<>>
  /\ UNCHANGED vars

Next ==
  \/ \E t \in Tasks : Use(t) \/ Step(t)
  \/ Quiescent

Spec == Init /\ [][Next]_vars

\* Threads are scheduled and user code ends: a task that can take a step of
\* an operation it has begun does not wait for ever.
FairSpec == Spec /\ \A t \in Tasks : WF_vars(Step(t))

-------------------------------------------------------------------------------
(* Properties.                                                             *)

View ==
  [kind : Kinds, map : [Names -> Entry]]
    \union [kind : Kinds, name : Names, reg : Entry]

\* Types of the members and of the frames of every function in progress.
TypeOK ==
  /\ meta \in [Kinds -> [Names -> Entry]]
  /\ impl \in [Kinds -> [Names -> Entry]]
  /\ writer \in [Kinds -> Tasks \union {None}]
  /\ readers \in [Kinds -> SUBSET Tasks]
  /\ sseOwner \in Tasks \union {None}
  /\ callback \in BOOLEAN
  /\ stack \in [Tasks -> Seq(Frame)]
  /\ seen \in [Tasks -> View \union {None}]
  /\ ops \in Nat

\* "Internal registry locks are released before user handlers, providers,
\* generators, or SSE callbacks are invoked" (README.md:204): while the
\* innermost frame of a task is user code the task holds no mutex of the
\* server, so user code can call any function of it again.
UserCodeUnlocked ==
  \A t \in Tasks :
    stack[t] # <<>> /\ InUserCode(Top(t)) =>
      /\ sseOwner # t
      /\ \A k \in Kinds : writer[k] # t /\ t \notin readers[k]

\* The two maps of a registry are assigned one after the other, but no
\* reader can see them disagree: when no writer is inside, every name has
\* its description and its code from the same registration.
MapsAgree ==
  \A k \in Kinds : writer[k] = None => meta[k] = impl[k]

\* The frame of a registration that is notifying, or of a call that has
\* found its code.
Published(f) ==
  \/ f.op = "register" /\ f.pc = "notifying"
  \/ f.op = "call" /\ f.pc \in {"starting", "running", "ending", "erring"}

\* Both maps have an entry for its name.
Visible(f) ==
  Published(f) => /\ meta[f.kind][f.name] # None
                  /\ impl[f.kind][f.name] # None

\* Whatever an SSE callback is told about, it can find: while tools_changed
\* is emitted for a registration, and from tool_call_start to the last event
\* of a call, the name is listed and callable (what the tests
\* SseCallbackCanReadToolsDuringRegisterTool and
\* CallToolSseEventsRunOutsideRegistryLocks expect of one task, for every
\* interleaving of several).
EventsDescribeVisibleNames ==
  \A t \in Tasks : \A i \in 1 .. Len(stack[t]) : Visible(stack[t][i])

\* Every operation returns, however tasks interleave and however deeply
\* handlers and callbacks call the server again: no deadlock and no lock
\* left behind on any path out of an operation.
EveryOperationReturns ==
  \A t \in Tasks : stack[t] # <<>> ~> stack[t] = <<>>

\* Concurrent registrations, listings and calls are indistinguishable from
\* operations on one map that each happen at one instant.  A registration
\* takes effect when its code is assigned.
Atomic == INSTANCE AtomicRegistry WITH registry <- impl
RefinesAtomicRegistry == Atomic!Spec
===============================================================================
