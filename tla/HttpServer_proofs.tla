---------------------------- MODULE HttpServer_proofs ----------------------------
(***************************************************************************)
(* Proofs about HttpServer, for any connections, routes and workers.       *)
(***************************************************************************)
EXTENDS HttpServer, SequenceTheorems, TLAPS

\* Threads are in coroutines only from async_start to the end of stop, and
\* running_ tells the owner whether there is something to stop.
OwnerInv ==
  /\ server \in {"constructed", "stopping", "stopped", "destroyed"} => ~running
  /\ server \in {"listening", "failed"} => running
  /\ on = [w \in Workers |-> on[w]]
  /\ server \in {"constructed", "listening", "failed", "stopping", "stopped",
                 "destroyed"}
  /\ server \notin {"listening", "stopping"} => \A w \in Workers : on[w] = None

\* No thread begins in a coroutine.
LEMMA InitOwner == Init => OwnerInv
BY DEF Init, OwnerInv

\* The owner, connections and schedulers.
LEMMA OwnerSteps ==
  ASSUME OwnerInv,
         \/ Owner \/ Signal
         \/ (\E c \in Conns : Connect(c))
         \/ (\E w \in Workers : Schedule(w))
  PROVE  OwnerInv'
<1>1. CASE Run
  BY <1>1 DEF OwnerInv, Run, owner, conns
<1>2. CASE Stop
  BY <1>2 DEF OwnerInv, Stop, conns
<1>3. CASE Stopped
  BY <1>3 DEF OwnerInv, Stopped, conns
<1>4. CASE Destroy
  BY <1>4 DEF OwnerInv, Destroy, conns
<1>5. CASE Signal
  BY <1>5 DEF OwnerInv, Signal, owner, conns
<1>6. CASE \E c \in Conns : Connect(c)
  BY <1>6 DEF OwnerInv, Connect, owner
<1>7. CASE \E w \in Workers : Schedule(w)
  <2>1. PICK w \in Workers : Schedule(w)
    BY <1>7
  <2>2. server = "listening" /\ UNCHANGED <<server, running>>
    BY <2>1 DEF Schedule, owner
  <2>3. on' = [v \in Workers |-> on'[v]]
    <3> DEFINE first == Head(ready[w])
    <3>1. on' = [on EXCEPT ![w] = first]
      BY <2>1 DEF Schedule
    <3> HIDE DEF first
    <3> QED  BY <3>1 DEF OwnerInv
  <2> QED  BY <2>2, <2>3 DEF OwnerInv
<1> QED  BY <1>1, <1>2, <1>3, <1>4, <1>5, <1>6, <1>7 DEF Owner

\* A step of a coroutine leaves the owner's state alone, and its thread keeps
\* it or is free.
Suspends(c) ==
  /\ UNCHANGED owner
  /\ \/ UNCHANGED on
     \/ on' = [on EXCEPT ![worker[c]] = None]

\* Coroutines and what they await do no more than that.
LEMMA CoroutineSteps ==
  ASSUME NEW c \in Conns,
         \/ c \in Requests /\ Request(c)
         \/ c \in Streams /\ Stream(c)
         \/ \E what \in Kinds : Resume(c, what)
  PROVE  Suspends(c)
<1>1. CASE Request(c)
  BY <1>1 DEF Request, Respond, PostWrite, RespondWritten, Await, Return,
              Suspends
<1>2. CASE Stream(c)
  BY <1>2 DEF Stream, BeginSse, SendConnected, Loop, Send, Throw, Sleep,
              EndSse, Await, Return, Suspends
<1>3. CASE \E what \in Kinds : Resume(c, what)
  BY <1>3 DEF Resume, Suspends
<1> QED  BY <1>1, <1>2, <1>3

\* So they keep the invariant.
LEMMA SuspendsInv ==
  ASSUME OwnerInv, NEW c \in Conns, Suspends(c) PROVE OwnerInv'
BY DEF OwnerInv, Suspends, owner

\* Every step keeps the invariant.
LEMMA NextOwner == OwnerInv /\ [Next]_vars => OwnerInv'
<1> SUFFICES ASSUME OwnerInv, [Next]_vars PROVE OwnerInv'
  OBVIOUS
<1>1. CASE UNCHANGED vars
  BY <1>1 DEF OwnerInv, vars
<1>2. CASE Destroyed
  BY <1>1, <1>2 DEF Destroyed
<1>3. CASE \/ Owner \/ Signal
           \/ (\E c \in Conns : Connect(c))
           \/ (\E w \in Workers : Schedule(w))
  BY <1>3, OwnerSteps
<1>4. CASE \/ \E c \in Conns, what \in Kinds :
                Resume(c, what)
           \/ \E c \in Requests : Request(c)
           \/ \E s \in Streams : Stream(s)
  BY <1>4, CoroutineSteps, SuspendsInv DEF Conns
<1> QED  BY <1>1, <1>2, <1>3, <1>4 DEF Next

\* The owner's invariant holds throughout (Run, Stop and the destructor).
THEOREM OwnerInductive == Spec => []OwnerInv
BY InitOwner, NextOwner, PTL DEF Spec

\* The destructor looks at running_ only; in whatever order and however often
\* Run and Stop are called before it, Run after Stop included, running_ is
\* TRUE whenever the server has threads to stop: none is left in a coroutine of
\* a server that is destroyed (http_jsonrpc.cpp:105-123).
THEOREM ThreadsEndFirst == Spec => []NoThreadOutlivesServer
<1>1. OwnerInv => NoThreadOutlivesServer
  BY DEF OwnerInv, NoThreadOutlivesServer
<1> QED  BY <1>1, OwnerInductive, PTL

-------------------------------------------------------------------------------
(* Types.                                                                  *)

\* A connection that was accepted has a route.
TypeInv ==
  /\ TypeOK
  /\ OwnerInv
  /\ \A c \in Requests : pc[c] # "new" => route[c] \in Route

\* What a step of a coroutine on its thread does: it awaits something,
\* returns, or goes on with the next event.
Yields(c) ==
  /\ Serving(c)
  /\ \E what \in Kinds : awaits' = [awaits EXCEPT ![c] = what]
  /\ \E next \in {"written", "begun", "loop", "send", "end_sse"} :
       pc' = [pc EXCEPT ![c] = next]
  /\ on' = [on EXCEPT ![worker[c]] = None]
  /\ UNCHANGED <<worker, ready>>

Returns(c) ==
  /\ Serving(c)
  /\ \E outcome \in Statuses \union {"ended"} :
       pc' = [pc EXCEPT ![c] = outcome]
  /\ on' = [on EXCEPT ![worker[c]] = None]
  /\ UNCHANGED <<worker, awaits, ready>>

GoesOn(c) ==
  /\ Serving(c)
  /\ pc' = [pc EXCEPT ![c] = "send"]
  /\ UNCHANGED <<worker, awaits, ready, on>>

\* Requests answer or wait for the file.
LEMMA RequestForms ==
  ASSUME TypeInv, NEW c \in Requests, Request(c)
  PROVE  /\ Yields(c) \/ Returns(c)
         /\ pc[c] # "new"
         /\ UNCHANGED <<running, server, starts, flag, route, left>>
<1>1. pc[c] \in {"entry", "written"}
  BY DEF Request, Respond, PostWrite, RespondWritten
<1>2. \A status \in Response(route[c]) : status \in Statuses
  BY <1>1 DEF TypeInv, Response, Statuses, Route
<1>3. CASE Respond(c)
  BY <1>1, <1>2, <1>3 DEF Respond, Return, Returns, owner
<1>4. CASE PostWrite(c)
  BY <1>1, <1>4 DEF PostWrite, Await, Kinds, Yields, owner
<1>5. CASE RespondWritten(c)
  BY <1>1, <1>2, <1>5 DEF RespondWritten, Return, Returns, owner
<1> QED  BY <1>3, <1>4, <1>5 DEF Request

\* Streams wait, end, or go on with what they have drained.
LEMMA StreamForms ==
  ASSUME TypeInv, NEW s \in Streams, Stream(s)
  PROVE  /\ Yields(s) \/ Returns(s) \/ GoesOn(s)
         /\ pc[s] # "new"
         /\ left' \in [Streams -> 0 .. MaxBatch + 1]
         /\ UNCHANGED <<running, server, starts, flag, route>>
<1>1. left \in [Streams -> 0 .. MaxBatch + 1] /\ MaxBatch \in Nat
  BY ConnsAssumption DEF TypeInv, TypeOK
<1>2. CASE BeginSse(s)
  BY <1>1, <1>2 DEF BeginSse, Await, Yields, Kinds, owner
<1>3. CASE SendConnected(s)
  BY <1>1, <1>3
  DEF SendConnected, Await, Return, Yields, Returns, Kinds, Statuses, owner
<1>4. CASE Loop(s)
  <2>1. CASE flag
    <3>1. PICK n \in IF s \in StatusStreams THEN {1} ELSE 0 .. MaxBatch :
            left' = [left EXCEPT ![s] = n]
      BY <1>4, <2>1 DEF Loop
    <3>2. n \in 0 .. MaxBatch + 1
      BY <1>1
    <3>3. left' \in [Streams -> 0 .. MaxBatch + 1]
      BY <1>1, <3>1, <3>2
    <3> QED  BY <1>4, <2>1, <3>3 DEF Loop, GoesOn, owner
  <2>2. CASE ~flag
    BY <1>1, <1>4, <2>2 DEF Loop, Await, Yields, Kinds, owner
  <2> QED  BY <2>1, <2>2
<1>5. CASE Send(s)
  <2>1. left' \in [Streams -> 0 .. MaxBatch + 1]
    BY <1>1, <1>5 DEF Send
  <2> QED  BY <1>5, <2>1 DEF Send, Await, Yields, Kinds, owner
<1>6. CASE Sleep(s)
  BY <1>1, <1>6 DEF Sleep, Await, Yields, Kinds, owner
<1>7. CASE EndSse(s)
  BY <1>1, <1>7 DEF EndSse, Return, Returns, Statuses, owner
<1>8. CASE Throw(s)
  <2>1. left' \in [Streams -> 0 .. MaxBatch + 1]
    BY <1>1, <1>8 DEF Throw
  <2> QED  BY <1>8, <2>1 DEF Throw, Await, Yields, Kinds, owner
<1> QED  BY <1>2, <1>3, <1>4, <1>5, <1>6, <1>7, <1>8 DEF Stream

\* Either kind of step keeps the types of what the coroutines have.
LEMMA FormsTypes ==
  ASSUME TypeInv, NEW c \in Conns, Yields(c) \/ Returns(c) \/ GoesOn(c),
         left' \in [Streams -> 0 .. MaxBatch + 1],
         UNCHANGED <<running, server, starts, flag, route>>,
         pc[c] # "new", OwnerInv'
  PROVE  TypeInv'
<1>1. pc' \in [Conns -> {"new", "entry", "written", "begun", "loop", "send",
                         "end_sse", "ended"} \union Statuses]
  BY DEF TypeInv, TypeOK, Yields, Returns, GoesOn
<1>2. awaits' \in [Conns -> Kinds \union {None}]
  BY DEF TypeInv, TypeOK, Yields, Returns, GoesOn
<1>3. on' \in [Workers -> Conns \union {None}]
  BY DEF TypeInv, TypeOK, Yields, Returns, GoesOn
<1>4. UNCHANGED <<worker, ready>>
  BY DEF Yields, Returns, GoesOn
<1>5. TypeOK'
  BY <1>1, <1>2, <1>3, <1>4 DEF TypeInv, TypeOK
<1>6. \A r \in Requests : pc'[r] # "new" => pc[r] # "new"
  BY DEF TypeInv, TypeOK, Conns, Yields, Returns, GoesOn
<1> QED  BY <1>5, <1>6 DEF TypeInv

\* A new connection gets a worker and a route.
LEMMA ConnectTypes ==
  ASSUME TypeInv, NEW c \in Conns, Connect(c), OwnerInv' PROVE TypeInv'
<1>1. PICK w \in Workers : /\ worker' = [worker EXCEPT ![c] = w]
                           /\ ready' = [ready EXCEPT ![w] = Append(@, c)]
  BY DEF Connect
<1>2. /\ pc' = [pc EXCEPT ![c] = "entry"]
      /\ UNCHANGED <<running, server, starts, flag, left, awaits, on>>
      /\ server = "listening"
  BY DEF Connect, owner
<1>3. /\ route' \in [Requests -> Routes \union {None}]
      /\ \A r \in Requests : pc'[r] # "new" => route'[r] \in Route
  <2>1. CASE c \in Streams
    BY <1>2, <2>1, ConnsAssumption DEF Connect, TypeInv, TypeOK, Conns
  <2>2. CASE c \in Requests
    <3>1. PICK r \in Routes : route' = [route EXCEPT ![c] = r]
      BY <2>2, ConnsAssumption DEF Connect
    <3>2. r \in Route
      BY ConnsAssumption
    <3> QED  BY <1>2, <2>2, <3>1, <3>2 DEF TypeInv, TypeOK, Conns
  <2> QED  BY <2>1, <2>2 DEF Conns
<1>4. pc' \in [Conns -> {"new", "entry", "written", "begun", "loop", "send",
                         "end_sse", "ended"} \union Statuses]
  BY <1>2 DEF TypeInv, TypeOK
<1>5. worker' \in [Conns -> Workers \union {None}]
  BY <1>1 DEF TypeInv, TypeOK
<1>6. ready' \in [Workers -> Seq(Conns)]
  <2>1. Append(ready[w], c) \in Seq(Conns)
    BY AppendProperties DEF TypeInv, TypeOK
  <2> QED  BY <1>1, <2>1 DEF TypeInv, TypeOK
<1>7. TypeOK'
  BY <1>2, <1>3, <1>4, <1>5, <1>6 DEF TypeInv, TypeOK
<1> QED  BY <1>2, <1>3, <1>7 DEF TypeInv

\* So do the workers, and what a coroutine has awaited.
LEMMA QueueTypes ==
  ASSUME TypeInv, OwnerInv',
         \/ \E w \in Workers : Schedule(w)
         \/ \E c \in Conns, what \in Kinds : Resume(c, what)
  PROVE  TypeInv'
<1>1. CASE \E w \in Workers : Schedule(w)
  <2>1. PICK w \in Workers : Schedule(w)
    BY <1>1
  <2>2. ready[w] \in Seq(Conns) /\ ready[w] # <<>>
    BY <2>1 DEF Schedule, TypeInv, TypeOK
  <2>3. Head(ready[w]) \in Conns /\ Tail(ready[w]) \in Seq(Conns)
    BY <2>2, HeadTailProperties
  <2> DEFINE first == Head(ready[w])
             rest == Tail(ready[w])
  <2>4. on' = [on EXCEPT ![w] = first] /\ ready' = [ready EXCEPT ![w] = rest]
        /\ UNCHANGED <<running, server, starts, flag, pc, route, left, worker,
                       awaits>>
    BY <2>1 DEF Schedule, owner, conns
  <2>5. first \in Conns /\ rest \in Seq(Conns)
    BY <2>3
  <2> HIDE DEF first, rest
  <2>6. on' \in [Workers -> Conns \union {None}]
        /\ ready' \in [Workers -> Seq(Conns)]
    BY <2>4, <2>5 DEF TypeInv, TypeOK
  <2>7. TypeOK'
    BY <2>4, <2>6 DEF TypeInv, TypeOK
  <2> QED  BY <2>4, <2>7 DEF TypeInv
<1>2. CASE \E c \in Conns, what \in Kinds : Resume(c, what)
  <2>1. PICK c \in Conns, what \in Kinds : Resume(c, what)
    BY <1>2
  <2> DEFINE longer == Append(ready[worker[c]], c)
  <2>2. /\ awaits' = [awaits EXCEPT ![c] = None]
        /\ ready' = [ready EXCEPT ![worker[c]] = longer]
        /\ UNCHANGED <<running, server, starts, flag, pc, route, left, worker,
                       on>>
    BY <2>1 DEF Resume, owner
  <2>3. worker[c] \in Workers => longer \in Seq(Conns)
    BY AppendProperties DEF TypeInv, TypeOK
  <2> HIDE DEF longer
  <2>4. awaits' \in [Conns -> Kinds \union {None}]
        /\ ready' \in [Workers -> Seq(Conns)]
    BY <2>2, <2>3 DEF TypeInv, TypeOK
  <2>5. TypeOK'
    BY <2>2, <2>4 DEF TypeInv, TypeOK
  <2> QED  BY <2>2, <2>5 DEF TypeInv
<1> QED  BY <1>1, <1>2

\* And the owner.
LEMMA OwnerTypes ==
  ASSUME TypeInv, OwnerInv', Owner \/ Signal PROVE TypeInv'
<1>1. UNCHANGED <<pc, route, left, worker, awaits, ready, on>>
  BY DEF Owner, Run, Stop, Stopped, Destroy, Signal, conns, owner
<1>2. /\ running' \in BOOLEAN /\ flag' \in BOOLEAN
      /\ server' \in {"constructed", "listening", "failed", "stopping",
                      "stopped", "destroyed"}
  BY DEF Owner, Run, Stop, Stopped, Destroy, Signal, conns, owner, TypeInv,
         TypeOK
<1>3. starts' \in 0 .. MaxStarts
  <2>1. starts \in 0 .. MaxStarts /\ MaxStarts \in Nat
    BY ConnsAssumption DEF TypeInv, TypeOK
  <2>2. \/ starts' = starts
        \/ starts' = starts + 1 /\ starts < MaxStarts
    BY DEF Owner, Run, Stop, Stopped, Destroy, Signal, conns, owner
  <2> QED  BY <2>1, <2>2
<1>4. TypeOK'
  BY <1>1, <1>2, <1>3 DEF TypeInv, TypeOK
<1> QED  BY <1>1, <1>3, <1>4 DEF TypeInv

\* Every step keeps the types.
LEMMA NextTypes == TypeInv /\ [Next]_vars => TypeInv'
<1> SUFFICES ASSUME TypeInv, [Next]_vars PROVE TypeInv'
  OBVIOUS
<1>1. OwnerInv'
  BY NextOwner DEF TypeInv
<1>2. CASE UNCHANGED vars \/ Destroyed
  BY <1>1, <1>2 DEF Destroyed, vars, TypeInv, TypeOK
<1>3. CASE \E c \in Requests : Request(c)
  <2>1. PICK c \in Requests : Request(c)
    BY <1>3
  <2>2. left' \in [Streams -> 0 .. MaxBatch + 1]
    BY <2>1, RequestForms DEF TypeInv, TypeOK
  <2> QED  BY <1>1, <2>1, <2>2, RequestForms, FormsTypes DEF Conns
<1>4. CASE \E s \in Streams : Stream(s)
  BY <1>1, <1>4, StreamForms, FormsTypes DEF Conns
<1> QED
  BY <1>1, <1>2, <1>3, <1>4, ConnectTypes, QueueTypes, OwnerTypes DEF Next

\* The types, with what they need to be kept (every operation).
LEMMA TypesInductive == Spec => []TypeInv
<1>1. Init => TypeInv
  <2> SUFFICES ASSUME Init PROVE TypeInv
    OBVIOUS
  <2>1. /\ left \in [Streams -> 0 .. MaxBatch + 1]
        /\ ready \in [Workers -> Seq(Conns)]
        /\ starts \in 0 .. MaxStarts
    BY ConnsAssumption, EmptySeq DEF Init
  <2> DEFINE new == "new"
  <2>3. pc = [c \in Conns |-> new]
    BY DEF Init
  <2> HIDE DEF new
  <2>4. pc \in [Conns -> {new, "entry", "written", "begun", "loop", "send",
                         "end_sse", "ended"} \union Statuses]
    BY <2>3
  <2>5. /\ route \in [Requests -> Routes \union {None}]
        /\ worker \in [Conns -> Workers \union {None}]
        /\ awaits \in [Conns -> Kinds \union {None}]
        /\ on \in [Workers -> Conns \union {None}]
    BY DEF Init
  <2>6. server = "constructed" /\ running = FALSE /\ flag = TRUE
    BY DEF Init
  <2>2. TypeOK
    BY <2>1, <2>4, <2>5, <2>6 DEF TypeOK, new
  <2> QED  BY <2>2, InitOwner DEF Init, TypeInv, Conns
<1> QED  BY <1>1, NextTypes, PTL DEF Spec

\* Every variable keeps its type, for any number of workers and connections:
\* in particular no stream sends more than it has drained.
THEOREM ServerTypes == Spec => []TypeOK
<1>1. TypeInv => TypeOK
  BY DEF TypeInv
<1> QED  BY <1>1, TypesInductive, PTL

-------------------------------------------------------------------------------
(* Where the coroutines are.                                               *)

Within(q, c) == \E i \in 1 .. Len(q) : q[i] = c
Distinct(q) == \A i, j \in 1 .. Len(q) : q[i] = q[j] => i = j

\* A coroutine that is on a thread, in a run queue or waiting is alive and
\* nowhere else, and a live one is somewhere.
Placed(c) ==
  /\ Live(c) =>
       /\ worker[c] \in Workers
       /\ \/ awaits[c] # None
          \/ on[worker[c]] = c
          \/ Within(ready[worker[c]], c)
  /\ awaits[c] # None => Live(c)
  /\ \A w \in Workers :
       on[w] = c =>
         Live(c) /\ worker[c] = w /\ awaits[c] = None /\ ~Within(ready[w], c)
  /\ \A w \in Workers :
       Within(ready[w], c) => Live(c) /\ worker[c] = w /\ awaits[c] = None

PlaceInv ==
  /\ \A c \in Conns : Placed(c)
  /\ \A w \in Workers : Distinct(ready[w])

\* A run queue grows by a connection at its end,
LEMMA QueueGrows ==
  ASSUME NEW q \in Seq(Conns), NEW c \in Conns
  PROVE  /\ \A d \in Conns : Within(Append(q, c), d) <=> Within(q, d) \/ d = c
         /\ Distinct(q) /\ ~Within(q, c) => Distinct(Append(q, c))
<1> DEFINE p == Append(q, c)
<1>1. /\ Len(q) \in Nat /\ Len(p) = Len(q) + 1
      /\ \A i \in 1 .. Len(q) : p[i] = q[i]
      /\ p[Len(q) + 1] = c
  BY AppendProperties, LenProperties
<1> HIDE DEF p
<1>2. \A i \in 1 .. Len(p) : i \in 1 .. Len(q) \/ i = Len(q) + 1
  BY <1>1
<1>3. \A d \in Conns : Within(p, d) <=> Within(q, d) \/ d = c
  <2> SUFFICES ASSUME NEW d \in Conns
               PROVE  Within(p, d) <=> Within(q, d) \/ d = c
    OBVIOUS
  <2>1. Within(p, d) => Within(q, d) \/ d = c
    BY <1>1, <1>2 DEF Within
  <2>2. Within(q, d) => Within(p, d)
    BY <1>1 DEF Within
  <2>3. d = c => Within(p, d)
    BY <1>1 DEF Within
  <2> QED  BY <2>1, <2>2, <2>3
<1>4. Distinct(q) /\ ~Within(q, c) => Distinct(p)
  BY <1>1, <1>2 DEF Distinct, Within
<1> QED  BY <1>3, <1>4 DEF p

\* and loses the one at its head.
LEMMA QueueShrinks ==
  ASSUME NEW q \in Seq(Conns), q # <<>>, Distinct(q)
  PROVE  /\ \A d \in Conns :
              Within(Tail(q), d) <=> Within(q, d) /\ d # Head(q)
         /\ Within(q, Head(q))
         /\ Distinct(Tail(q))
<1> DEFINE p == Tail(q)
           first == Head(q)
<1>1. /\ Len(q) \in Nat /\ Len(q) > 0 /\ Len(p) = Len(q) - 1
      /\ \A i \in 1 .. Len(p) : p[i] = q[i + 1]
      /\ first = q[1]
  BY HeadTailProperties, LenProperties, EmptySeq
<1> HIDE DEF p, first
<1>2. Within(q, first)
  BY <1>1 DEF Within
<1>3. \A d \in Conns : Within(p, d) <=> Within(q, d) /\ d # first
  <2> SUFFICES ASSUME NEW d \in Conns
               PROVE  Within(p, d) <=> Within(q, d) /\ d # first
    OBVIOUS
  <2>1. ASSUME Within(p, d) PROVE Within(q, d) /\ d # first
    <3>1. PICK i \in 1 .. Len(p) : p[i] = d
      BY <2>1 DEF Within
    <3>2. q[i + 1] = d /\ i + 1 \in 1 .. Len(q) /\ i + 1 # 1 /\ 1 \in 1 .. Len(q)
      BY <1>1, <3>1
    <3> QED  BY <1>1, <3>2 DEF Within, Distinct
  <2>2. ASSUME Within(q, d), d # first PROVE Within(p, d)
    <3>1. PICK i \in 1 .. Len(q) : q[i] = d
      BY <2>2 DEF Within
    <3>2. i # 1
      BY <1>1, <2>2, <3>1
    <3>3. i - 1 \in 1 .. Len(p) /\ (i - 1) + 1 = i
      BY <1>1, <3>1, <3>2
    <3>4. p[i - 1] = d
      BY <1>1, <3>1, <3>3
    <3> QED  BY <3>3, <3>4 DEF Within
  <2> QED  BY <2>1, <2>2
<1>4. Distinct(p)
  <2> SUFFICES ASSUME NEW i \in 1 .. Len(p), NEW j \in 1 .. Len(p), p[i] = p[j]
               PROVE  i = j
    BY DEF Distinct
  <2>1. i + 1 \in 1 .. Len(q) /\ j + 1 \in 1 .. Len(q) /\ q[i + 1] = q[j + 1]
    BY <1>1
  <2>2. i + 1 = j + 1
    BY <2>1 DEF Distinct
  <2> QED  BY <2>2
<1> QED  BY <1>2, <1>3, <1>4 DEF p, first

\* Nothing has begun.
LEMMA InitPlaces == Init => PlaceInv
<1> SUFFICES ASSUME Init PROVE PlaceInv
  OBVIOUS
<1>1. \A w \in Workers : ready[w] = <<>> /\ on[w] = None
  BY DEF Init
<1>2. \A c \in Conns : ~Within(<<>>, c)
  BY DEF Within
<1>3. Distinct(<<>>)
  BY DEF Distinct
<1>4. \A c \in Conns : ~Live(c) /\ awaits[c] = None
  BY DEF Init, Live
<1>5. \A c \in Conns : c # None
  BY ConnsAssumption
<1> QED  BY <1>1, <1>2, <1>3, <1>4, <1>5 DEF PlaceInv, Placed

\* What a place depends on.
LEMMA SamePlace ==
  ASSUME NEW d \in Conns, Placed(d), Live(d)' <=> Live(d),
         worker'[d] = worker[d], awaits'[d] = awaits[d],
         \A w \in Workers : on'[w] = d <=> on[w] = d,
         \A w \in Workers : Within(ready'[w], d) <=> Within(ready[w], d)
  PROVE  Placed(d)'
BY DEF Placed

\* A coroutine on its thread stays there, leaves it to wait, or ends; the
\* others stay where they are.
LEMMA FormsPlaces ==
  ASSUME TypeInv, PlaceInv, NEW c \in Conns,
         Yields(c) \/ Returns(c) \/ GoesOn(c)
  PROVE  PlaceInv'
<1> DEFINE w0 == worker[c]
<1>1. /\ w0 \in Workers /\ on[w0] = c
      /\ UNCHANGED <<worker, ready>>
  BY DEF Yields, Returns, GoesOn, Serving, TypeInv, TypeOK
<1>2. /\ Live(c) /\ awaits[c] = None
      /\ \A w \in Workers : on[w] = c => w = w0
      /\ \A w \in Workers : ~Within(ready[w], c)
  BY <1>1 DEF PlaceInv, Placed
<1>3. /\ DOMAIN pc = Conns /\ DOMAIN awaits = Conns /\ DOMAIN on = Workers
      /\ pc = [d \in Conns |-> pc[d]] /\ awaits = [d \in Conns |-> awaits[d]]
      /\ on = [w \in Workers |-> on[w]]
  BY DEF TypeInv, TypeOK
<1>4. None \notin Conns /\ None \notin Kinds
  BY ConnsAssumption
<1> HIDE DEF w0
<1>5. ASSUME NEW d \in Conns, d # c PROVE Placed(d)'
  <2>1. pc'[d] = pc[d] /\ awaits'[d] = awaits[d]
    BY <1>3, <1>5 DEF Yields, Returns, GoesOn
  <2>2. \A w \in Workers : on'[w] = d <=> on[w] = d
    BY <1>1, <1>3, <1>4, <1>5 DEF Yields, Returns, GoesOn, w0
  <2>3. Live(d)' <=> Live(d)
    BY <2>1 DEF Live, Over
  <2>4. Placed(d)
    BY DEF PlaceInv
  <2> QED  BY <1>1, <2>1, <2>2, <2>3, <2>4, SamePlace
<1>6. Placed(c)'
  <2>1. CASE Yields(c)
    <3>1. Live(c)'
      BY <1>3, <2>1 DEF Yields, Live, Over, Statuses
    <3>2. awaits'[c] # None
      BY <1>3, <1>4, <2>1 DEF Yields
    <3>3. \A w \in Workers : on'[w] # c
      BY <1>1, <1>2, <1>3, <1>4, <2>1 DEF Yields, w0
    <3> QED  BY <1>1, <1>2, <3>1, <3>2, <3>3 DEF Placed, w0
  <2>2. CASE Returns(c)
    <3>1. ~Live(c)'
      BY <1>3, <2>2 DEF Returns, Live, Over, Statuses
    <3>2. awaits'[c] = None
      BY <1>2, <2>2 DEF Returns
    <3>3. \A w \in Workers : on'[w] # c
      BY <1>1, <1>2, <1>3, <1>4, <2>2 DEF Returns, w0
    <3> QED  BY <1>1, <1>2, <3>1, <3>2, <3>3 DEF Placed
  <2>3. CASE GoesOn(c)
    <3>1. Live(c)'
      BY <1>3, <2>3 DEF GoesOn, Live, Over, Statuses
    <3>2. UNCHANGED <<on, awaits, worker, ready>> /\ Placed(c)
      BY <2>3 DEF GoesOn, PlaceInv
    <3> QED  BY <1>2, <3>1, <3>2, SamePlace
  <2> QED  BY <2>1, <2>2, <2>3
<1>7. \A d \in Conns : Placed(d)'
  BY <1>5, <1>6
<1> QED  BY <1>1, <1>7 DEF PlaceInv

\* A connection, or what has been awaited, puts a coroutine that was nowhere
\* else into a run queue.
LEMMA Enqueued ==
  ASSUME TypeInv, PlaceInv, NEW c \in Conns, NEW w \in Workers,
         ready' = [ready EXCEPT ![w] = Append(@, c)],
         UNCHANGED on,
         Live(c)', worker'[c] = w, awaits'[c] = None,
         ~Live(c) \/ awaits[c] # None,
         \A d \in Conns \ {c} : /\ Live(d)' <=> Live(d)
                                /\ worker'[d] = worker[d]
                                /\ awaits'[d] = awaits[d]
  PROVE  PlaceInv'
<1>1. \A v \in Workers : on[v] # c /\ ~Within(ready[v], c)
  BY DEF PlaceInv, Placed
<1>2. ready[w] \in Seq(Conns) /\ Distinct(ready[w])
  BY DEF TypeInv, TypeOK, PlaceInv
<1>3. /\ ready'[w] = Append(ready[w], c)
      /\ \A v \in Workers : v # w => ready'[v] = ready[v]
  BY DEF TypeInv, TypeOK
<1>4. /\ \A d \in Conns :
           Within(ready'[w], d) <=> Within(ready[w], d) \/ d = c
      /\ Distinct(ready'[w])
  BY <1>1, <1>2, <1>3, QueueGrows
<1>5. ASSUME NEW d \in Conns, d # c PROVE Placed(d)'
  <2>1. \A v \in Workers : Within(ready'[v], d) <=> Within(ready[v], d)
    BY <1>3, <1>4, <1>5
  <2>2. Placed(d)
    BY DEF PlaceInv
  <2> QED  BY <1>5, <2>1, <2>2, SamePlace
<1>6. Placed(c)'
  <2>1. \A v \in Workers : Within(ready'[v], c) <=> v = w
    BY <1>1, <1>3, <1>4
  <2> QED  BY <1>1, <2>1 DEF Placed
<1>7. \A v \in Workers : Distinct(ready'[v])
  BY <1>3, <1>4 DEF PlaceInv
<1>8. \A d \in Conns : Placed(d)'
  BY <1>5, <1>6
<1> QED  BY <1>7, <1>8 DEF PlaceInv

\* A connection is accepted once.
LEMMA ConnectPlaces ==
  ASSUME TypeInv, PlaceInv, NEW c \in Conns, Connect(c) PROVE PlaceInv'
<1>1. PICK w \in Workers : /\ worker' = [worker EXCEPT ![c] = w]
                           /\ ready' = [ready EXCEPT ![w] = Append(@, c)]
  BY DEF Connect
<1>2. /\ pc[c] = "new" /\ pc' = [pc EXCEPT ![c] = "entry"]
      /\ UNCHANGED <<awaits, on>>
  BY DEF Connect
<1>3. ~Live(c) /\ awaits[c] = None
  BY <1>2 DEF Live, PlaceInv, Placed
<1>4. Live(c)' /\ worker'[c] = w /\ awaits'[c] = None
  BY <1>1, <1>2, <1>3 DEF TypeInv, TypeOK, Live, Over, Statuses
<1>5. \A d \in Conns \ {c} : pc'[d] = pc[d] /\ worker'[d] = worker[d]
  BY <1>1, <1>2 DEF TypeInv, TypeOK
<1>6. \A d \in Conns \ {c} : /\ Live(d)' <=> Live(d)
                             /\ worker'[d] = worker[d]
                             /\ awaits'[d] = awaits[d]
  BY <1>2, <1>5 DEF Live, Over
<1> QED  BY <1>1, <1>2, <1>3, <1>4, <1>6, Enqueued

\* An await ends once.
LEMMA ResumePlaces ==
  ASSUME TypeInv, PlaceInv, NEW c \in Conns, NEW what \in Kinds,
         Resume(c, what)
  PROVE  PlaceInv'
<1>1. /\ awaits[c] # None /\ awaits' = [awaits EXCEPT ![c] = None]
      /\ ready' = [ready EXCEPT ![worker[c]] = Append(@, c)]
      /\ UNCHANGED <<pc, worker, on>>
  BY ConnsAssumption DEF Resume
<1>2. Live(c) /\ worker[c] \in Workers
  BY <1>1 DEF PlaceInv, Placed
<1>3. /\ awaits'[c] = None
      /\ \A d \in Conns \ {c} : awaits'[d] = awaits[d]
  BY <1>1 DEF TypeInv, TypeOK
<1>4. \A d \in Conns : Live(d)' <=> Live(d)
  BY <1>1 DEF Live, Over
<1> QED  BY <1>1, <1>2, <1>3, <1>4, Enqueued

\* A thread takes the first of its queue.
LEMMA SchedulePlaces ==
  ASSUME TypeInv, PlaceInv, NEW w \in Workers, Schedule(w) PROVE PlaceInv'
<1>1. /\ ready[w] \in Seq(Conns) /\ ready[w] # <<>> /\ Distinct(ready[w])
      /\ on[w] = None
      /\ UNCHANGED <<pc, worker, awaits>>
  BY DEF Schedule, TypeInv, TypeOK, PlaceInv, conns
<1>2. PICK c \in Conns : c = Head(ready[w]) /\ Within(ready[w], c)
  BY <1>1, HeadTailProperties, QueueShrinks
<1>3. /\ ready'[w] = Tail(ready[w])
      /\ \A v \in Workers : v # w => ready'[v] = ready[v] /\ on'[v] = on[v]
      /\ on'[w] = c
  BY <1>2 DEF Schedule, TypeInv, TypeOK
<1>4. /\ \A d \in Conns : Within(ready'[w], d) <=> Within(ready[w], d) /\ d # c
      /\ Distinct(ready'[w])
  BY <1>1, <1>2, <1>3, QueueShrinks
<1>5. \A d \in Conns : Live(d)' <=> Live(d)
  BY <1>1 DEF Live, Over
<1>6. None \notin Conns
  BY ConnsAssumption
<1>7. ASSUME NEW d \in Conns, d # c PROVE Placed(d)'
  <2>1. \A v \in Workers : Within(ready'[v], d) <=> Within(ready[v], d)
    BY <1>3, <1>4, <1>7
  <2>2. \A v \in Workers : on'[v] = d <=> on[v] = d
    BY <1>1, <1>3, <1>6, <1>7
  <2>3. Placed(d)
    BY DEF PlaceInv
  <2> QED  BY <1>1, <1>5, <2>1, <2>2, <2>3, SamePlace
<1>8. Placed(c)'
  <2>1. /\ Live(c) /\ worker[c] = w /\ awaits[c] = None
        /\ \A v \in Workers : on[v] # c
        /\ \A v \in Workers : v # w => ~Within(ready[v], c)
    BY <1>2 DEF PlaceInv, Placed
  <2>2. \A v \in Workers : ~Within(ready'[v], c)
    BY <1>2, <1>3, <1>4, <2>1
  <2>3. \A v \in Workers : on'[v] = c <=> v = w
    BY <1>3, <2>1
  <2>4. Live(c)' /\ worker'[c] = w /\ awaits'[c] = None
    BY <1>1, <1>2, <1>5, <2>1
  <2> QED  BY <2>2, <2>3, <2>4 DEF Placed
<1>9. \A v \in Workers : Distinct(ready'[v])
  BY <1>3, <1>4 DEF PlaceInv
<1>10. \A d \in Conns : Placed(d)'
  BY <1>7, <1>8
<1> QED  BY <1>9, <1>10 DEF PlaceInv

\* Every step keeps the coroutines at one place.
LEMMA NextPlaces == TypeInv /\ PlaceInv /\ [Next]_vars => PlaceInv'
<1> SUFFICES ASSUME TypeInv, PlaceInv, [Next]_vars PROVE PlaceInv'
  OBVIOUS
<1>1. CASE UNCHANGED vars \/ Destroyed \/ Owner \/ Signal
  <2>1. UNCHANGED <<pc, worker, awaits, ready, on>>
    BY <1>1 DEF Destroyed, vars, Owner, Run, Stop, Stopped, Destroy, Signal,
                conns
  <2> QED  BY <2>1 DEF PlaceInv, Placed, Live, Over
<1>2. CASE \E c \in Requests : Request(c)
  BY <1>2, RequestForms, FormsPlaces DEF Conns
<1>3. CASE \E s \in Streams : Stream(s)
  BY <1>3, StreamForms, FormsPlaces DEF Conns
<1> QED
  BY <1>1, <1>2, <1>3, ConnectPlaces, ResumePlaces, SchedulePlaces DEF Next

-------------------------------------------------------------------------------
(* What a request waits for.                                               *)

\* A request is at the points of HandleRequest and HandleJsonRpc, a stream at
\* those of its handler.
StageInv ==
  /\ \A c \in Requests : pc[c] \in {"new", "entry", "written"} \union Statuses
  /\ \A s \in Streams : pc[s] \in {"new", "entry", "begun", "loop", "send",
                                   "end_sse", "ended"}

\* A coroutine on a thread has a step to make.
CanGoOn(c) ==
  \/ /\ c \in Requests /\ pc[c] \in {"entry", "written"}
     /\ Response(route[c]) # {}
  \/ c \in Streams /\ pc[c] \in {"entry", "begun", "loop", "end_sse"}
  \/ c \in Streams /\ pc[c] = "send" /\ (left[c] > 0 \/ left[c] = 0)

ThreadsGoOn == \A w \in Workers : on[w] # None => CanGoOn(on[w])

\* The coroutine at place i of the queue of w stays there, comes nearer to the
\* head, or gets the thread.
Advances(w, i) ==
  \/ i \in DOMAIN ready'[w] /\ ready'[w][i] = ready[w][i]
  \/ i > 1 /\ i - 1 \in DOMAIN ready'[w] /\ ready'[w][i - 1] = ready[w][i]
  \/ i = 1 /\ on'[w] = ready[w][1]

\* A thread leaves its coroutine, or the coroutine makes no step, or it is a
\* stream that has looked at the flag and will not do so again.
ComesFree(w) ==
  on[w] # None =>
    \/ on'[w] = None
    \/ /\ on'[w] = on[w]
       /\ \/ pc'[on[w]] = pc[on[w]]
          \/ pc[on[w]] = "loop" /\ pc'[on[w]] = "send"

\* The steps request c may still make.
StepsLeft(c) ==
  IF pc[c] = "new" THEN 3
  ELSE IF pc[c] = "entry" THEN 2
  ELSE IF pc[c] = "written" THEN 1 ELSE 0

RequestGoesOn(c) == pc'[c] = pc[c] \/ StepsLeft(c)' < StepsLeft(c)

\* Requests and streams keep to their handlers.
LEMMA InitStages == Init => StageInv
<1> SUFFICES ASSUME Init PROVE StageInv
  OBVIOUS
<1>1. \A c \in Conns : pc[c] = "new"
  BY DEF Init
<1> QED  BY <1>1 DEF StageInv, Conns

\* What a step of a request does to it.
LEMMA RequestStage ==
  ASSUME TypeInv, NEW c \in Requests, Request(c)
  PROVE  /\ pc[c] \in {"entry", "written"}
         /\ \E next \in {"written"} \union Statuses :
              /\ pc' = [pc EXCEPT ![c] = next]
              /\ pc[c] = "written" => next # "written"
<1>1. pc[c] \in {"entry", "written"}
  BY DEF Request, Respond, PostWrite, RespondWritten
<1>2. \A status \in Response(route[c]) : status \in Statuses
  BY <1>1 DEF TypeInv, Response, Statuses, Route
<1>3. "written" \notin Statuses
  BY DEF Statuses
<1> QED  BY <1>1, <1>2, <1>3
         DEF Request, Respond, PostWrite, RespondWritten, Await, Return

\* What a step of a stream does to it.
LEMMA StreamStage ==
  ASSUME NEW s \in Streams, Stream(s)
  PROVE  \E next \in {"begun", "loop", "send", "end_sse", "ended"} :
           pc' = [pc EXCEPT ![s] = next]
<1>1. CASE BeginSse(s) \/ SendConnected(s)
  BY <1>1 DEF BeginSse, SendConnected, Await, Return
<1>2. CASE Loop(s)
  <2>1. pc' = [pc EXCEPT ![s] = "send"] \/ pc' = [pc EXCEPT ![s] = "end_sse"]
    BY <1>2 DEF Loop, Await
  <2> QED  BY <2>1
<1>3. CASE Send(s) \/ Sleep(s) \/ Throw(s)
  BY <1>3 DEF Send, Sleep, Throw, Await
<1>4. CASE EndSse(s)
  BY <1>4 DEF EndSse, Return
<1> QED  BY <1>1, <1>2, <1>3, <1>4 DEF Stream

\* The others make no step of any.
LEMMA OthersLeaveStages ==
  ASSUME TypeInv, [Next]_vars,
         ~\E c \in Requests : Request(c),
         ~\E s \in Streams : Stream(s)
  PROVE  \A d \in Conns : \/ pc'[d] = pc[d]
                          \/ pc[d] = "new" /\ pc'[d] = "entry"
<1>1. CASE \E c \in Conns : Connect(c)
  BY <1>1 DEF Connect, TypeInv, TypeOK
<1>2. CASE ~\E c \in Conns : Connect(c)
  <2>1. UNCHANGED pc
    BY <1>2 DEF Next, Owner, Run, Stop, Stopped, Destroy, Signal, Schedule,
                Resume, Destroyed, conns, vars
  <2> QED  BY <2>1
<1> QED  BY <1>1, <1>2

\* Every step keeps the points where they belong.
LEMMA NextStages == TypeInv /\ StageInv /\ [Next]_vars => StageInv'
<1> SUFFICES ASSUME TypeInv, StageInv, [Next]_vars PROVE StageInv'
  OBVIOUS
<1>1. pc = [d \in Conns |-> pc[d]] /\ Requests \intersect Streams = {}
      /\ Conns = Requests \union Streams
  BY ConnsAssumption DEF TypeInv, TypeOK, Conns
<1>2. CASE \E c \in Requests : Request(c)
  <2>1. PICK c \in Requests, next \in {"written"} \union Statuses :
          pc' = [pc EXCEPT ![c] = next]
    BY <1>2, RequestStage
  <2>2. pc'[c] = next /\ \A d \in Conns : d # c => pc'[d] = pc[d]
    BY <1>1, <2>1
  <2> QED  BY <1>1, <2>2 DEF StageInv
<1>3. CASE \E s \in Streams : Stream(s)
  <2>1. PICK s \in Streams,
             next \in {"begun", "loop", "send", "end_sse", "ended"} :
          pc' = [pc EXCEPT ![s] = next]
    BY <1>3, StreamStage
  <2>2. pc'[s] = next /\ \A d \in Conns : d # s => pc'[d] = pc[d]
    BY <1>1, <2>1
  <2> QED  BY <1>1, <2>2 DEF StageInv
<1>4. CASE /\ ~\E c \in Requests : Request(c)
           /\ ~\E s \in Streams : Stream(s)
  <2>1. \A d \in Conns : \/ pc'[d] = pc[d]
                         \/ pc[d] = "new" /\ pc'[d] = "entry"
    BY <1>4, OthersLeaveStages
  <2> QED  BY <1>1, <2>1 DEF StageInv
<1> QED  BY <1>2, <1>3, <1>4

\* What is on a thread is alive, so it has a step to make.
LEMMA OnThreadsGoOn == TypeInv /\ PlaceInv /\ StageInv => ThreadsGoOn
<1> SUFFICES ASSUME TypeInv, PlaceInv, StageInv, NEW w \in Workers, on[w] # None
             PROVE  CanGoOn(on[w])
  BY DEF ThreadsGoOn
<1>1. PICK c \in Conns : c = on[w]
  BY DEF TypeInv, TypeOK
<1>2. Live(c)
  BY <1>1 DEF PlaceInv, Placed
<1>3. CASE c \in Requests
  <2>1. pc[c] \in {"entry", "written"}
    BY <1>2, <1>3 DEF StageInv, Live, Over
  <2>2. route[c] \in Route
    BY <1>3, <2>1 DEF TypeInv
  <2>3. Response(route[c]) # {}
    BY <2>2 DEF Response, Route
  <2> QED  BY <1>1, <1>3, <2>1, <2>3 DEF CanGoOn
<1>4. CASE c \in Streams
  <2>1. pc[c] \in {"entry", "begun", "loop", "send", "end_sse"}
    BY <1>2, <1>4 DEF StageInv, Live, Over
  <2>2. left[c] \in 0 .. MaxBatch + 1 /\ MaxBatch \in Nat
    BY <1>4, ConnsAssumption DEF TypeInv, TypeOK
  <2>3. left[c] > 0 \/ left[c] = 0
    BY <2>2
  <2> QED  BY <1>1, <1>4, <2>1, <2>3 DEF CanGoOn
<1> QED  BY <1>3, <1>4 DEF Conns

\* A run queue is served in order.
LEMMA QueuesAdvance ==
  ASSUME TypeInv, [Next]_vars, NEW w \in Workers, NEW i \in DOMAIN ready[w]
  PROVE  Advances(w, i)
<1>1. /\ ready[w] \in Seq(Conns) /\ Len(ready[w]) \in Nat
      /\ DOMAIN ready[w] = 1 .. Len(ready[w])
  BY LenProperties DEF TypeInv, TypeOK
<1>2. CASE UNCHANGED <<ready>>
  BY <1>2 DEF Advances
<1>3. ASSUME NEW c \in Conns, NEW v, ready' = [ready EXCEPT ![v] = Append(@, c)]
      PROVE  Advances(w, i)
  <2>1. CASE v = w
    <3> DEFINE p == Append(ready[w], c)
    <3>1. /\ Len(p) = Len(ready[w]) + 1 /\ p \in Seq(Conns)
          /\ \A j \in 1 .. Len(ready[w]) : p[j] = ready[w][j]
      BY <1>1, AppendProperties
    <3>2. DOMAIN p = 1 .. Len(p)
      BY <3>1, LenProperties
    <3>3. ready'[w] = p
      BY <1>3, <2>1 DEF TypeInv, TypeOK
    <3> HIDE DEF p
    <3>4. i \in 1 .. Len(ready[w])
      BY <1>1
    <3>5. i \in DOMAIN p /\ p[i] = ready[w][i]
      BY <1>1, <3>1, <3>2, <3>4
    <3> QED  BY <3>3, <3>5 DEF Advances
  <2>2. CASE v # w
    <3>1. ready'[w] = ready[w]
      BY <1>3, <2>2 DEF TypeInv, TypeOK
    <3> QED  BY <3>1 DEF Advances
  <2> QED  BY <2>1, <2>2
<1>4. CASE \E v \in Workers : Schedule(v)
  <2>1. PICK v \in Workers : Schedule(v)
    BY <1>4
  <2>2. CASE v = w
    <3> DEFINE p == Tail(ready[w])
    <3>1. ready[w] # <<>> /\ on'[w] = Head(ready[w]) /\ ready'[w] = p
      BY <2>1, <2>2 DEF Schedule, TypeInv, TypeOK
    <3>2. /\ Len(p) = Len(ready[w]) - 1 /\ p \in Seq(Conns)
          /\ \A j \in 1 .. Len(p) : p[j] = ready[w][j + 1]
          /\ Head(ready[w]) = ready[w][1]
      BY <1>1, <3>1, HeadTailProperties
    <3>3. DOMAIN p = 1 .. Len(p)
      BY <3>2, LenProperties
    <3> HIDE DEF p
    <3>4. CASE i = 1
      BY <3>1, <3>2, <3>4 DEF Advances
    <3>5. CASE i # 1
      <4>1. i \in Nat /\ i > 1 /\ i - 1 \in 1 .. Len(p) /\ (i - 1) + 1 = i
        BY <1>1, <3>2, <3>5
      <4>2. p[i - 1] = ready[w][i]
        BY <3>2, <4>1
      <4> QED  BY <3>1, <3>3, <4>1, <4>2 DEF Advances
    <3> QED  BY <3>4, <3>5
  <2>3. CASE v # w
    <3>1. ready'[w] = ready[w]
      BY <2>1, <2>3 DEF Schedule, TypeInv, TypeOK
    <3> QED  BY <3>1 DEF Advances
  <2> QED  BY <2>2, <2>3
<1>5. CASE \E c \in Conns : Connect(c)
  BY <1>3, <1>5 DEF Connect
<1>6. CASE \E c \in Conns, what \in Kinds : Resume(c, what)
  <2>1. PICK c \in Conns, what \in Kinds : Resume(c, what)
    BY <1>6
  <2>2. ready' = [ready EXCEPT ![worker[c]] = Append(@, c)]
    BY <2>1 DEF Resume
  <2> QED  BY <1>3, <2>2
<1>7. CASE \E c \in Requests : Request(c)
  <2>1. UNCHANGED <<ready>>
    BY <1>7, RequestForms DEF Yields, Returns
  <2> QED  BY <1>2, <2>1
<1>8. CASE \E s \in Streams : Stream(s)
  <2>1. UNCHANGED <<ready>>
    BY <1>8, StreamForms DEF Yields, Returns, GoesOn
  <2> QED  BY <1>2, <2>1
<1>9. CASE Owner \/ Signal \/ Destroyed \/ UNCHANGED vars
  <2>1. UNCHANGED <<ready>>
    BY <1>9 DEF Owner, Run, Stop, Stopped, Destroy, Signal, Destroyed, vars
  <2> QED  BY <1>2, <2>1
<1> QED  BY <1>4, <1>5, <1>6, <1>7, <1>8, <1>9 DEF Next

\* A thread is with no coroutine for long.
LEMMA ThreadsComeFree ==
  ASSUME TypeInv, PlaceInv, [Next]_vars, NEW w \in Workers
  PROVE  ComesFree(w)
<1> SUFFICES ASSUME on[w] # None PROVE ComesFree(w)
  BY DEF ComesFree
<1>1. PICK c \in Conns : c = on[w]
  BY DEF TypeInv, TypeOK
<1>2. /\ Live(c) /\ worker[c] = w
      /\ \A d \in Conns, v \in Workers : on[v] = d => worker[d] = v
  BY <1>1 DEF PlaceInv, Placed
<1>3. /\ pc = [d \in Conns |-> pc[d]] /\ on = [v \in Workers |-> on[v]]
      /\ worker \in [Conns -> Workers \union {None}]
  BY DEF TypeInv, TypeOK
<1>4. ASSUME NEW d \in Conns,
             Serving(d), on' = [on EXCEPT ![worker[d]] = None],
             NEW next, pc' = [pc EXCEPT ![d] = next]
      PROVE  ComesFree(w)
  <2>1. CASE d = c
    BY <1>1, <1>2, <1>3, <1>4, <2>1 DEF ComesFree
  <2>2. CASE d # c
    <3>1. worker[d] # w
      BY <1>1, <1>4, <2>2 DEF Serving
    <3>2. on'[w] = on[w] /\ pc'[c] = pc[c]
      BY <1>3, <1>4, <2>2, <3>1
    <3> QED  BY <1>1, <3>2 DEF ComesFree
  <2> QED  BY <2>1, <2>2
<1>5. CASE \E r \in Requests : Request(r)
  <2>1. PICK r \in Requests : Request(r)
    BY <1>5
  <2>2. r \in Conns
    BY DEF Conns
  <2>3. Yields(r) \/ Returns(r)
    BY <2>1, RequestForms
  <2> QED  BY <1>4, <2>2, <2>3 DEF Yields, Returns
<1>6. CASE \E s \in Streams : Stream(s)
  <2>1. PICK s \in Streams : Stream(s)
    BY <1>6
  <2>2. s \in Conns
    BY DEF Conns
  <2>3. CASE Yields(s) \/ Returns(s)
    BY <1>4, <2>2, <2>3 DEF Yields, Returns
  <2>4. CASE ~(Yields(s) \/ Returns(s))
    <3>1. GoesOn(s)
      BY <2>1, <2>4, StreamForms
    <3>2. pc[s] = "loop"
      <4>1. CASE Loop(s)
        BY <4>1 DEF Loop
      <4>2. CASE BeginSse(s) \/ SendConnected(s) \/ Send(s) \/ Throw(s)
                 \/ Sleep(s) \/ EndSse(s)
        <5>1. on' = [on EXCEPT ![worker[s]] = None]
          BY <4>2 DEF BeginSse, SendConnected, Send, Throw, Sleep, EndSse,
                      Await, Return
        <5>2. worker[s] \in Workers /\ on[worker[s]] = s /\ s # None
          BY <1>3, <2>2, <3>1, ConnsAssumption DEF GoesOn, Serving
        <5>3. on'[worker[s]] = None /\ on'[worker[s]] = s
          BY <1>3, <3>1, <5>1, <5>2 DEF GoesOn
        <5> QED  BY <5>2, <5>3
      <4> QED  BY <2>1, <4>1, <4>2 DEF Stream
    <3>3. /\ on' = on
          /\ pc'[s] = "send" /\ \A d \in Conns : d # s => pc'[d] = pc[d]
      BY <1>3, <2>2, <3>1 DEF GoesOn
    <3> QED  BY <1>1, <3>2, <3>3 DEF ComesFree
  <2> QED  BY <2>3, <2>4
<1>7. CASE /\ ~\E r \in Requests : Request(r)
           /\ ~\E s \in Streams : Stream(s)
  <2>1. pc'[c] = pc[c]
    BY <1>2, <1>7, OthersLeaveStages DEF Live
  <2>2. on'[w] = on[w]
    <3>1. CASE \E v \in Workers : Schedule(v)
      BY <1>3, <3>1 DEF Schedule
    <3>2. CASE ~\E v \in Workers : Schedule(v)
      <4>1. UNCHANGED on
        BY <1>7, <3>2 DEF Next, Owner, Run, Stop, Stopped, Destroy, Signal,
                          Connect, Resume, Destroyed, vars
      <4> QED  BY <4>1
    <3> QED  BY <3>1, <3>2
  <2> QED  BY <1>1, <2>1, <2>2 DEF ComesFree
<1> QED  BY <1>5, <1>6, <1>7

\* A request goes forward.
LEMMA RequestsGoOn ==
  ASSUME TypeInv, StageInv, [Next]_vars, NEW c \in Requests
  PROVE  RequestGoesOn(c)
<1>1. pc = [d \in Conns |-> pc[d]] /\ Requests \intersect Streams = {}
      /\ Conns = Requests \union Streams
  BY ConnsAssumption DEF TypeInv, TypeOK, Conns
<1>2. CASE \E r \in Requests : Request(r)
  <2>1. PICK r \in Requests : Request(r)
    BY <1>2
  <2>2. PICK next \in {"written"} \union Statuses :
          /\ pc' = [pc EXCEPT ![r] = next]
          /\ pc[r] = "written" => next # "written"
    BY <2>1, RequestStage
  <2>3. pc[r] \in {"entry", "written"}
    BY <2>1, RequestStage
  <2>4. CASE r = c
    <3>1. pc'[c] = next
      BY <1>1, <2>2, <2>4
    <3>2. next \in {"written", "ok", "no_content", "not_found"}
      BY DEF Statuses
    <3> QED  BY <2>2, <2>3, <2>4, <3>1, <3>2 DEF RequestGoesOn, StepsLeft
  <2>5. CASE r # c
    BY <1>1, <2>2, <2>5 DEF RequestGoesOn
  <2> QED  BY <2>4, <2>5
<1>3. CASE \E s \in Streams : Stream(s)
  <2>1. PICK s \in Streams,
             next \in {"begun", "loop", "send", "end_sse", "ended"} :
          pc' = [pc EXCEPT ![s] = next]
    BY <1>3, StreamStage
  <2> QED  BY <1>1, <2>1 DEF RequestGoesOn
<1>4. CASE /\ ~\E r \in Requests : Request(r)
           /\ ~\E s \in Streams : Stream(s)
  <2>1. pc'[c] = pc[c] \/ (pc[c] = "new" /\ pc'[c] = "entry")
    BY <1>1, <1>4, OthersLeaveStages
  <2> QED  BY <2>1 DEF RequestGoesOn, StepsLeft
<1> QED  BY <1>2, <1>3, <1>4

\* Why nobody is kept waiting, for any number of workers and connections:
\* a coroutine on a thread always has a step to make, and leaves the thread
\* with it, or with the next one if it is a stream that has just read the
\* flag; nobody in a run queue is overtaken; and a request comes to its end
\* in at most three steps (http_jsonrpc.cpp:128-216,
\* mcp_demo_server_main.cpp:303-311 and 484-499).
THEOREM NobodyKeepsAThread ==
  Spec => /\ []ThreadsGoOn
          /\ [][\A w \in Workers : ComesFree(w)]_vars
          /\ [][\A w \in Workers : \A i \in DOMAIN ready[w] :
                  Advances(w, i)]_vars
          /\ [][\A c \in Requests : RequestGoesOn(c)]_vars
<1>1. TypeInv /\ PlaceInv /\ [Next]_vars =>
        [\A w \in Workers : ComesFree(w)]_vars
  BY ThreadsComeFree
<1>2. TypeInv /\ [Next]_vars =>
        [\A w \in Workers : \A i \in DOMAIN ready[w] : Advances(w, i)]_vars
  BY QueuesAdvance
<1>3. TypeInv /\ StageInv /\ [Next]_vars =>
        [\A c \in Requests : RequestGoesOn(c)]_vars
  BY RequestsGoOn
<1> QED  BY <1>1, <1>2, <1>3, TypesInductive, InitPlaces, NextPlaces,
            InitStages, NextStages, OnThreadsGoOn, PTL DEF Spec
===============================================================================
