---------------------------- MODULE McpServer_proofs ----------------------------
(***************************************************************************)
(* Proofs about McpServer for every set of tasks, kinds, names and         *)
(* registrations and every bound.                                          *)
(***************************************************************************)
EXTENDS McpServer, SequenceTheorems, WellFoundedInduction, TLAPS

-------------------------------------------------------------------------------
(* The inductive invariant: the types, the shape of the stacks, which      *)
(* frames hold which lock, and what the lock holder has done to the maps.  *)

\* A frame that waits for EmitSseEvent.
Emitter(g) ==
  \/ g.op = "register" /\ g.pc = "notifying"
  \/ g.op = "call" /\ g.pc \in {"starting", "ending", "erring"}

\* Frame g may wait for frame f.
WaitsFor(g, f) == IF f.op = "emit" THEN Emitter(g) ELSE InUserCode(g)

\* Every frame but the innermost waits for the one above it, and none that
\* waits for user code or an event holds a lock; a user starts a stack.
Shape(s) ==
  /\ \A i \in 1 .. Len(s) - 1 : WaitsFor(s[i + 1], s[i])
  /\ s # <<>> => s[Len(s)].op # "emit"

ShapeInv == \A t \in Tasks : Shape(stack[t])

Writing(f, k) == f.op = "register" /\ f.pc \in {"meta", "impl"} /\ f.kind = k
Reading(f, k) == f.op \in {"list", "call"} /\ f.pc = "inside" /\ f.kind = k
Copying(f) == f.op = "emit" /\ f.pc = "copy"

InW(s, k) == s # <<>> /\ Writing(Head(s), k)
InR(s, k) == s # <<>> /\ Reading(Head(s), k)
InC(s) == s # <<>> /\ Copying(Head(s))

\* The mutexes are held by exactly the tasks whose innermost frame is
\* inside the critical section, and a writer excludes readers.
LockInv ==
  /\ \A t \in Tasks, k \in Kinds :
       /\ writer[k] = t <=> InW(stack[t], k)
       /\ t \in readers[k] <=> InR(stack[t], k)
  /\ \A t \in Tasks : sseOwner = t <=> InC(stack[t])
  /\ \A k \in Kinds : writer[k] # None => readers[k] = {}

\* What the writer of a registry has done to its two maps so far.
HalfDone(f) ==
  /\ f.op = "register" /\ f.pc = "meta" => meta[f.kind] = impl[f.kind]
  /\ f.op = "register" /\ f.pc = "impl" =>
       meta[f.kind] = [impl[f.kind] EXCEPT ![f.name] = f.reg]

MapsInv ==
  /\ MapsAgree
  /\ \A t \in Tasks : stack[t] # <<>> => HalfDone(Top(t))

IInv == TypeOK /\ ShapeInv /\ LockInv /\ MapsInv /\ EventsDescribeVisibleNames

-------------------------------------------------------------------------------
(* Stacks as sequences.                                                    *)

\* An empty stack has length 0.
LEMMA EmptyLen == \A s : s = <<>> => Len(s) = 0
<1>1. Len(<<>>) = 0
  BY EmptySeq
<1> QED BY <1>1, Zenon

\* A frame put on top of a stack.
LEMMA ConsFacts ==
  ASSUME NEW S, NEW s \in Seq(S), NEW f \in S
  PROVE  LET c == <<f>> \o s IN
           /\ c \in Seq(S) /\ c # <<>>
           /\ Len(c) = Len(s) + 1
           /\ Head(c) = f /\ c[1] = f
           /\ Tail(c) = s
           /\ \A i \in 1 .. Len(s) : c[i + 1] = s[i]
           /\ \A i \in 2 .. Len(c) : c[i] = s[i - 1]
OBVIOUS

\* The innermost frame taken off a stack.
LEMMA TailFacts ==
  ASSUME NEW S, NEW s \in Seq(S), s # <<>>
  PROVE  /\ Head(s) \in S /\ Head(s) = s[1]
         /\ Tail(s) \in Seq(S)
         /\ Len(Tail(s)) = Len(s) - 1
         /\ Len(s) >= 1
         /\ \A i \in 1 .. Len(s) - 1 : Tail(s)[i] = s[i + 1]
         /\ Tail(s) # <<>> => Len(s) >= 2 /\ Head(Tail(s)) = s[2] /\ s[2] \in S
         /\ Len(s) >= 2 => Tail(s) # <<>>
         /\ \A i \in 1 .. Len(s) : s[i] \in S
<1>1. Len(s) \in Nat /\ Len(s) >= 1
  BY EmptySeq, LenProperties
<1>2. /\ Head(s) \in S /\ Tail(s) \in Seq(S) /\ Len(Tail(s)) = Len(s) - 1
      /\ \A i \in 1 .. Len(s) - 1 : Tail(s)[i] = s[i + 1]
  BY <1>1, HeadTailProperties
<1>3. Head(s) = s[1]
  OBVIOUS
<1>4. \A i \in 1 .. Len(s) : s[i] \in S
  BY ElementOfSeq
<1>5. ASSUME Tail(s) # <<>>
      PROVE  Len(s) >= 2 /\ Head(Tail(s)) = s[2] /\ s[2] \in S
  <2>1. Len(Tail(s)) \in Nat \ {0}
    BY <1>2, <1>5, EmptySeq
  <2>2. Head(Tail(s)) = Tail(s)[1]
    BY <1>2, <1>5
  <2> QED BY <1>1, <1>2, <1>4, <2>1, <2>2
<1>6. ASSUME Len(s) >= 2
      PROVE  Tail(s) # <<>>
  <2>1. Len(Tail(s)) # 0
    BY <1>1, <1>2, <1>6
  <2> QED BY <2>1, EmptyLen
<1> QED BY <1>1, <1>2, <1>3, <1>4, <1>5, <1>6

\* A new frame on an empty stack or on user code keeps the shape.
LEMMA ShapePush ==
  ASSUME NEW s \in Seq(Frame), NEW f \in Frame, Shape(s), f.op # "emit",
         s # <<>> => InUserCode(Head(s))
  PROVE  Shape(<<f>> \o s)
<1> DEFINE c == <<f>> \o s
<1>1. /\ Len(c) = Len(s) + 1 /\ c[1] = f /\ Len(s) \in Nat
      /\ \A i \in 2 .. Len(c) : c[i] = s[i - 1]
      /\ s # <<>> => Head(s) = s[1]
  BY ConsFacts, TailFacts
<1>2. ASSUME NEW i \in 1 .. Len(c) - 1
      PROVE  WaitsFor(c[i + 1], c[i])
  <2>1. CASE i = 1
    <3>1. s # <<>> /\ c[2] = s[1]
      BY <1>1, <2>1
    <3> QED BY <1>1, <2>1, <3>1 DEF WaitsFor
  <2>2. CASE i # 1
    <3>1. c[i + 1] = s[i] /\ c[i] = s[i - 1] /\ i - 1 \in 1 .. Len(s) - 1
      BY <1>1, <2>2
    <3>2. WaitsFor(s[(i - 1) + 1], s[i - 1])
      BY <3>1 DEF Shape
    <3> QED BY <3>1, <3>2
  <2> QED BY <2>1, <2>2
<1>3. c[Len(c)].op # "emit"
  BY <1>1 DEF Shape
<1> QED BY <1>2, <1>3 DEF Shape

\* A stack without its innermost frame keeps the shape, and what is left is
\* empty or waits for that frame.
LEMMA ShapeTail ==
  ASSUME NEW s \in Seq(Frame), Shape(s), s # <<>>
  PROVE  /\ Shape(Tail(s))
         /\ Tail(s) # <<>> => WaitsFor(Head(Tail(s)), Head(s))
         /\ Head(s).op = "emit" => Tail(s) # <<>>
<1> DEFINE r == Tail(s)
<1>1. /\ Len(r) = Len(s) - 1 /\ Len(s) \in Nat /\ Head(s) = s[1]
      /\ \A i \in 1 .. Len(s) - 1 : r[i] = s[i + 1]
      /\ r # <<>> => Len(s) >= 2 /\ Head(r) = s[2]
      /\ Len(s) >= 2 => r # <<>>
      /\ Len(s) >= 1
  BY TailFacts
<1>2. ASSUME NEW i \in 1 .. Len(r) - 1
      PROVE  WaitsFor(r[i + 1], r[i])
  <2>1. r[i + 1] = s[(i + 1) + 1] /\ r[i] = s[i + 1] /\ i + 1 \in 1 .. Len(s) - 1
    BY <1>1
  <2> QED BY <2>1 DEF Shape
<1>3. r # <<>> => r[Len(r)].op # "emit"
  BY <1>1 DEF Shape
<1>4. r # <<>> => WaitsFor(Head(r), Head(s))
  BY <1>1 DEF Shape
<1>5. Head(s).op = "emit" => r # <<>>
  BY <1>1 DEF Shape
<1> QED BY <1>2, <1>3, <1>4, <1>5 DEF Shape

\* A frame of the same kind of function in place of the innermost one keeps
\* the shape.
LEMMA ShapeReplace ==
  ASSUME NEW s \in Seq(Frame), NEW f \in Frame, Shape(s), s # <<>>,
         f.op = "emit" <=> Head(s).op = "emit"
  PROVE  Shape(<<f>> \o Tail(s))
<1> DEFINE r == Tail(s)  c == <<f>> \o r
<1>1. /\ r \in Seq(Frame) /\ Shape(r)
      /\ r # <<>> => WaitsFor(Head(r), Head(s)) /\ Head(r) = r[1]
      /\ Head(s).op = "emit" => r # <<>>
  BY ShapeTail, TailFacts
<1>2. /\ Len(c) = Len(r) + 1 /\ c[1] = f /\ Len(r) \in Nat
      /\ \A i \in 2 .. Len(c) : c[i] = r[i - 1]
  BY <1>1, ConsFacts
<1>3. ASSUME NEW i \in 1 .. Len(c) - 1
      PROVE  WaitsFor(c[i + 1], c[i])
  <2>1. CASE i = 1
    <3>1. r # <<>>
      <4>1. Len(r) # 0
        BY <1>2, <2>1
      <4> QED BY <4>1, EmptyLen
    <3>2. c[2] = r[1]
      BY <1>2, <2>1
    <3> QED BY <1>1, <1>2, <2>1, <3>1, <3>2 DEF WaitsFor
  <2>2. CASE i # 1
    <3>1. c[i + 1] = r[i] /\ c[i] = r[i - 1] /\ i - 1 \in 1 .. Len(r) - 1
      BY <1>2, <2>2
    <3>2. WaitsFor(r[(i - 1) + 1], r[i - 1])
      BY <1>1, <3>1 DEF Shape
    <3> QED BY <3>1, <3>2
  <2> QED BY <2>1, <2>2
<1>4. c[Len(c)].op # "emit"
  <2>1. CASE r = <<>>
    <3>1. Len(c) = 1
      BY <1>2, <2>1, EmptySeq
    <3> QED BY <1>1, <1>2, <2>1, <3>1
  <2>2. CASE r # <<>>
    <3>1. Len(r) \in Nat \ {0} /\ r[Len(r)].op # "emit"
      BY <1>1, <2>2, EmptySeq DEF Shape
    <3>2. c[Len(c)] = r[Len(r)]
      BY <1>2, <3>1
    <3> QED BY <3>1, <3>2
  <2> QED BY <2>1, <2>2
<1> QED BY <1>3, <1>4 DEF Shape

-------------------------------------------------------------------------------
(* Frames, and what the actions do to a stack.                             *)

\* The function in progress determines the fields of its frame.
LEMMA FrameCases ==
  ASSUME NEW f \in Frame
  PROVE  /\ f.op = "register" => f \in RegisterFrame
         /\ f.op = "list" => f \in ListFrame
         /\ f.op = "call" => f \in CallFrame
         /\ f.op = "emit" => f \in EmitFrame
BY DEF Frame, RegisterFrame, ListFrame, CallFrame, EmitFrame

\* Every event is emitted by a frame of its own.
LEMMA EmitType ==
  ASSUME NEW e \in Events
  PROVE  Emit(e) \in Frame /\ Emit(e).op = "emit" /\ Emit(e).pc = "acquire"
BY DEF Emit, Frame, EmitFrame

\* Calling EmitSseEvent from the innermost frame.
LEMMA ShapeCallEmit ==
  ASSUME NEW s \in Seq(Frame), NEW g \in Frame, NEW e \in Events,
         Shape(s), s # <<>>, Head(s).op # "emit", g.op # "emit", Emitter(g)
  PROVE  /\ <<Emit(e), g>> \o Tail(s) \in Seq(Frame)
         /\ <<Emit(e), g>> \o Tail(s) # <<>>
         /\ Shape(<<Emit(e), g>> \o Tail(s))
         /\ Head(<<Emit(e), g>> \o Tail(s)) = Emit(e)
         /\ <<Emit(e), g>> \o Tail(s) = <<Emit(e)>> \o (<<g>> \o Tail(s))
<1> DEFINE b == <<g>> \o Tail(s)  c == <<Emit(e)>> \o b
<1>1. /\ Tail(s) \in Seq(Frame) /\ b \in Seq(Frame) /\ b # <<>>
      /\ Head(b) = g /\ Shape(b)
  BY TailFacts, ConsFacts, ShapeReplace
<1>2. /\ c \in Seq(Frame) /\ c # <<>> /\ Head(c) = Emit(e)
      /\ Len(c) = Len(b) + 1 /\ c[1] = Emit(e)
      /\ \A i \in 2 .. Len(c) : c[i] = b[i - 1]
  BY <1>1, EmitType, ConsFacts
<1>3. Len(b) \in Nat \ {0} /\ b[1] = g
  BY <1>1, EmptySeq, TailFacts
<1> HIDE DEF b, c
<1>4. ASSUME NEW i \in 1 .. Len(c) - 1
      PROVE  WaitsFor(c[i + 1], c[i])
  <2>1. CASE i = 1
    <3>1. c[i + 1] = g /\ c[i] = Emit(e)
      BY <1>2, <1>3, <2>1
    <3>2. WaitsFor(g, Emit(e))
      BY EmitType DEF WaitsFor
    <3> QED BY <3>1, <3>2
  <2>2. CASE i # 1
    <3>1. c[i + 1] = b[i] /\ c[i] = b[i - 1] /\ i - 1 \in 1 .. Len(b) - 1
      BY <1>2, <1>3, <2>2
    <3>2. WaitsFor(b[(i - 1) + 1], b[i - 1])
      BY <1>1, <3>1 DEF Shape
    <3> QED BY <3>1, <3>2
  <2> QED BY <2>1, <2>2
<1>5. c[Len(c)].op # "emit"
  BY <1>1, <1>2, <1>3 DEF Shape
<1>6. Shape(c)
  BY <1>4, <1>5 DEF Shape
<1>7. <<Emit(e), g>> \o Tail(s) = c
  <2>1. <<Emit(e), g>> = <<Emit(e)>> \o <<g>>
    OBVIOUS
  <2>2. <<Emit(e)>> \in Seq(Frame) /\ <<g>> \in Seq(Frame)
    BY EmitType
  <2> QED BY <1>1, <2>1, <2>2, ConcatAssociative DEF b, c
<1> QED BY <1>2, <1>6, <1>7 DEF b, c

\* What a stack whose innermost frame is EmitSseEvent looks like below it.
LEMMA EmitterBelow ==
  ASSUME NEW s \in Seq(Frame), Shape(s), s # <<>>, Head(s).op = "emit"
  PROVE  /\ Len(s) >= 2 /\ s[2] \in Frame /\ s[2].op # "emit" /\ Emitter(s[2])
         /\ Tail(s) \in Seq(Frame) /\ Tail(s) # <<>> /\ Head(Tail(s)) = s[2]
         /\ Shape(Tail(s))
         /\ Tail(Tail(s)) \in Seq(Frame) /\ Shape(Tail(Tail(s)))
         /\ Tail(Tail(s)) # <<>> => InUserCode(Head(Tail(Tail(s))))
<1>1. /\ Tail(s) # <<>> /\ Shape(Tail(s)) /\ Tail(s) \in Seq(Frame)
      /\ WaitsFor(Head(Tail(s)), Head(s))
      /\ Len(s) >= 2 /\ Head(Tail(s)) = s[2] /\ s[2] \in Frame
  BY ShapeTail, TailFacts
<1>2. Emitter(s[2]) /\ s[2].op # "emit"
  BY <1>1 DEF WaitsFor, Emitter
<1>3. /\ Tail(Tail(s)) \in Seq(Frame) /\ Shape(Tail(Tail(s)))
      /\ Tail(Tail(s)) # <<>> => WaitsFor(Head(Tail(Tail(s))), s[2])
  BY <1>1, ShapeTail, TailFacts
<1> QED BY <1>1, <1>2, <1>3 DEF WaitsFor

\* When EmitSseEvent returns, user code goes on.
LEMMA AfterEmitFacts ==
  ASSUME NEW s \in Seq(Frame), Shape(s), s # <<>>, Head(s).op = "emit"
  PROVE  LET n == AfterEmit(s[2], Tail(Tail(s))) IN
           /\ n \in Seq(Frame) /\ Shape(n)
           /\ n # <<>> => InUserCode(Head(n))
<1> DEFINE g == s[2]  r == Tail(s)  d == Tail(r)
<1>1. /\ g \in Frame /\ g.op # "emit" /\ Emitter(g) /\ Head(r) = g
      /\ r \in Seq(Frame) /\ r # <<>> /\ Shape(r)
      /\ d \in Seq(Frame) /\ Shape(d) /\ (d # <<>> => InUserCode(Head(d)))
  BY EmitterBelow
<1>2. CASE g.op = "call" /\ g.pc = "starting"
  <2> DEFINE h == [g EXCEPT !.pc = "running"]
  <2>1. h \in Frame /\ h.op = "call" /\ InUserCode(h)
    BY <1>1, <1>2, FrameCases DEF Frame, CallFrame, InUserCode
  <2>2. <<h>> \o d \in Seq(Frame) /\ Head(<<h>> \o d) = h
    BY <1>1, <2>1, ConsFacts
  <2>3. Shape(<<h>> \o d)
    BY <1>1, <2>1, ShapeReplace
  <2> QED BY <1>2, <2>1, <2>2, <2>3 DEF AfterEmit
<1>3. CASE ~(g.op = "call" /\ g.pc = "starting")
  BY <1>1, <1>3 DEF AfterEmit
<1> QED BY <1>2, <1>3

\* When it throws, either user code goes on or tool_call_error is emitted.
LEMMA AfterEmitThrewFacts ==
  ASSUME NEW s \in Seq(Frame), Shape(s), s # <<>>, Head(s).op = "emit"
  PROVE  LET n == AfterEmitThrew(s[2], Tail(Tail(s))) IN
           /\ n \in Seq(Frame) /\ Shape(n)
           /\ n # <<>> => \/ InUserCode(Head(n))
                          \/ Head(n).op = "emit" /\ Head(n).pc = "acquire"
<1> DEFINE g == s[2]  r == Tail(s)  d == Tail(r)
<1>1. /\ g \in Frame /\ g.op # "emit" /\ Emitter(g) /\ Head(r) = g
      /\ r \in Seq(Frame) /\ r # <<>> /\ Shape(r)
      /\ d \in Seq(Frame) /\ Shape(d) /\ (d # <<>> => InUserCode(Head(d)))
  BY EmitterBelow
<1>2. CASE g.op = "call" /\ g.pc = "ending"
  <2> DEFINE h == [g EXCEPT !.pc = "erring"]
  <2>1. h \in Frame /\ h.op = "call" /\ Emitter(h)
    BY <1>1, <1>2, FrameCases DEF Frame, CallFrame, Emitter
  <2>2. "tool_call_error" \in Events
    BY DEF Events
  <2> QED BY <1>1, <1>2, <2>1, <2>2, ShapeCallEmit, EmitType DEF AfterEmitThrew
<1>3. CASE ~(g.op = "call" /\ g.pc = "ending")
  BY <1>1, <1>3 DEF AfterEmitThrew
<1> QED BY <1>2, <1>3

-------------------------------------------------------------------------------
(* How the parts of the invariant survive a step that changes one stack.   *)

\* Every frame of s that has been published describes a visible name.
AllVisible(s) == \A i \in 1 .. Len(s) : Visible(s[i])

\* A stack that gets a well-formed new value keeps types and shapes.
LEMMA NewStack ==
  ASSUME TypeOK, ShapeInv, NEW t \in Tasks, NEW n \in Seq(Frame), Shape(n),
         stack' = [stack EXCEPT ![t] = n]
  PROVE  /\ stack' \in [Tasks -> Seq(Frame)]
         /\ ShapeInv'
         /\ stack'[t] = n
         /\ \A u \in Tasks \ {t} : stack'[u] = stack[u]
<1>1. /\ stack' \in [Tasks -> Seq(Frame)] /\ stack'[t] = n
      /\ \A u \in Tasks \ {t} : stack'[u] = stack[u]
  BY DEF TypeOK
<1>2. ASSUME NEW u \in Tasks
      PROVE  Shape(stack'[u])
  BY <1>1 DEF ShapeInv
<1> QED BY <1>1, <1>2 DEF ShapeInv, Shape

\* Locks and critical sections that do not change.
LEMMA LocksKept ==
  ASSUME LockInv, NEW t \in Tasks, UNCHANGED locks,
         \A u \in Tasks \ {t} : stack'[u] = stack[u],
         InC(stack'[t]) <=> InC(stack[t]),
         \A k \in Kinds : /\ InW(stack'[t], k) <=> InW(stack[t], k)
                          /\ InR(stack'[t], k) <=> InR(stack[t], k)
  PROVE  LockInv'
<1>1. ASSUME NEW u \in Tasks, NEW k \in Kinds
      PROVE  /\ InW(stack'[u], k) <=> InW(stack[u], k)
             /\ InR(stack'[u], k) <=> InR(stack[u], k)
             /\ InC(stack'[u]) <=> InC(stack[u])
  BY DEF InW
<1> QED BY <1>1 DEF LockInv, locks, InW, InR, InC

\* Maps and writers that do not change, and no stack that starts writing.
LEMMA MapsKept ==
  ASSUME MapsInv, NEW t \in Tasks, UNCHANGED <<meta, impl, writer>>,
         \A u \in Tasks \ {t} : stack'[u] = stack[u],
         stack'[t] # <<>> =>
           ~(Head(stack'[t]).op = "register"
               /\ Head(stack'[t]).pc \in {"meta", "impl"})
  PROVE  MapsInv'
BY DEF MapsInv, MapsAgree, HalfDone, Top

\* Maps that do not change and a stack with no new invisible name.
LEMMA VisibleKept ==
  ASSUME EventsDescribeVisibleNames, NEW t \in Tasks, UNCHANGED <<meta, impl>>,
         \A u \in Tasks \ {t} : stack'[u] = stack[u],
         AllVisible(stack'[t])
  PROVE  EventsDescribeVisibleNames'
BY DEF EventsDescribeVisibleNames, AllVisible, Visible

\* A visible frame on visible frames.
LEMMA VisibleCons ==
  ASSUME NEW s \in Seq(Frame), NEW f \in Frame, AllVisible(s), Visible(f)
  PROVE  AllVisible(<<f>> \o s)
<1> DEFINE c == <<f>> \o s
<1>1. /\ Len(c) = Len(s) + 1 /\ c[1] = f /\ Len(s) \in Nat
      /\ \A i \in 2 .. Len(c) : c[i] = s[i - 1]
  BY ConsFacts
<1> HIDE DEF c
<1>2. ASSUME NEW i \in 1 .. Len(c)
      PROVE  Visible(c[i])
  <2>1. CASE i = 1
    <3>1. c[i] = f
      BY <1>1, <2>1
    <3> QED BY <3>1
  <2>2. CASE i # 1
    <3>1. c[i] = s[i - 1] /\ i - 1 \in 1 .. Len(s)
      BY <1>1, <2>2
    <3>2. Visible(s[i - 1])
      BY <3>1 DEF AllVisible
    <3> QED BY <3>1, <3>2
  <2> QED BY <2>1, <2>2
<1>3. AllVisible(c)
  BY <1>2 DEF AllVisible
<1> QED BY <1>3 DEF c

\* The frames below a frame, and the frame itself.
LEMMA VisibleTail ==
  ASSUME NEW s \in Seq(Frame), s # <<>>, AllVisible(s)
  PROVE  AllVisible(Tail(s)) /\ Visible(Head(s))
<1> DEFINE r == Tail(s)
<1>1. /\ Len(r) = Len(s) - 1 /\ Len(s) \in Nat /\ Head(s) = s[1]
      /\ \A i \in 1 .. Len(s) - 1 : r[i] = s[i + 1]
      /\ Len(s) >= 1
  BY TailFacts
<1>2. Visible(s[1])
  BY <1>1 DEF AllVisible
<1> HIDE DEF r
<1>3. ASSUME NEW i \in 1 .. Len(r)
      PROVE  Visible(r[i])
  <2>1. r[i] = s[i + 1] /\ i + 1 \in 1 .. Len(s)
    BY <1>1
  <2>2. Visible(s[i + 1])
    BY <2>1 DEF AllVisible
  <2> QED BY <2>1, <2>2
<1>4. AllVisible(r)
  BY <1>3 DEF AllVisible
<1> QED BY <1>1, <1>2, <1>4 DEF r

\* Outside every critical section.
Uncritical(s) == ~InC(s) /\ \A k \in Kinds : ~InW(s, k) /\ ~InR(s, k)

\* A reader that leaves its critical section.
LEMMA ReaderLeaves ==
  ASSUME TypeOK, LockInv, NEW t \in Tasks, NEW k0 \in Kinds,
         stack[t] # <<>>, Reading(Top(t), k0),
         readers' = [readers EXCEPT ![k0] = @ \ {t}],
         UNCHANGED <<writer, sseOwner>>,
         Uncritical(stack'[t]),
         \A u \in Tasks \ {t} : stack'[u] = stack[u]
  PROVE  LockInv'
<1>1. \A k \in Kinds : readers'[k] = IF k = k0 THEN readers[k] \ {t} ELSE readers[k]
  BY DEF TypeOK
<1>2. /\ ~InC(stack[t])
      /\ \A k \in Kinds : ~InW(stack[t], k)
      /\ \A k \in Kinds : k # k0 => ~InR(stack[t], k)
  BY DEF InC, InW, InR, Copying, Writing, Reading, Top
<1>3. ASSUME NEW u \in Tasks, NEW k \in Kinds
      PROVE  /\ writer'[k] = u <=> InW(stack'[u], k)
             /\ u \in readers'[k] <=> InR(stack'[u], k)
  <2>1. CASE u = t
    <3>1. writer'[k] # t /\ ~InW(stack'[t], k) /\ ~InR(stack'[t], k)
      BY <1>2 DEF LockInv, Uncritical
    <3>2. t \notin readers'[k]
      <4>1. CASE k = k0
        BY <1>1, <4>1
      <4>2. CASE k # k0
        BY <1>1, <1>2, <4>2 DEF LockInv
      <4> QED BY <4>1, <4>2
    <3> QED BY <2>1, <3>1, <3>2
  <2>2. CASE u # t
    BY <1>1, <2>2 DEF LockInv
  <2> QED BY <2>1, <2>2
<1>4. ASSUME NEW u \in Tasks
      PROVE  sseOwner' = u <=> InC(stack'[u])
  BY <1>2 DEF LockInv, Uncritical
<1>5. ASSUME NEW k \in Kinds, writer'[k] # None
      PROVE  readers'[k] = {}
  BY <1>1, <1>5 DEF LockInv
<1> QED BY <1>3, <1>4, <1>5 DEF LockInv, InW, InR, InC

-------------------------------------------------------------------------------
(* Every action keeps the invariant.                                       *)

\* A frame in progress: its stack, its type and its visibility.
LEMMA TopFacts ==
  ASSUME IInv, NEW t \in Tasks, stack[t] # <<>>
  PROVE  /\ stack[t] \in Seq(Frame) /\ Shape(stack[t])
         /\ Top(t) \in Frame /\ Top(t) = Head(stack[t])
         /\ Tail(stack[t]) \in Seq(Frame) /\ Shape(Tail(stack[t]))
         /\ AllVisible(stack[t]) /\ AllVisible(Tail(stack[t]))
         /\ Visible(Top(t))
<1>1. stack[t] \in Seq(Frame) /\ Shape(stack[t]) /\ AllVisible(stack[t])
  BY DEF IInv, TypeOK, ShapeInv, EventsDescribeVisibleNames, AllVisible
<1> QED BY <1>1, TailFacts, ShapeTail, VisibleTail DEF Top

\* The innermost frame moves on.
LEMMA ReplaceStep ==
  ASSUME IInv, NEW t \in Tasks, stack[t] # <<>>, NEW g \in Frame,
         g.op = "emit" <=> Top(t).op = "emit", Visible(g), Replace(t, g)
  PROVE  /\ stack' \in [Tasks -> Seq(Frame)] /\ ShapeInv'
         /\ stack'[t] # <<>> /\ Head(stack'[t]) = g
         /\ \A u \in Tasks \ {t} : stack'[u] = stack[u]
         /\ AllVisible(stack'[t])
<1> DEFINE n == <<g>> \o Tail(stack[t])
<1>1. /\ stack[t] \in Seq(Frame) /\ Shape(stack[t]) /\ Top(t) = Head(stack[t])
      /\ Tail(stack[t]) \in Seq(Frame) /\ AllVisible(Tail(stack[t]))
  BY TopFacts
<1>2. n \in Seq(Frame) /\ n # <<>> /\ Head(n) = g
  BY <1>1, ConsFacts
<1>3. Shape(n)
  BY <1>1, ShapeReplace
<1>4. AllVisible(n)
  BY <1>1, VisibleCons
<1>5. stack' = [stack EXCEPT ![t] = n]
  BY DEF Replace
<1> HIDE DEF n
<1> QED BY <1>2, <1>3, <1>4, <1>5, NewStack DEF IInv

\* The innermost function, which is not EmitSseEvent, returns.
LEMMA PopStep ==
  ASSUME IInv, NEW t \in Tasks, stack[t] # <<>>, Top(t).op # "emit", Pop(t)
  PROVE  /\ stack' \in [Tasks -> Seq(Frame)] /\ ShapeInv'
         /\ stack'[t] # <<>> => InUserCode(Head(stack'[t]))
         /\ \A u \in Tasks \ {t} : stack'[u] = stack[u]
         /\ AllVisible(stack'[t])
<1> DEFINE n == Tail(stack[t])
<1>1. /\ stack[t] \in Seq(Frame) /\ Shape(stack[t]) /\ Top(t) = Head(stack[t])
      /\ n \in Seq(Frame) /\ AllVisible(n) /\ Shape(n)
  BY TopFacts
<1>2. n # <<>> => InUserCode(Head(n))
  BY <1>1, ShapeTail DEF WaitsFor
<1>3. stack' = [stack EXCEPT ![t] = n]
  BY DEF Pop
<1> HIDE DEF n
<1> QED BY <1>1, <1>2, <1>3, NewStack DEF IInv

\* The innermost function calls EmitSseEvent: above what was there before
\* there are two new frames.
LEMMA CallEmitStep ==
  ASSUME IInv, NEW t \in Tasks, stack[t] # <<>>, Top(t).op # "emit",
         NEW g \in Frame, g.op # "emit", Emitter(g),
         NEW e \in Events, CallEmit(t, g, e)
  PROVE  /\ stack' \in [Tasks -> Seq(Frame)] /\ ShapeInv'
         /\ stack'[t] # <<>> /\ Head(stack'[t]) = Emit(e)
         /\ \A u \in Tasks \ {t} : stack'[u] = stack[u]
         /\ stack'[t] = <<Emit(e)>> \o (<<g>> \o Tail(stack[t]))
         /\ Visible(g) => AllVisible(stack'[t])
<1> DEFINE r == Tail(stack[t])  n == <<Emit(e), g>> \o r
<1>1. /\ stack[t] \in Seq(Frame) /\ Shape(stack[t]) /\ Top(t) = Head(stack[t])
      /\ r \in Seq(Frame) /\ AllVisible(r)
  BY TopFacts
<1>2. /\ n \in Seq(Frame) /\ n # <<>> /\ Shape(n) /\ Head(n) = Emit(e)
      /\ n = <<Emit(e)>> \o (<<g>> \o r)
  BY <1>1, ShapeCallEmit
<1>3. ASSUME Visible(g)
      PROVE  AllVisible(n)
  <2>1. <<g>> \o r \in Seq(Frame) /\ AllVisible(<<g>> \o r)
    BY <1>1, <1>3, ConsFacts, VisibleCons
  <2>2. Emit(e) \in Frame /\ Visible(Emit(e))
    BY EmitType DEF Visible, Published
  <2> QED BY <1>2, <2>1, <2>2, VisibleCons
<1>4. stack' = [stack EXCEPT ![t] = n]
  BY DEF CallEmit
<1> HIDE DEF n
<1>5. /\ stack' \in [Tasks -> Seq(Frame)] /\ ShapeInv' /\ stack'[t] = n
      /\ \A u \in Tasks \ {t} : stack'[u] = stack[u]
  BY <1>2, <1>4, NewStack DEF IInv
<1> QED BY <1>2, <1>3, <1>5

\* EmitSseEvent returns or throws: its caller's frame is gone or moves on.
LEMMA EmitDoneStep ==
  ASSUME IInv, NEW t \in Tasks, stack[t] # <<>>, Top(t).op = "emit", NEW n,
         \/ n = AfterEmit(stack[t][2], Tail(Tail(stack[t])))
         \/ n = AfterEmitThrew(stack[t][2], Tail(Tail(stack[t]))),
         stack' = [stack EXCEPT ![t] = n]
  PROVE  /\ stack' \in [Tasks -> Seq(Frame)] /\ ShapeInv'
         /\ stack'[t] # <<>> =>
              \/ InUserCode(Head(stack'[t]))
              \/ Head(stack'[t]).op = "emit" /\ Head(stack'[t]).pc = "acquire"
         /\ \A u \in Tasks \ {t} : stack'[u] = stack[u]
         /\ AllVisible(stack'[t])
<1> DEFINE s == stack[t]  g == s[2]  r == Tail(s)  d == Tail(r)
<1>1. /\ s \in Seq(Frame) /\ Shape(s) /\ AllVisible(r) /\ Head(s).op = "emit"
  BY TopFacts
<1>2. /\ g \in Frame /\ g.op # "emit" /\ Emitter(g)
      /\ r \in Seq(Frame) /\ r # <<>> /\ Head(r) = g /\ Shape(r)
      /\ d \in Seq(Frame)
  BY <1>1, EmitterBelow
<1>3. AllVisible(d) /\ Visible(g)
  BY <1>1, <1>2, VisibleTail
<1>4. /\ n \in Seq(Frame) /\ Shape(n)
      /\ n # <<>> => \/ InUserCode(Head(n))
                     \/ Head(n).op = "emit" /\ Head(n).pc = "acquire"
  BY <1>1, AfterEmitFacts, AfterEmitThrewFacts
<1>5. AllVisible(n)
  <2>1. CASE n = AfterEmit(g, d) /\ g.op = "call" /\ g.pc = "starting"
    <3> DEFINE h == [g EXCEPT !.pc = "running"]
    <3>1. /\ h \in Frame /\ h.op = "call" /\ h.kind = g.kind /\ h.name = g.name
      BY <1>2, <2>1, FrameCases DEF Frame, CallFrame
    <3>2. Visible(h)
      BY <1>3, <2>1, <3>1 DEF Visible, Published
    <3>3. n = <<h>> \o d
      BY <2>1 DEF AfterEmit
    <3> QED BY <1>2, <1>3, <3>1, <3>2, <3>3, VisibleCons
  <2>2. CASE n = AfterEmitThrew(g, d) /\ g.op = "call" /\ g.pc = "ending"
    <3> DEFINE h == [g EXCEPT !.pc = "erring"]  e == "tool_call_error"
    <3>1. /\ h \in Frame /\ h.op = "call" /\ h.kind = g.kind /\ h.name = g.name
          /\ Emitter(h)
      BY <1>2, <2>2, FrameCases DEF Frame, CallFrame, Emitter
    <3>2. Visible(h)
      BY <1>3, <2>2, <3>1 DEF Visible, Published
    <3>3. e \in Events
      BY DEF Events
    <3>4. n = <<Emit(e), h>> \o d
      BY <2>2 DEF AfterEmitThrew
    <3>5. n = <<Emit(e)>> \o (<<h>> \o d)
      BY <1>2, <3>1, <3>3, <3>4, ShapeCallEmit
    <3>6. <<h>> \o d \in Seq(Frame) /\ AllVisible(<<h>> \o d)
      BY <1>2, <1>3, <3>1, <3>2, ConsFacts, VisibleCons
    <3>7. Emit(e) \in Frame /\ Visible(Emit(e))
      BY <3>3, EmitType DEF Visible, Published
    <3> QED BY <3>5, <3>6, <3>7, VisibleCons
  <2>3. CASE n = d
    BY <1>3, <2>3
  <2> QED BY <2>1, <2>2, <2>3 DEF AfterEmit, AfterEmitThrew
<1> QED BY <1>4, <1>5, NewStack DEF IInv

\* An operation begins.
LEMMA BeginKeeps ==
  ASSUME IInv, NEW t \in Tasks, NEW f \in Frame,
         f.op # "emit", f.pc = "acquire", Begin(t, f)
  PROVE  IInv'
<1> DEFINE s == stack[t]  n == <<f>> \o s
<1>1. s \in Seq(Frame) /\ Shape(s) /\ AllVisible(s)
  BY DEF IInv, TypeOK, ShapeInv, EventsDescribeVisibleNames, AllVisible
<1>2. s # <<>> => InUserCode(Head(s))
  BY DEF Begin, Outside, Top
<1>3. n \in Seq(Frame) /\ n # <<>> /\ Head(n) = f
  BY <1>1, ConsFacts
<1>4. Shape(n)
  BY <1>1, <1>2, ShapePush
<1>5. AllVisible(n)
  BY <1>1, VisibleCons DEF Visible, Published
<1>6. /\ stack' \in [Tasks -> Seq(Frame)] /\ ShapeInv' /\ stack'[t] = n
      /\ \A u \in Tasks \ {t} : stack'[u] = stack[u]
  <2>1. stack' = [stack EXCEPT ![t] = n]
    BY DEF Begin
  <2> HIDE DEF n
  <2> QED BY <1>3, <1>4, <2>1, NewStack DEF IInv
<1> HIDE DEF n
<1>7. TypeOK'
  BY <1>6 DEF IInv, TypeOK, Begin, locks
<1>8. LockInv'
  <2>1. ~InC(n) /\ \A k \in Kinds : ~InW(n, k) /\ ~InR(n, k)
    BY <1>3 DEF InC, InW, InR, Writing, Reading, Copying
  <2>2. ~InC(s) /\ \A k \in Kinds : ~InW(s, k) /\ ~InR(s, k)
    BY <1>2 DEF InC, InW, InR, Writing, Reading, Copying, InUserCode
  <2> QED BY <1>6, <2>1, <2>2, LocksKept DEF IInv, Begin
<1>9. MapsInv'
  BY <1>3, <1>6, MapsKept DEF IInv, Begin, locks
<1>10. EventsDescribeVisibleNames'
  BY <1>5, <1>6, VisibleKept DEF IInv, Begin
<1> QED BY <1>6, <1>7, <1>8, <1>9, <1>10 DEF IInv

\* The three ways an operation begins.
LEMMA BeginActionsKeep ==
  ASSUME IInv, NEW t \in Tasks, BeginRegister(t) \/ BeginList(t) \/ BeginCall(t)
  PROVE  IInv'
<1>1. CASE BeginRegister(t)
  <2>1. PICK k \in Kinds, n \in Names, r \in Regs :
          Begin(t, [op |-> "register", kind |-> k, name |-> n, reg |-> r,
                    pc |-> "acquire"])
    BY <1>1 DEF BeginRegister
  <2> DEFINE f == [op |-> "register", kind |-> k, name |-> n, reg |-> r,
                   pc |-> "acquire"]
  <2>2. f \in Frame /\ f.op # "emit" /\ f.pc = "acquire"
    BY DEF Frame, RegisterFrame
  <2> QED BY <2>1, <2>2, BeginKeeps
<1>2. CASE BeginList(t)
  <2>1. PICK k \in Kinds :
          Begin(t, [op |-> "list", kind |-> k, pc |-> "acquire"])
    BY <1>2 DEF BeginList
  <2> DEFINE f == [op |-> "list", kind |-> k, pc |-> "acquire"]
  <2>2. f \in Frame /\ f.op # "emit" /\ f.pc = "acquire"
    BY DEF Frame, ListFrame
  <2> QED BY <2>1, <2>2, BeginKeeps
<1>3. CASE BeginCall(t)
  <2>1. PICK k \in Kinds, n \in Names :
          Begin(t, [op |-> "call", kind |-> k, name |-> n, pc |-> "acquire"])
    BY <1>3 DEF BeginCall
  <2> DEFINE f == [op |-> "call", kind |-> k, name |-> n, pc |-> "acquire"]
  <2>2. f \in Frame /\ f.op # "emit" /\ f.pc = "acquire"
    BY DEF Frame, CallFrame
  <2> QED BY <2>1, <2>2, BeginKeeps
<1> QED BY <1>1, <1>2, <1>3

\* The SSE callback is replaced.
LEMMA SetSseCallbackKeeps ==
  ASSUME IInv, NEW t \in Tasks, SetSseCallback(t)
  PROVE  IInv'
<1> USE DEF SetSseCallback, IInv, locks
<1>1. TypeOK'
  BY DEF TypeOK
<1>2. ShapeInv'
  BY DEF ShapeInv, Shape
<1>3. LockInv'
  BY DEF LockInv, InW, InR, InC
<1>4. MapsInv'
  BY DEF MapsInv, MapsAgree, HalfDone, Top
<1>5. EventsDescribeVisibleNames'
  BY DEF EventsDescribeVisibleNames, Visible
<1> QED BY <1>1, <1>2, <1>3, <1>4, <1>5

\* A registration enters its critical section: the maps agree there.
LEMMA LockExclusiveKeeps ==
  ASSUME IInv, NEW t \in Tasks, LockExclusive(t)
  PROVE  IInv'
<1> DEFINE s == stack[t]  f == Top(t)  g == [f EXCEPT !.pc = "meta"]
           n == stack'[t]
<1>1. /\ s # <<>> /\ f.op = "register" /\ f.pc = "acquire" /\ f = Head(s)
      /\ writer[f.kind] = None /\ readers[f.kind] = {}
      /\ writer' = [writer EXCEPT ![f.kind] = t]
      /\ Replace(t, g)
      /\ UNCHANGED <<meta, impl, readers, sseOwner, callback, seen, ops>>
  BY DEF LockExclusive, At, Top
<1>2. f \in Frame
  BY <1>1, TopFacts
<1>3. /\ f \in RegisterFrame /\ f.kind \in Kinds
      /\ g \in Frame /\ g.op = "register" /\ g.pc = "meta" /\ g.kind = f.kind
  BY <1>1, <1>2, FrameCases DEF RegisterFrame, Frame
<1> HIDE DEF g
<1>4. Visible(g)
  BY <1>3 DEF Visible, Published
<1>5. /\ stack' \in [Tasks -> Seq(Frame)] /\ ShapeInv'
      /\ n # <<>> /\ Head(n) = g /\ AllVisible(n)
      /\ \A u \in Tasks \ {t} : stack'[u] = stack[u]
  BY <1>1, <1>3, <1>4, ReplaceStep
<1> HIDE DEF n
<1>6. TypeOK'
  BY <1>1, <1>5 DEF IInv, TypeOK
<1>7. LockInv'
  <2>1. /\ ~InC(n)
        /\ \A k \in Kinds : ~InR(n, k) /\ (InW(n, k) <=> k = f.kind)
    BY <1>3, <1>5 DEF InC, InW, InR, Writing, Reading, Copying
  <2>2. /\ ~InC(s)
        /\ \A k \in Kinds : ~InR(s, k) /\ ~InW(s, k)
    BY <1>1 DEF InC, InW, InR, Writing, Reading, Copying
  <2>3. \A u \in Tasks : ~InW(stack[u], f.kind)
    BY <1>1, <1>3, ConstantsAssumption DEF IInv, LockInv
  <2>4. \A k \in Kinds : writer'[k] = IF k = f.kind THEN t ELSE writer[k]
    BY <1>1, <1>3 DEF IInv, TypeOK
  <2>5. ASSUME NEW u \in Tasks, NEW k \in Kinds
        PROVE  /\ writer'[k] = u <=> InW(stack'[u], k)
               /\ u \in readers'[k] <=> InR(stack'[u], k)
    BY <1>1, <1>5, <2>1, <2>2, <2>3, <2>4 DEF IInv, LockInv, n
  <2>6. ASSUME NEW u \in Tasks
        PROVE  sseOwner' = u <=> InC(stack'[u])
    BY <1>1, <1>5, <2>1, <2>2 DEF IInv, LockInv, n
  <2>7. ASSUME NEW k \in Kinds, writer'[k] # None
        PROVE  readers'[k] = {}
    BY <1>1, <2>4, <2>7 DEF IInv, LockInv
  <2> QED BY <2>5, <2>6, <2>7 DEF LockInv, InW, InR, InC
<1>8. MapsInv'
  <2>1. meta[f.kind] = impl[f.kind]
    BY <1>1, <1>3 DEF IInv, MapsInv, MapsAgree
  <2>2. MapsAgree'
    BY <1>1, <1>3, ConstantsAssumption DEF IInv, MapsInv, MapsAgree, TypeOK
  <2>3. HalfDone(Top(t))'
    BY <1>1, <1>3, <1>5, <2>1 DEF HalfDone, Top, n
  <2>4. ASSUME NEW u \in Tasks \ {t}, stack'[u] # <<>>
        PROVE  HalfDone(Top(u))'
    BY <1>1, <1>5, <2>4 DEF IInv, MapsInv, HalfDone, Top
  <2> QED BY <2>2, <2>3, <2>4 DEF MapsInv
<1>9. EventsDescribeVisibleNames'
  BY <1>1, <1>5, VisibleKept DEF IInv, n
<1> QED BY <1>5, <1>6, <1>7, <1>8, <1>9 DEF IInv

\* A registration stores its description: only the writer can see it.
LEMMA WriteMetaKeeps ==
  ASSUME IInv, NEW t \in Tasks, WriteMeta(t)
  PROVE  IInv'
<1> DEFINE s == stack[t]  f == Top(t)  g == [f EXCEPT !.pc = "impl"]
<1>1. /\ s # <<>> /\ f.op = "register" /\ f.pc = "meta" /\ f = Head(s)
      /\ meta' = [meta EXCEPT ![f.kind] = [@ EXCEPT ![f.name] = f.reg]]
      /\ Replace(t, g)
      /\ UNCHANGED <<impl, locks, callback, seen, ops>>
  BY DEF WriteMeta, At, Top
<1>2. f \in Frame
  BY <1>1, TopFacts
<1>3. /\ f \in RegisterFrame
      /\ f.kind \in Kinds /\ f.name \in Names /\ f.reg \in Regs
      /\ g \in Frame /\ g.op = "register" /\ g.pc = "impl" /\ g.kind = f.kind
      /\ g.name = f.name /\ g.reg = f.reg
  BY <1>1, <1>2, FrameCases DEF RegisterFrame, Frame
<1> HIDE DEF g
<1>4. Visible(g)
  BY <1>3 DEF Visible, Published
<1>5. /\ stack' \in [Tasks -> Seq(Frame)] /\ ShapeInv'
      /\ stack'[t] # <<>> /\ Head(stack'[t]) = g /\ AllVisible(stack'[t])
      /\ \A u \in Tasks \ {t} : stack'[u] = stack[u]
  BY <1>1, <1>3, <1>4, ReplaceStep
<1>6. /\ meta \in [Kinds -> [Names -> Entry]]
      /\ \A k \in Kinds : k # f.kind => meta'[k] = meta[k]
      /\ meta'[f.kind] = [meta[f.kind] EXCEPT ![f.name] = f.reg]
      /\ f.reg # None
  BY <1>1, <1>3, ConstantsAssumption DEF IInv, TypeOK
<1>7. TypeOK'
  <2>1. [meta[f.kind] EXCEPT ![f.name] = f.reg] \in [Names -> Entry]
    BY <1>3, <1>6 DEF Entry
  <2>2. meta' \in [Kinds -> [Names -> Entry]]
    BY <1>1, <1>3, <1>6, <2>1
  <2> QED BY <1>1, <1>5, <2>2 DEF IInv, TypeOK, locks
<1>8. writer[f.kind] = t
  BY <1>1, <1>3 DEF IInv, LockInv, InW, Writing
<1>9. LockInv'
  <2>1. ~InC(stack'[t]) /\ ~InC(s)
    BY <1>1, <1>3, <1>5 DEF InC, Copying
  <2>2. ASSUME NEW k \in Kinds
        PROVE  ~InR(stack'[t], k) /\ ~InR(s, k)
    BY <1>1, <1>3, <1>5 DEF InR, Reading
  <2>3. ASSUME NEW k \in Kinds
        PROVE  InW(stack'[t], k) <=> InW(s, k)
    BY <1>1, <1>3, <1>5 DEF InW, Writing
  <2>4. LockInv /\ UNCHANGED locks
    BY <1>1 DEF IInv
  <2> QED BY <1>5, <2>1, <2>2, <2>3, <2>4, LocksKept
<1>10. MapsInv'
  <2>1. meta[f.kind] = impl[f.kind]
    BY <1>1 DEF IInv, MapsInv, HalfDone
  <2>2. MapsAgree'
    BY <1>1, <1>3, <1>6, <1>8, ConstantsAssumption
       DEF IInv, MapsInv, MapsAgree, locks
  <2>3. HalfDone(Top(t))'
    BY <1>1, <1>3, <1>5, <1>6, <2>1 DEF HalfDone, Top
  <2>4. ASSUME NEW u \in Tasks \ {t}, stack'[u] # <<>>
        PROVE  HalfDone(Top(u))'
    <3>1. stack'[u] = stack[u] /\ HalfDone(Top(u)) /\ Top(u) \in Frame
      BY <1>5, <2>4, TopFacts DEF IInv, MapsInv
    <3>2. ASSUME Top(u).op = "register", Top(u).pc \in {"meta", "impl"}
          PROVE  Top(u).kind \in Kinds /\ Top(u).kind # f.kind
      <4>1. Top(u).kind \in Kinds
        BY <3>1, <3>2, FrameCases DEF RegisterFrame
      <4>2. writer[Top(u).kind] = u
        BY <2>4, <3>1, <3>2, <4>1 DEF IInv, LockInv, InW, Writing, Top
      <4> QED BY <1>8, <4>1, <4>2
    <3> QED BY <1>1, <1>6, <3>1, <3>2 DEF HalfDone, Top
  <2> QED BY <2>2, <2>3, <2>4 DEF MapsInv
<1>11. EventsDescribeVisibleNames'
  <2>1. ASSUME NEW u \in Tasks
        PROVE  AllVisible(stack'[u])
    BY <1>5 DEF IInv, EventsDescribeVisibleNames, AllVisible
  <2>2. ASSUME NEW h \in Frame, Visible(h)
        PROVE  Visible(h)'
    <3>1. ASSUME Published(h)
          PROVE  h.kind \in Kinds /\ h.name \in Names
      BY <3>1, FrameCases DEF Published, RegisterFrame, CallFrame
    <3>2. ASSUME Published(h)
          PROVE  meta'[h.kind][h.name] # None
      BY <1>3, <1>6, <2>2, <3>1, <3>2 DEF Visible
    <3> QED BY <1>1, <2>2, <3>2 DEF Visible
  <2>3. ASSUME NEW u \in Tasks, NEW i \in 1 .. Len(stack'[u])
        PROVE  Visible(stack[u][i])'
    <3>1. stack'[u][i] \in Frame
      BY <1>5, ElementOfSeq
    <3>2. Visible(stack'[u][i])
      BY <2>1 DEF AllVisible
    <3> QED BY <2>2, <3>1, <3>2 DEF Visible
  <2> QED BY <2>3 DEF EventsDescribeVisibleNames
<1> QED BY <1>5, <1>7, <1>9, <1>10, <1>11 DEF IInv

\* A registration stores its code: both maps have the new entry, and the
\* critical section ends.
LEMMA WriteImplKeeps ==
  ASSUME IInv, NEW t \in Tasks, WriteImpl(t)
  PROVE  IInv'
<1> DEFINE s == stack[t]  f == Top(t)  g == [f EXCEPT !.pc = "notifying"]
           e == "tools_changed"
<1>1. /\ s # <<>> /\ f.op = "register" /\ f.pc = "impl" /\ f = Head(s)
      /\ impl' = [impl EXCEPT ![f.kind] = [@ EXCEPT ![f.name] = f.reg]]
      /\ writer' = [writer EXCEPT ![f.kind] = None]
      /\ CallEmit(t, g, e) \/ Pop(t)
      /\ UNCHANGED <<meta, readers, sseOwner, callback, seen, ops>>
  BY DEF WriteImpl, At, Top
<1>2. /\ f \in Frame /\ s \in Seq(Frame)
      /\ Tail(s) \in Seq(Frame) /\ AllVisible(Tail(s))
  BY <1>1, TopFacts
<1>3. /\ f \in RegisterFrame
      /\ f.kind \in Kinds /\ f.name \in Names /\ f.reg \in Regs
      /\ g \in Frame /\ g.op = "register" /\ g.pc = "notifying"
      /\ g.kind = f.kind /\ g.name = f.name
  BY <1>1, <1>2, FrameCases DEF RegisterFrame, Frame
<1>4. e \in Events /\ Emitter(g) /\ g.op # "emit"
  BY <1>3 DEF Events, Emitter
<1> HIDE DEF g, e
<1>5. /\ stack' \in [Tasks -> Seq(Frame)] /\ ShapeInv'
      /\ stack'[t] # <<>> =>
           \/ InUserCode(Head(stack'[t]))
           \/ Head(stack'[t]).op = "emit" /\ Head(stack'[t]).pc = "acquire"
      /\ \A u \in Tasks \ {t} : stack'[u] = stack[u]
      /\ \/ stack'[t] = Tail(s)
         \/ stack'[t] = <<Emit(e)>> \o (<<g>> \o Tail(s))
  <2>1. CASE CallEmit(t, g, e)
    BY <1>1, <1>3, <1>4, <2>1, CallEmitStep, EmitType
  <2>2. CASE Pop(t)
    <3>1. stack'[t] = Tail(s)
      BY <2>2 DEF Pop, IInv, TypeOK
    <3> QED BY <1>1, <2>2, <3>1, PopStep
  <2> QED BY <1>1, <2>1, <2>2
<1>6. /\ impl \in [Kinds -> [Names -> Entry]] /\ writer \in [Kinds -> Tasks \union {None}]
      /\ \A k \in Kinds : k # f.kind => impl'[k] = impl[k] /\ writer'[k] = writer[k]
      /\ impl'[f.kind] = [impl[f.kind] EXCEPT ![f.name] = f.reg]
      /\ writer'[f.kind] = None
      /\ f.reg # None
  BY <1>1, <1>3, ConstantsAssumption DEF IInv, TypeOK
<1>7. TypeOK'
  <2>1. [impl[f.kind] EXCEPT ![f.name] = f.reg] \in [Names -> Entry]
    BY <1>3, <1>6 DEF Entry
  <2>2. impl' \in [Kinds -> [Names -> Entry]]
    BY <1>1, <1>3, <1>6, <2>1
  <2>3. writer' \in [Kinds -> Tasks \union {None}]
    BY <1>1, <1>3, <1>6
  <2> QED BY <1>1, <1>5, <2>2, <2>3 DEF IInv, TypeOK
<1>8. impl'[f.kind] = meta[f.kind]
  BY <1>1, <1>6 DEF IInv, MapsInv, HalfDone
<1>9. writer[f.kind] = t
  BY <1>1, <1>3 DEF IInv, LockInv, InW, Writing
<1>10. /\ Uncritical(stack'[t])
       /\ stack'[t] # <<>> => ~(Head(stack'[t]).op = "register"
                                  /\ Head(stack'[t]).pc \in {"meta", "impl"})
  BY <1>5 DEF Uncritical, InC, InW, InR, Copying, Writing, Reading, InUserCode
<1>11. LockInv'
  <2>1. ~InC(s)
    BY <1>1 DEF InC, Copying
  <2>2. ASSUME NEW k \in Kinds
        PROVE  ~InR(s, k) /\ (k # f.kind => ~InW(s, k))
    BY <1>1 DEF InR, InW, Reading, Writing
  <2>3. ASSUME NEW u \in Tasks, NEW k \in Kinds
        PROVE  /\ writer'[k] = u <=> InW(stack'[u], k)
               /\ u \in readers'[k] <=> InR(stack'[u], k)
    <3>1. CASE u = t
      BY <1>1, <1>6, <1>10, <2>2, <3>1, ConstantsAssumption
         DEF IInv, LockInv, Uncritical
    <3>2. CASE u # t
      BY <1>1, <1>5, <1>6, <1>9, <3>2, ConstantsAssumption DEF IInv, LockInv
    <3> QED BY <3>1, <3>2
  <2>4. ASSUME NEW u \in Tasks
        PROVE  sseOwner' = u <=> InC(stack'[u])
    BY <1>1, <1>5, <1>10, <2>1 DEF IInv, LockInv, Uncritical
  <2>5. ASSUME NEW k \in Kinds, writer'[k] # None
        PROVE  readers'[k] = {}
    BY <1>1, <1>6, <2>5 DEF IInv, LockInv
  <2> QED BY <2>3, <2>4, <2>5 DEF LockInv, InW, InR, InC
<1>12. MapsInv'
  <2>1. MapsAgree'
    BY <1>1, <1>3, <1>6, <1>8 DEF IInv, MapsInv, MapsAgree
  <2>2. stack'[t] # <<>> => HalfDone(Top(t))'
    BY <1>10 DEF HalfDone, Top
  <2>3. ASSUME NEW u \in Tasks \ {t}, stack'[u] # <<>>
        PROVE  HalfDone(Top(u))'
    <3>1. stack'[u] = stack[u] /\ HalfDone(Top(u)) /\ Top(u) \in Frame
      BY <1>5, <2>3, TopFacts DEF IInv, MapsInv
    <3>2. ASSUME Top(u).op = "register", Top(u).pc \in {"meta", "impl"}
          PROVE  Top(u).kind \in Kinds /\ Top(u).kind # f.kind
      <4>1. Top(u).kind \in Kinds
        BY <3>1, <3>2, FrameCases DEF RegisterFrame
      <4>2. writer[Top(u).kind] = u
        BY <2>3, <3>1, <3>2, <4>1 DEF IInv, LockInv, InW, Writing, Top
      <4> QED BY <1>9, <4>1, <4>2
    <3> QED BY <1>1, <1>6, <3>1, <3>2 DEF HalfDone, Top
  <2> QED BY <2>1, <2>2, <2>3 DEF MapsInv
<1>13. EventsDescribeVisibleNames'
  <2>1. ASSUME NEW h \in Frame, Visible(h)
        PROVE  Visible(h)'
    <3>1. ASSUME Published(h)
          PROVE  h.kind \in Kinds /\ h.name \in Names
      BY <3>1, FrameCases DEF Published, RegisterFrame, CallFrame
    <3>2. ASSUME Published(h)
          PROVE  impl'[h.kind][h.name] # None
      BY <1>3, <1>6, <2>1, <3>1, <3>2 DEF Visible
    <3> QED BY <1>1, <2>1, <3>2 DEF Visible
  <2>2. ASSUME NEW h \in Frame, h.kind = f.kind, h.name = f.name
        PROVE  Visible(h)'
    <3>1. impl'[h.kind][h.name] # None /\ meta'[h.kind][h.name] # None
      BY <1>1, <1>3, <1>6, <1>8, <2>2
    <3> QED BY <3>1 DEF Visible
  <2>3. ASSUME NEW i \in 1 .. Len(stack'[t])
        PROVE  stack'[t][i] \in Frame /\ Visible(stack[t][i])'
    <3>1. stack'[t][i] \in Frame
      BY <1>5, ElementOfSeq
    <3>2. CASE stack'[t] = Tail(s)
      <4>1. Visible(Tail(s)[i])
        BY <1>2, <3>2 DEF AllVisible
      <4> QED BY <2>1, <3>1, <3>2, <4>1 DEF Visible
    <3>3. CASE stack'[t] = <<Emit(e)>> \o (<<g>> \o Tail(s))
      <4> DEFINE r == Tail(s)  b == <<g>> \o r  c == <<Emit(e)>> \o b
      <4>1. /\ b \in Seq(Frame) /\ Len(b) = Len(r) + 1 /\ b[1] = g /\ Len(r) \in Nat
            /\ \A j \in 2 .. Len(b) : b[j] = r[j - 1]
        BY <1>2, <1>3, ConsFacts
      <4>2. /\ Len(c) = Len(b) + 1 /\ c[1] = Emit(e)
            /\ \A j \in 2 .. Len(c) : c[j] = b[j - 1]
        BY <1>4, <4>1, EmitType, ConsFacts
      <4>3. stack'[t] = c /\ r \in Seq(Frame) /\ AllVisible(r)
        BY <1>2, <3>3
      <4> HIDE DEF r, b, c
      <4>4. CASE i = 1
        <5>1. stack'[t][i].op = "emit"
          BY <1>4, <4>2, <4>3, <4>4, EmitType
        <5> QED BY <3>1, <5>1 DEF Visible, Published
      <4>5. CASE i = 2
        <5>1. stack'[t][i] = g
          BY <4>1, <4>2, <4>3, <4>5
        <5> QED BY <1>3, <2>2, <3>1, <5>1 DEF Visible
      <4>6. CASE i > 2
        <5>1. stack'[t][i] = r[i - 2] /\ i - 2 \in 1 .. Len(r)
          BY <4>1, <4>2, <4>3, <4>6
        <5>2. Visible(r[i - 2])
          BY <4>3, <5>1 DEF AllVisible
        <5> QED BY <2>1, <3>1, <5>1, <5>2 DEF Visible
      <4> QED BY <3>1, <4>4, <4>5, <4>6
    <3> QED BY <1>5, <3>2, <3>3
  <2>4. ASSUME NEW u \in Tasks \ {t}, NEW i \in 1 .. Len(stack'[u])
        PROVE  Visible(stack[u][i])'
    <3>1. stack'[u][i] \in Frame
      BY <1>5, ElementOfSeq
    <3>2. Visible(stack'[u][i])
      BY <1>5 DEF IInv, EventsDescribeVisibleNames
    <3> QED BY <2>1, <3>1, <3>2 DEF Visible
  <2> QED BY <2>3, <2>4 DEF EventsDescribeVisibleNames
<1> QED BY <1>5, <1>7, <1>11, <1>12, <1>13 DEF IInv

\* A listing or a call enters its critical section: no writer is inside.
LEMMA LockSharedKeeps ==
  ASSUME IInv, NEW t \in Tasks, LockShared(t)
  PROVE  IInv'
<1> DEFINE s == stack[t]  f == Top(t)  g == [f EXCEPT !.pc = "inside"]
<1>1. /\ s # <<>> /\ f.op \in {"list", "call"} /\ f.pc = "acquire" /\ f = Head(s)
      /\ writer[f.kind] = None
      /\ readers' = [readers EXCEPT ![f.kind] = @ \union {t}]
      /\ Replace(t, g)
      /\ UNCHANGED <<meta, impl, writer, sseOwner, callback, seen, ops>>
  BY DEF LockShared, At, Top
<1>2. f \in Frame
  BY <1>1, TopFacts
<1>3. /\ f.kind \in Kinds
      /\ g \in Frame /\ g.op \in {"list", "call"} /\ g.pc = "inside"
      /\ g.kind = f.kind
  BY <1>1, <1>2, FrameCases DEF ListFrame, CallFrame, Frame
<1> HIDE DEF g
<1>4. Visible(g)
  BY <1>3 DEF Visible, Published
<1>5. /\ stack' \in [Tasks -> Seq(Frame)] /\ ShapeInv'
      /\ stack'[t] # <<>> /\ Head(stack'[t]) = g /\ AllVisible(stack'[t])
      /\ \A u \in Tasks \ {t} : stack'[u] = stack[u]
  BY <1>1, <1>3, <1>4, ReplaceStep
<1>6. \A k \in Kinds :
        readers'[k] = IF k = f.kind THEN readers[k] \union {t} ELSE readers[k]
  BY <1>1, <1>3 DEF IInv, TypeOK
<1>7. TypeOK'
  <2>1. readers' \in [Kinds -> SUBSET Tasks]
    BY <1>1, <1>3 DEF IInv, TypeOK
  <2> QED BY <1>1, <1>5, <2>1 DEF IInv, TypeOK
<1>8. LockInv'
  <2>1. ~InC(stack'[t]) /\ ~InC(s)
    BY <1>1, <1>3, <1>5 DEF InC, Copying
  <2>2. ASSUME NEW k \in Kinds
        PROVE  ~InW(stack'[t], k) /\ ~InW(s, k) /\ ~InR(s, k)
    BY <1>1, <1>3, <1>5 DEF InR, InW, Reading, Writing
  <2>3. ASSUME NEW k \in Kinds
        PROVE  InR(stack'[t], k) <=> k = f.kind
    BY <1>3, <1>5 DEF InR, Reading
  <2>4. ASSUME NEW u \in Tasks, NEW k \in Kinds
        PROVE  /\ writer'[k] = u <=> InW(stack'[u], k)
               /\ u \in readers'[k] <=> InR(stack'[u], k)
    <3>1. CASE u = t
      <4>1. writer'[k] # t
        BY <1>1, <2>2 DEF IInv, LockInv
      <4>2. t \notin readers[k]
        BY <2>2 DEF IInv, LockInv
      <4>3. t \in readers'[k] <=> k = f.kind
        BY <1>6, <4>2
      <4> QED BY <2>2, <2>3, <3>1, <4>1, <4>3
    <3>2. CASE u # t
      BY <1>1, <1>5, <1>6, <3>2 DEF IInv, LockInv
    <3> QED BY <3>1, <3>2
  <2>5. ASSUME NEW u \in Tasks
        PROVE  sseOwner' = u <=> InC(stack'[u])
    BY <1>1, <1>5, <2>1 DEF IInv, LockInv
  <2>6. ASSUME NEW k \in Kinds, writer'[k] # None
        PROVE  readers'[k] = {}
    BY <1>1, <1>6, <2>6 DEF IInv, LockInv
  <2> QED BY <2>4, <2>5, <2>6 DEF LockInv, InW, InR, InC
<1>9. MapsInv'
  BY <1>1, <1>3, <1>5, MapsKept DEF IInv
<1>10. EventsDescribeVisibleNames'
  BY <1>1, <1>5, VisibleKept DEF IInv
<1> QED BY <1>5, <1>7, <1>8, <1>9, <1>10 DEF IInv

\* A listing returns what it read.
LEMMA ReadMetaKeeps ==
  ASSUME IInv, NEW t \in Tasks, ReadMeta(t)
  PROVE  IInv'
<1> DEFINE f == Top(t)
<1>1. /\ stack[t] # <<>> /\ f.op = "list" /\ f.pc = "inside"
      /\ seen' = [seen EXCEPT ![t] = [kind |-> f.kind, map |-> meta[f.kind]]]
      /\ readers' = [readers EXCEPT ![f.kind] = @ \ {t}]
      /\ Pop(t)
      /\ UNCHANGED <<meta, impl, writer, sseOwner, callback, ops>>
  BY DEF ReadMeta, At
<1>2. f \in Frame
  BY <1>1, TopFacts
<1>3. f.kind \in Kinds
  BY <1>1, <1>2, FrameCases DEF ListFrame
<1>4. /\ stack' \in [Tasks -> Seq(Frame)] /\ ShapeInv'
      /\ stack'[t] # <<>> => InUserCode(Head(stack'[t]))
      /\ \A u \in Tasks \ {t} : stack'[u] = stack[u]
      /\ AllVisible(stack'[t])
  BY <1>1, PopStep
<1>5. TypeOK'
  <2>1. readers' \in [Kinds -> SUBSET Tasks]
    BY <1>1, <1>3 DEF IInv, TypeOK
  <2>2. [kind |-> f.kind, map |-> meta[f.kind]] \in View
    BY <1>3 DEF IInv, TypeOK, View
  <2>3. seen' \in [Tasks -> View \union {None}]
    BY <1>1, <2>2 DEF IInv, TypeOK
  <2> QED BY <1>1, <1>4, <2>1, <2>3 DEF IInv, TypeOK
<1>6. LockInv'
  <2>1. Uncritical(stack'[t])
    BY <1>4 DEF Uncritical, InC, InW, InR, Copying, Writing, Reading, InUserCode
  <2>2. Reading(Top(t), f.kind)
    BY <1>1 DEF Reading
  <2> QED BY <1>1, <1>3, <1>4, <2>1, <2>2, ReaderLeaves DEF IInv
<1>7. MapsInv'
  BY <1>1, <1>4, MapsKept DEF IInv, InUserCode
<1>8. EventsDescribeVisibleNames'
  BY <1>1, <1>4, VisibleKept DEF IInv
<1> QED BY <1>4, <1>5, <1>6, <1>7, <1>8 DEF IInv

\* A call finds its code, or misses.
LEMMA FindKeeps ==
  ASSUME IInv, NEW t \in Tasks, Find(t)
  PROVE  IInv'
<1> DEFINE f == Top(t)  r == impl[f.kind][f.name]  e == "tool_call_start"
           g == [f EXCEPT !.pc = "starting"]  h == [f EXCEPT !.pc = "running"]
<1>1. /\ stack[t] # <<>> /\ f.op = "call" /\ f.pc = "inside"
      /\ seen' = [seen EXCEPT ![t] = [kind |-> f.kind, name |-> f.name,
                                      reg |-> r]]
      /\ readers' = [readers EXCEPT ![f.kind] = @ \ {t}]
      /\ \/ Pop(t)
         \/ r # None /\ CallEmit(t, g, e)
         \/ r # None /\ Replace(t, h)
      /\ UNCHANGED <<meta, impl, writer, sseOwner, callback, ops>>
  BY DEF Find, At
<1>2. f \in Frame
  BY <1>1, TopFacts
<1>3. /\ f.kind \in Kinds /\ f.name \in Names
      /\ g \in Frame /\ g.op = "call" /\ g.pc = "starting"
      /\ g.kind = f.kind /\ g.name = f.name
      /\ h \in Frame /\ h.op = "call" /\ h.pc = "running"
      /\ h.kind = f.kind /\ h.name = f.name
  BY <1>1, <1>2, FrameCases DEF CallFrame, Frame
<1>4. e \in Events
  BY DEF Events
<1> HIDE DEF g, h, e
\* While t reads there is no writer, so what has code has a description.
<1>5. meta[f.kind] = impl[f.kind]
  <2>1. t \in readers[f.kind]
    <3>1. InR(stack[t], f.kind)
      BY <1>1 DEF InR, Reading, Top
    <3> QED BY <1>3, <3>1 DEF IInv, LockInv
  <2>2. writer[f.kind] = None
    BY <1>3, <2>1 DEF IInv, LockInv
  <2> QED BY <1>3, <2>2 DEF IInv, MapsInv, MapsAgree
<1>6. /\ stack' \in [Tasks -> Seq(Frame)] /\ ShapeInv'
      /\ stack'[t] # <<>> =>
           \/ InUserCode(Head(stack'[t]))
           \/ Head(stack'[t]).op = "emit" /\ Head(stack'[t]).pc = "acquire"
      /\ \A u \in Tasks \ {t} : stack'[u] = stack[u]
      /\ AllVisible(stack'[t])
  <2>1. CASE Pop(t)
    BY <1>1, <2>1, PopStep
  <2>2. CASE r # None /\ CallEmit(t, g, e)
    <3>1. Emitter(g) /\ Visible(g)
      BY <1>3, <1>5, <2>2 DEF Emitter, Visible
    <3> QED BY <1>1, <1>3, <1>4, <2>2, <3>1, CallEmitStep, EmitType
  <2>3. CASE r # None /\ Replace(t, h)
    <3>1. InUserCode(h) /\ Visible(h)
      BY <1>3, <1>5, <2>3 DEF InUserCode, Visible
    <3> QED BY <1>1, <1>3, <2>3, <3>1, ReplaceStep
  <2> QED BY <1>1, <2>1, <2>2, <2>3
<1>7. TypeOK'
  <2>1. readers' \in [Kinds -> SUBSET Tasks]
    BY <1>1, <1>3 DEF IInv, TypeOK
  <2>2. [kind |-> f.kind, name |-> f.name, reg |-> r] \in View
    BY <1>3 DEF IInv, TypeOK, View
  <2>3. seen' \in [Tasks -> View \union {None}]
    BY <1>1, <2>2 DEF IInv, TypeOK
  <2> QED BY <1>1, <1>6, <2>1, <2>3 DEF IInv, TypeOK
<1>8. LockInv'
  <2>1. Uncritical(stack'[t])
    BY <1>6 DEF Uncritical, InC, InW, InR, Copying, Writing, Reading, InUserCode
  <2>2. Reading(Top(t), f.kind)
    BY <1>1 DEF Reading
  <2> QED BY <1>1, <1>3, <1>6, <2>1, <2>2, ReaderLeaves DEF IInv
<1>9. MapsInv'
  BY <1>1, <1>6, MapsKept DEF IInv, InUserCode
<1>10. EventsDescribeVisibleNames'
  BY <1>1, <1>6, VisibleKept DEF IInv
<1> QED BY <1>6, <1>7, <1>8, <1>9, <1>10 DEF IInv

\* A step from one place that holds no lock to another, on one stack.
LEMMA FreeStep ==
  ASSUME IInv, NEW t \in Tasks,
         stack' \in [Tasks -> Seq(Frame)], ShapeInv', AllVisible(stack'[t]),
         \A u \in Tasks \ {t} : stack'[u] = stack[u],
         stack[t] # <<>> => InUserCode(Top(t)),
         stack'[t] # <<>> =>
           \/ InUserCode(Head(stack'[t]))
           \/ Head(stack'[t]).op = "emit" /\ Head(stack'[t]).pc = "acquire",
         UNCHANGED <<meta, impl, locks, callback, seen, ops>>
  PROVE  IInv'
<1>1. TypeOK'
  BY DEF IInv, TypeOK, locks
<1>2. LockInv'
  <2>1. Uncritical(stack[t])
    BY DEF Top, Uncritical, InC, InW, InR, Copying, Writing, Reading, InUserCode
  <2>2. Uncritical(stack'[t])
    BY DEF Uncritical, InC, InW, InR, Copying, Writing, Reading, InUserCode
  <2> QED BY <2>1, <2>2, LocksKept DEF IInv, Uncritical
<1>3. MapsInv'
  BY MapsKept DEF IInv, InUserCode, locks
<1>4. EventsDescribeVisibleNames'
  BY VisibleKept DEF IInv
<1> QED BY <1>1, <1>2, <1>3, <1>4 DEF IInv

\* A handler completes or throws.
LEMMA HandlerDoneKeeps ==
  ASSUME IInv, NEW t \in Tasks, HandlerReturns(t) \/ HandlerThrows(t)
  PROVE  IInv'
<1> DEFINE f == Top(t)
<1>1. PICK p \in {"ending", "erring"}, e \in Events :
        /\ stack[t] # <<>> /\ f.op = "call" /\ f.pc = "running"
        /\ CallEmit(t, [f EXCEPT !.pc = p], e) \/ Pop(t)
        /\ UNCHANGED <<meta, impl, locks, callback, seen, ops>>
  BY DEF HandlerReturns, HandlerThrows, At, Events
<1> DEFINE g == [f EXCEPT !.pc = p]
<1>2. f \in Frame /\ Visible(f)
  BY <1>1, TopFacts
<1>3. /\ g \in Frame /\ g.op = "call" /\ g.pc = p
      /\ g.kind = f.kind /\ g.name = f.name
  BY <1>1, <1>2, FrameCases DEF CallFrame, Frame
<1>4. CallEmit(t, g, e) \/ Pop(t)
  BY <1>1
<1> HIDE DEF g
<1>5. Emitter(g) /\ Visible(g)
  BY <1>1, <1>2, <1>3 DEF Emitter, Visible, Published
<1>6. /\ stack' \in [Tasks -> Seq(Frame)] /\ ShapeInv'
      /\ stack'[t] # <<>> =>
           \/ InUserCode(Head(stack'[t]))
           \/ Head(stack'[t]).op = "emit" /\ Head(stack'[t]).pc = "acquire"
      /\ \A u \in Tasks \ {t} : stack'[u] = stack[u]
      /\ AllVisible(stack'[t])
  <2>1. CASE Pop(t)
    BY <1>1, <2>1, PopStep
  <2>2. CASE CallEmit(t, g, e)
    BY <1>1, <1>3, <1>5, <2>2, CallEmitStep, EmitType
  <2> QED BY <1>4, <2>1, <2>2
<1>7. InUserCode(Top(t))
  BY <1>1 DEF InUserCode
<1> QED BY <1>1, <1>6, <1>7, FreeStep

\* The SSE callback returns or throws.
LEMMA CallbackDoneKeeps ==
  ASSUME IInv, NEW t \in Tasks, CallbackReturns(t) \/ CallbackThrows(t)
  PROVE  IInv'
<1>1. PICK n :
        /\ stack[t] # <<>> /\ Top(t).op = "emit" /\ Top(t).pc = "calling"
        /\ \/ n = AfterEmit(stack[t][2], Tail(Tail(stack[t])))
           \/ n = AfterEmitThrew(stack[t][2], Tail(Tail(stack[t])))
        /\ stack' = [stack EXCEPT ![t] = n]
        /\ UNCHANGED <<meta, impl, locks, callback, seen, ops>>
  BY DEF CallbackReturns, CallbackThrows, At
<1>2. /\ stack' \in [Tasks -> Seq(Frame)] /\ ShapeInv'
      /\ stack'[t] # <<>> =>
           \/ InUserCode(Head(stack'[t]))
           \/ Head(stack'[t]).op = "emit" /\ Head(stack'[t]).pc = "acquire"
      /\ \A u \in Tasks \ {t} : stack'[u] = stack[u]
      /\ AllVisible(stack'[t])
  BY <1>1, EmitDoneStep
<1>3. InUserCode(Top(t))
  BY <1>1 DEF InUserCode
<1> QED BY <1>1, <1>2, <1>3, FreeStep

\* EmitSseEvent enters its critical section.
LEMMA EmitLockKeeps ==
  ASSUME IInv, NEW t \in Tasks, EmitLock(t)
  PROVE  IInv'
<1> DEFINE f == Top(t)  g == [f EXCEPT !.pc = "copy"]
<1>1. /\ stack[t] # <<>> /\ f.op = "emit" /\ f.pc = "acquire"
      /\ f = Head(stack[t])
      /\ sseOwner = None /\ sseOwner' = t
      /\ Replace(t, g)
      /\ UNCHANGED <<meta, impl, writer, readers, callback, seen, ops>>
  BY DEF EmitLock, At, Top
<1>2. f \in Frame
  BY <1>1, TopFacts
<1>3. g \in Frame /\ g.op = "emit" /\ g.pc = "copy"
  BY <1>1, <1>2, FrameCases DEF EmitFrame, Frame
<1> HIDE DEF g
<1>4. Visible(g)
  BY <1>3 DEF Visible, Published
<1>5. /\ stack' \in [Tasks -> Seq(Frame)] /\ ShapeInv'
      /\ stack'[t] # <<>> /\ Head(stack'[t]) = g /\ AllVisible(stack'[t])
      /\ \A u \in Tasks \ {t} : stack'[u] = stack[u]
  BY <1>1, <1>3, <1>4, ReplaceStep
<1>6. TypeOK'
  BY <1>1, <1>5 DEF IInv, TypeOK
<1>7. LockInv'
  <2>1. InC(stack'[t])
    BY <1>3, <1>5 DEF InC, Copying
  <2>2. ASSUME NEW k \in Kinds
        PROVE  /\ ~InW(stack'[t], k) /\ ~InR(stack'[t], k)
               /\ ~InW(stack[t], k) /\ ~InR(stack[t], k)
    BY <1>1, <1>3, <1>5 DEF InR, InW, Reading, Writing
  <2>3. ASSUME NEW u \in Tasks, NEW k \in Kinds
        PROVE  /\ writer'[k] = u <=> InW(stack'[u], k)
               /\ u \in readers'[k] <=> InR(stack'[u], k)
    BY <1>1, <1>5, <2>2 DEF IInv, LockInv
  <2>4. ASSUME NEW u \in Tasks
        PROVE  sseOwner' = u <=> InC(stack'[u])
    BY <1>1, <1>5, <2>1, ConstantsAssumption DEF IInv, LockInv
  <2> QED BY <1>1, <2>3, <2>4 DEF IInv, LockInv, InW, InR, InC
<1>8. MapsInv'
  BY <1>1, <1>3, <1>5, MapsKept DEF IInv
<1>9. EventsDescribeVisibleNames'
  BY <1>1, <1>5, VisibleKept DEF IInv
<1> QED BY <1>5, <1>6, <1>7, <1>8, <1>9 DEF IInv

\* EmitSseEvent leaves its critical section with a copy of the callback:
\* it calls it, or returns when there is none.
LEMMA EmitCopyKeeps ==
  ASSUME IInv, NEW t \in Tasks, EmitCopy(t)
  PROVE  IInv'
<1> DEFINE f == Top(t)  g == [f EXCEPT !.pc = "calling"]
           n == AfterEmit(stack[t][2], Tail(Tail(stack[t])))
<1>1. /\ stack[t] # <<>> /\ f.op = "emit" /\ f.pc = "copy"
      /\ f = Head(stack[t])
      /\ sseOwner' = None
      /\ Replace(t, g) \/ stack' = [stack EXCEPT ![t] = n]
      /\ UNCHANGED <<meta, impl, writer, readers, callback, seen, ops>>
  BY DEF EmitCopy, At, Top
<1>2. f \in Frame
  BY <1>1, TopFacts
<1>3. g \in Frame /\ g.op = "emit" /\ g.pc = "calling"
  BY <1>1, <1>2, FrameCases DEF EmitFrame, Frame
<1> HIDE DEF g
<1>4. /\ stack' \in [Tasks -> Seq(Frame)] /\ ShapeInv'
      /\ stack'[t] # <<>> =>
           \/ InUserCode(Head(stack'[t]))
           \/ Head(stack'[t]).op = "emit" /\ Head(stack'[t]).pc = "acquire"
      /\ \A u \in Tasks \ {t} : stack'[u] = stack[u]
      /\ AllVisible(stack'[t])
  <2>1. CASE Replace(t, g)
    <3>1. InUserCode(g) /\ Visible(g)
      BY <1>3 DEF InUserCode, Visible, Published
    <3> QED BY <1>1, <1>3, <2>1, <3>1, ReplaceStep
  <2>2. CASE stack' = [stack EXCEPT ![t] = n]
    BY <1>1, <2>2, EmitDoneStep
  <2> QED BY <1>1, <2>1, <2>2
<1>5. TypeOK'
  BY <1>1, <1>4 DEF IInv, TypeOK
<1>6. LockInv'
  <2>1. ~InC(stack'[t])
    BY <1>4 DEF InC, Copying, InUserCode
  <2>2. ASSUME NEW k \in Kinds
        PROVE  ~InW(stack'[t], k) /\ ~InR(stack'[t], k)
    BY <1>4 DEF InR, InW, Reading, Writing, InUserCode
  <2>3. ASSUME NEW k \in Kinds
        PROVE  ~InW(stack[t], k) /\ ~InR(stack[t], k)
    BY <1>1 DEF InR, InW, Reading, Writing
  <2>4. sseOwner = t
    BY <1>1 DEF IInv, LockInv, InC, Copying
  <2>5. ASSUME NEW u \in Tasks, NEW k \in Kinds
        PROVE  /\ writer'[k] = u <=> InW(stack'[u], k)
               /\ u \in readers'[k] <=> InR(stack'[u], k)
    BY <1>1, <1>4, <2>2, <2>3 DEF IInv, LockInv
  <2>6. ASSUME NEW u \in Tasks
        PROVE  sseOwner' = u <=> InC(stack'[u])
    BY <1>1, <1>4, <2>1, <2>4, ConstantsAssumption DEF IInv, LockInv
  <2> QED BY <1>1, <2>5, <2>6 DEF IInv, LockInv, InW, InR, InC
<1>7. MapsInv'
  BY <1>1, <1>4, MapsKept DEF IInv, InUserCode
<1>8. EventsDescribeVisibleNames'
  BY <1>1, <1>4, VisibleKept DEF IInv
<1> QED BY <1>4, <1>5, <1>6, <1>7, <1>8 DEF IInv

-------------------------------------------------------------------------------
(* The theorems.                                                           *)

\* No registry has an entry, no lock is held and no task runs.
LEMMA InitInv == Init => IInv
<1> SUFFICES ASSUME Init PROVE IInv
  OBVIOUS
<1>1. TypeOK
  <2>1. <<>> \in Seq(Frame)
    OBVIOUS
  <2>2. stack \in [Tasks -> Seq(Frame)] /\ ops \in Nat /\ callback \in BOOLEAN
    BY <2>1 DEF Init
  <2>3. /\ meta \in [Kinds -> [Names -> Entry]]
        /\ impl \in [Kinds -> [Names -> Entry]]
    BY DEF Init, Entry
  <2>4. /\ writer \in [Kinds -> Tasks \union {None}]
        /\ readers \in [Kinds -> SUBSET Tasks]
        /\ sseOwner \in Tasks \union {None}
        /\ seen \in [Tasks -> View \union {None}]
    BY DEF Init
  <2> QED BY <2>2, <2>3, <2>4 DEF TypeOK
<1>2. ShapeInv
  <2>1. \A t \in Tasks : stack[t] = <<>> /\ Len(stack[t]) = 0
    BY EmptyLen DEF Init
  <2>2. ASSUME NEW t \in Tasks
        PROVE  Shape(stack[t])
    <3>1. stack[t] = <<>> /\ Len(stack[t]) - 1 = -1
      BY <2>1
    <3> QED BY <3>1 DEF Shape
  <2> QED BY <2>2 DEF ShapeInv
<1>3. LockInv
  BY ConstantsAssumption DEF Init, LockInv, InW, InR, InC
<1>4. MapsInv
  BY DEF Init, MapsInv, MapsAgree
<1>5. EventsDescribeVisibleNames
  BY EmptyLen DEF Init, EventsDescribeVisibleNames
<1> QED BY <1>1, <1>2, <1>3, <1>4, <1>5 DEF IInv

\* A step that changes nothing.
LEMMA StutterKeeps ==
  ASSUME IInv, UNCHANGED vars
  PROVE  IInv'
<1> USE DEF IInv, vars, locks
<1>1. TypeOK'
  BY DEF TypeOK
<1>2. ShapeInv'
  BY DEF ShapeInv, Shape
<1>3. LockInv'
  BY DEF LockInv, InW, InR, InC
<1>4. MapsInv'
  BY DEF MapsInv, MapsAgree, HalfDone, Top
<1>5. EventsDescribeVisibleNames'
  BY DEF EventsDescribeVisibleNames, Visible
<1> QED BY <1>1, <1>2, <1>3, <1>4, <1>5

\* The invariant is inductive.
LEMMA NextKeeps == IInv /\ [Next]_vars => IInv'
<1> SUFFICES ASSUME IInv, [Next]_vars PROVE IInv'
  OBVIOUS
<1>1. ASSUME NEW t \in Tasks, Use(t)
      PROVE  IInv'
  BY <1>1, BeginActionsKeep, SetSseCallbackKeeps DEF Use
<1>2. ASSUME NEW t \in Tasks, Step(t)
      PROVE  IInv'
  BY <1>2, LockExclusiveKeeps, WriteMetaKeeps, WriteImplKeeps,
     LockSharedKeeps, ReadMetaKeeps, FindKeeps, HandlerDoneKeeps,
     EmitLockKeeps, EmitCopyKeeps, CallbackDoneKeeps DEF Step
<1>3. CASE UNCHANGED vars \/ Quiescent
  BY <1>3, StutterKeeps DEF Quiescent
<1> QED BY <1>1, <1>2, <1>3 DEF Next

\* In every state of the server the inductive invariant holds.
THEOREM Inductive == Spec => []IInv
BY InitInv, NextKeeps, PTL DEF Spec

\* The maps, locks and stacks keep their types.
THEOREM TypeCorrect == Spec => []TypeOK
<1>1. IInv => TypeOK
  BY DEF IInv
<1> QED BY <1>1, Inductive, PTL

\* The two maps of a registry differ only while a writer is inside.
THEOREM MapsAgreement == Spec => []MapsAgree
<1>1. IInv => MapsAgree
  BY DEF IInv, MapsInv
<1> QED BY <1>1, Inductive, PTL

\* No handler and no SSE callback runs under a lock of the server.
THEOREM LocksReleasedBeforeUserCode == Spec => []UserCodeUnlocked
<1>1. ASSUME IInv, NEW t \in Tasks, stack[t] # <<>>, InUserCode(Top(t))
      PROVE  sseOwner # t /\ \A k \in Kinds : writer[k] # t /\ t \notin readers[k]
  <2>1. Uncritical(stack[t])
    BY <1>1 DEF Top, Uncritical, InC, InW, InR, Copying, Writing, Reading, InUserCode
  <2> QED BY <1>1, <2>1 DEF IInv, LockInv, Uncritical
<1>2. IInv => UserCodeUnlocked
  BY <1>1 DEF UserCodeUnlocked
<1> QED BY <1>2, Inductive, PTL

\* Whatever an SSE callback is told about is listed and callable.
THEOREM EventsAreAboutVisibleNames == Spec => []EventsDescribeVisibleNames
<1>1. IInv => EventsDescribeVisibleNames
  BY DEF IInv
<1> QED BY <1>1, Inductive, PTL

-------------------------------------------------------------------------------
(* McpServer implements AtomicRegistry, with the code map as the registry. *)

\* A registration takes effect when it stores its code, a listing and a
\* lookup when they read; every other step is invisible.
LEMMA AtomicStep == IInv /\ [Next]_vars => [Atomic!Next]_Atomic!vars
<1> SUFFICES ASSUME IInv, [Next]_vars PROVE [Atomic!Next]_Atomic!vars
  OBVIOUS
<1> USE DEF Atomic!vars
<1>1. ASSUME NEW t \in Tasks, WriteImpl(t)
      PROVE  Atomic!Next
  <2> DEFINE f == Top(t)
  <2>1. /\ stack[t] # <<>> /\ f.op = "register"
        /\ impl' = [impl EXCEPT ![f.kind] = [@ EXCEPT ![f.name] = f.reg]]
        /\ UNCHANGED seen
    BY <1>1 DEF WriteImpl, At
  <2>2. f \in RegisterFrame
    BY <2>1, TopFacts, FrameCases
  <2>3. f.kind \in Kinds /\ f.name \in Names /\ f.reg \in Regs
    BY <2>2 DEF RegisterFrame
  <2> QED BY <2>1, <2>3 DEF Atomic!Next, Atomic!Register
<1>2. ASSUME NEW t \in Tasks, ReadMeta(t)
      PROVE  Atomic!Next
  <2> DEFINE f == Top(t)
  <2>1. /\ stack[t] # <<>> /\ f.op = "list" /\ f.pc = "inside"
        /\ seen' = [seen EXCEPT ![t] = [kind |-> f.kind, map |-> meta[f.kind]]]
        /\ UNCHANGED impl
    BY <1>2 DEF ReadMeta, At
  <2>2. f \in ListFrame
    BY <2>1, TopFacts, FrameCases
  <2>3. f.kind \in Kinds
    BY <2>2 DEF ListFrame
  <2>4. InR(stack[t], f.kind)
    BY <2>1 DEF InR, Reading, Top
  <2>5. writer[f.kind] = None
    BY <2>3, <2>4 DEF IInv, LockInv
  <2>6. meta[f.kind] = impl[f.kind]
    BY <2>3, <2>5 DEF IInv, MapsInv, MapsAgree
  <2> QED BY <2>1, <2>3, <2>6 DEF Atomic!Next, Atomic!List
<1>3. ASSUME NEW t \in Tasks, Find(t)
      PROVE  Atomic!Next
  <2> DEFINE f == Top(t)
  <2>1. /\ stack[t] # <<>> /\ f.op = "call"
        /\ seen' = [seen EXCEPT ![t] = [kind |-> f.kind, name |-> f.name,
                                        reg |-> impl[f.kind][f.name]]]
        /\ UNCHANGED impl
    BY <1>3 DEF Find, At
  <2>2. f \in CallFrame
    BY <2>1, TopFacts, FrameCases
  <2>3. f.kind \in Kinds /\ f.name \in Names
    BY <2>2 DEF CallFrame
  <2> QED BY <2>1, <2>3 DEF Atomic!Next, Atomic!Lookup
<1>4. ASSUME NEW t \in Tasks, Use(t)
      PROVE  UNCHANGED <<impl, seen>>
  BY <1>4 DEF Use, BeginRegister, BeginList, BeginCall, Begin, SetSseCallback
<1>5. ASSUME NEW t \in Tasks,
             \/ LockExclusive(t) \/ WriteMeta(t) \/ LockShared(t)
             \/ HandlerReturns(t) \/ HandlerThrows(t) \/ EmitLock(t)
             \/ EmitCopy(t) \/ CallbackReturns(t) \/ CallbackThrows(t)
      PROVE  UNCHANGED <<impl, seen>>
  BY <1>5 DEF LockExclusive, WriteMeta, LockShared, HandlerReturns,
     HandlerThrows, EmitLock, EmitCopy, CallbackReturns, CallbackThrows
<1>6. CASE UNCHANGED vars \/ Quiescent
  BY <1>6 DEF vars, Quiescent
<1> QED BY <1>1, <1>2, <1>3, <1>4, <1>5, <1>6 DEF Next, Step

\* Concurrent registrations, listings and calls behave like atomic ones.
THEOREM Refinement == Spec => RefinesAtomicRegistry
<1>1. Init => Atomic!Init
  BY DEF Init, Atomic!Init
<1> QED BY <1>1, Inductive, AtomicStep, PTL
        DEF Spec, RefinesAtomicRegistry, Atomic!Spec

-------------------------------------------------------------------------------
(* What a task waits for.                                                  *)

\* Task u holds the mutex that task t is about to lock.
WaitsOn(t, u) ==
  \/ /\ At(t, "register", "acquire")
     /\ writer[Top(t).kind] = u \/ u \in readers[Top(t).kind]
  \/ /\ At(t, "list", "acquire") \/ At(t, "call", "acquire")
     /\ writer[Top(t).kind] = u
  \/ At(t, "emit", "acquire") /\ sseOwner = u

\* The guard of Step(t).
CanStep(t) ==
  \/ /\ At(t, "register", "acquire")
     /\ writer[Top(t).kind] = None /\ readers[Top(t).kind] = {}
  \/ At(t, "register", "meta") \/ At(t, "register", "impl")
  \/ /\ At(t, "list", "acquire") \/ At(t, "call", "acquire")
     /\ writer[Top(t).kind] = None
  \/ At(t, "list", "inside") \/ At(t, "call", "inside")
  \/ At(t, "call", "running")
  \/ At(t, "emit", "acquire") /\ sseOwner = None
  \/ At(t, "emit", "copy") \/ At(t, "emit", "calling")

\* No innermost frame waits for an event.
Awake == \A t \in Tasks : stack[t] # <<>> => ~Emitter(Top(t))

\* A stack the step did not change, and one with another innermost frame.
LEMMA StaysAwake ==
  ASSUME Awake, NEW t \in Tasks,
         \A u \in Tasks \ {t} : stack'[u] = stack[u],
         stack'[t] # <<>> => ~Emitter(Head(stack'[t]))
  PROVE  Awake'
BY DEF Awake, Top

\* An operation that begins waits for its mutex first.
LEMMA UseStaysAwake ==
  ASSUME IInv, Awake, NEW t \in Tasks, Use(t) PROVE Awake'
<1>1. ASSUME NEW f \in Frame, f.pc = "acquire", Begin(t, f) PROVE Awake'
  <2> DEFINE n == <<f>> \o stack[t]
  <2>1. stack[t] \in Seq(Frame) /\ stack \in [Tasks -> Seq(Frame)]
    BY DEF IInv, TypeOK
  <2>2. n \in Seq(Frame) /\ Head(n) = f
    BY <1>1, <2>1, ConsFacts
  <2>3. stack' = [stack EXCEPT ![t] = n]
    BY <1>1 DEF Begin
  <2> HIDE DEF n
  <2>4. ~Emitter(f)
    BY <1>1 DEF Emitter
  <2> QED  BY <2>1, <2>2, <2>3, <2>4, StaysAwake
<1>2. CASE BeginRegister(t)
  <2>1. PICK k \in Kinds, n \in Names, r \in Regs :
          Begin(t, [op |-> "register", kind |-> k, name |-> n, reg |-> r,
                    pc |-> "acquire"])
    BY <1>2 DEF BeginRegister
  <2> DEFINE f == [op |-> "register", kind |-> k, name |-> n, reg |-> r,
                   pc |-> "acquire"]
  <2>2. f \in Frame /\ f.pc = "acquire"
    BY DEF Frame, RegisterFrame
  <2> QED  BY <1>1, <2>1, <2>2
<1>3. CASE BeginList(t)
  <2>1. PICK k \in Kinds :
          Begin(t, [op |-> "list", kind |-> k, pc |-> "acquire"])
    BY <1>3 DEF BeginList
  <2> DEFINE f == [op |-> "list", kind |-> k, pc |-> "acquire"]
  <2>2. f \in Frame /\ f.pc = "acquire"
    BY DEF Frame, ListFrame
  <2> QED  BY <1>1, <2>1, <2>2
<1>4. CASE BeginCall(t)
  <2>1. PICK k \in Kinds, n \in Names :
          Begin(t, [op |-> "call", kind |-> k, name |-> n, pc |-> "acquire"])
    BY <1>4 DEF BeginCall
  <2> DEFINE f == [op |-> "call", kind |-> k, name |-> n, pc |-> "acquire"]
  <2>2. f \in Frame /\ f.pc = "acquire"
    BY DEF Frame, CallFrame
  <2> QED  BY <1>1, <2>1, <2>2
<1>5. CASE SetSseCallback(t)
  BY <1>5 DEF SetSseCallback, Awake, Top
<1> QED  BY <1>2, <1>3, <1>4, <1>5 DEF Use

-------------------------------------------------------------------------------
(* How much is left to do.                                                 *)

\* The steps the frame of a function in progress has ahead of it, those of
\* EmitSseEvent included, but none of what user code calls.
Weight(f) ==
  CASE f.op = "register" ->
         [acquire |-> 7, meta |-> 6, impl |-> 5, notifying |-> 1][f.pc]
    [] f.op = "list" -> [acquire |-> 2, inside |-> 1][f.pc]
    [] f.op = "call" ->
         [acquire |-> 13, inside |-> 12, starting |-> 8, running |-> 8,
          ending |-> 4, erring |-> 1][f.pc]
    [] f.op = "emit" -> [acquire |-> 3, copy |-> 2, calling |-> 1][f.pc]

\* What the frames of the four kinds of function weigh.
LEMMA RegisterWeight ==
  ASSUME NEW f, f.op = "register"
  PROVE  /\ f.pc = "acquire" => Weight(f) = 7
         /\ f.pc = "meta" => Weight(f) = 6
         /\ f.pc = "impl" => Weight(f) = 5
         /\ f.pc = "notifying" => Weight(f) = 1
BY DEF Weight

LEMMA ListWeight ==
  ASSUME NEW f, f.op = "list"
  PROVE  /\ f.pc = "acquire" => Weight(f) = 2
         /\ f.pc = "inside" => Weight(f) = 1
BY DEF Weight

LEMMA CallWeight ==
  ASSUME NEW f, f.op = "call"
  PROVE  /\ f.pc = "acquire" => Weight(f) = 13
         /\ f.pc = "inside" => Weight(f) = 12
         /\ f.pc \in {"starting", "running"} => Weight(f) = 8
         /\ f.pc = "ending" => Weight(f) = 4
         /\ f.pc = "erring" => Weight(f) = 1
BY DEF Weight

LEMMA EmitWeight ==
  ASSUME NEW f, f.op = "emit"
  PROVE  /\ f.pc = "acquire" => Weight(f) = 3
         /\ f.pc = "copy" => Weight(f) = 2
         /\ f.pc = "calling" => Weight(f) = 1
BY DEF Weight

\* Every frame has a step ahead of it, and 13 at most.
LEMMA WeightBounds == ASSUME NEW f \in Frame PROVE Weight(f) \in 1 .. 13
<1>1. CASE f.op = "register"
  BY <1>1, FrameCases, RegisterWeight DEF RegisterFrame
<1>2. CASE f.op = "list"
  BY <1>2, FrameCases, ListWeight DEF ListFrame
<1>3. CASE f.op = "call"
  BY <1>3, FrameCases, CallWeight DEF CallFrame
<1>4. CASE f.op = "emit"
  BY <1>4, FrameCases, EmitWeight DEF EmitFrame
<1> QED  BY <1>1, <1>2, <1>3, <1>4
     DEF Frame, RegisterFrame, ListFrame, CallFrame, EmitFrame

\* A frame that moves on.
LEMMA MovedOn ==
  ASSUME NEW f \in Frame, NEW p,
         \/ f.op = "register" /\ p \in {"acquire", "meta", "impl", "notifying"}
         \/ f.op = "list" /\ p \in {"acquire", "inside"}
         \/ /\ f.op = "call"
            /\ p \in {"acquire", "inside", "starting", "running", "ending",
                      "erring"}
         \/ f.op = "emit" /\ p \in {"acquire", "copy", "calling"}
  PROVE  LET g == [f EXCEPT !.pc = p] IN
           g \in Frame /\ g.op = f.op /\ g.pc = p
<1>1. CASE f.op = "register"
  BY <1>1, FrameCases DEF RegisterFrame, Frame
<1>2. CASE f.op = "list"
  BY <1>2, FrameCases DEF ListFrame, Frame
<1>3. CASE f.op = "call"
  BY <1>3, FrameCases DEF CallFrame, Frame
<1>4. CASE f.op = "emit"
  BY <1>4, FrameCases DEF EmitFrame, Frame
<1> QED  BY <1>1, <1>2, <1>3, <1>4

\* How a step changes the stack of its task: the innermost function moves on
\* and does not wait for an event, or returns, or calls EmitSseEvent; or it
\* is EmitSseEvent and returns or throws.
MovesOn(t, g) == Replace(t, g) /\ ~Emitter(g) /\ Weight(g) < Weight(Top(t))
Emits(t, g, e) == CallEmit(t, g, e) /\ Weight(g) + 3 < Weight(Top(t))
EmitEnds(t, n) ==
  /\ Top(t).op = "emit"
  /\ \/ n = AfterEmit(stack[t][2], Tail(Tail(stack[t])))
     \/ /\ Top(t).pc = "calling"
        /\ n = AfterEmitThrew(stack[t][2], Tail(Tail(stack[t])))
  /\ stack' = [stack EXCEPT ![t] = n]

\* Every step is of one of these kinds.
LEMMA StepMoves ==
  ASSUME IInv, NEW t \in Tasks, Step(t)
  PROVE  /\ stack[t] # <<>>
         /\ \/ \E g \in Frame : MovesOn(t, g)
            \/ Top(t).op # "emit" /\ Pop(t)
            \/ \E g \in Frame, e \in Events : Emits(t, g, e)
            \/ \E n : EmitEnds(t, n)
<1> DEFINE f == Top(t)
<1>1. stack[t] # <<>>
  BY DEF Step, At, LockExclusive, WriteMeta, WriteImpl, LockShared, ReadMeta,
         Find, HandlerReturns, HandlerThrows, EmitLock, EmitCopy,
         CallbackReturns, CallbackThrows
<1>2. f \in Frame
  BY <1>1, TopFacts
<1>3. ASSUME LockExclusive(t) \/ WriteMeta(t)
      PROVE  \E g \in Frame : MovesOn(t, g)
  <2>1. PICK p \in {"meta", "impl"} :
          /\ Replace(t, [f EXCEPT !.pc = p]) /\ f.op = "register"
          /\ p = "meta" => f.pc = "acquire"
          /\ p = "impl" => f.pc = "meta"
    BY <1>3 DEF LockExclusive, WriteMeta, At
  <2> DEFINE g == [f EXCEPT !.pc = p]
  <2>2. g \in Frame /\ g.op = "register" /\ g.pc = p
    BY <1>2, <2>1, MovedOn
  <2> HIDE DEF g, f
  <2>3. Weight(g) < Weight(f) /\ ~Emitter(g)
    BY <2>1, <2>2, RegisterWeight DEF Emitter
  <2> USE DEF f
  <2> QED  BY <2>1, <2>2, <2>3 DEF MovesOn, g
<1>4. ASSUME WriteImpl(t)
      PROVE  \/ Top(t).op # "emit" /\ Pop(t)
             \/ \E g \in Frame, e \in Events : Emits(t, g, e)
  <2> DEFINE g == [f EXCEPT !.pc = "notifying"]
  <2>1. /\ f.op = "register" /\ f.pc = "impl"
        /\ CallEmit(t, g, "tools_changed") \/ Pop(t)
    BY <1>4 DEF WriteImpl, At
  <2>2. g \in Frame /\ g.op = "register" /\ g.pc = "notifying"
    BY <1>2, <2>1, MovedOn
  <2>3. Weight(g) = 1 /\ Weight(f) = 5
    BY <2>1, <2>2, RegisterWeight
  <2>4. "tools_changed" \in Events /\ Weight(g) + 3 < Weight(f)
    BY <2>3 DEF Events
  <2> QED  BY <2>1, <2>2, <2>4 DEF Emits
<1>5. ASSUME LockShared(t)
      PROVE  \E g \in Frame : MovesOn(t, g)
  <2> DEFINE g == [f EXCEPT !.pc = "inside"]
  <2>1. Replace(t, g) /\ f.op \in {"list", "call"} /\ f.pc = "acquire"
    BY <1>5 DEF LockShared, At
  <2>2. g \in Frame /\ g.op = f.op /\ g.pc = "inside"
    BY <1>2, <2>1, MovedOn
  <2>3. Weight(g) < Weight(f) /\ ~Emitter(g)
    <3>1. CASE f.op = "list"
      <4>1. Weight(g) = 1 /\ Weight(f) = 2
        BY <2>1, <2>2, <3>1, ListWeight
      <4> QED  BY <2>2, <4>1 DEF Emitter
    <3>2. CASE f.op = "call"
      <4>1. Weight(g) = 12 /\ Weight(f) = 13
        BY <2>1, <2>2, <3>2, CallWeight
      <4> QED  BY <2>2, <4>1 DEF Emitter
    <3> QED  BY <2>1, <3>1, <3>2
  <2> QED  BY <2>1, <2>2, <2>3 DEF MovesOn
<1>6. ASSUME ReadMeta(t)
      PROVE  Top(t).op # "emit" /\ Pop(t)
  BY <1>6 DEF ReadMeta, At
<1>7. ASSUME Find(t)
      PROVE  \/ \E g \in Frame : MovesOn(t, g)
             \/ Top(t).op # "emit" /\ Pop(t)
             \/ \E g \in Frame, e \in Events : Emits(t, g, e)
  <2> DEFINE g == [f EXCEPT !.pc = "starting"]  h == [f EXCEPT !.pc = "running"]
  <2>1. /\ f.op = "call" /\ f.pc = "inside"
        /\ Pop(t) \/ CallEmit(t, g, "tool_call_start") \/ Replace(t, h)
    BY <1>7 DEF Find, At
  <2>2. /\ g \in Frame /\ g.op = "call" /\ g.pc = "starting"
        /\ h \in Frame /\ h.op = "call" /\ h.pc = "running"
    BY <1>2, <2>1, MovedOn
  <2>3. Weight(g) = 8 /\ Weight(h) = 8 /\ Weight(f) = 12
    BY <2>1, <2>2, CallWeight
  <2>4. /\ "tool_call_start" \in Events /\ Weight(g) + 3 < Weight(f)
        /\ Weight(h) < Weight(f)
    BY <2>3 DEF Events
  <2>5. ~Emitter(h)
    BY <2>2 DEF Emitter
  <2> QED  BY <2>1, <2>2, <2>4, <2>5 DEF Emits, MovesOn
<1>8. ASSUME HandlerReturns(t) \/ HandlerThrows(t)
      PROVE  \/ Top(t).op # "emit" /\ Pop(t)
             \/ \E g \in Frame, e \in Events : Emits(t, g, e)
  <2>1. PICK p \in {"ending", "erring"}, e \in Events :
          /\ f.op = "call" /\ f.pc = "running"
          /\ Pop(t) \/ CallEmit(t, [f EXCEPT !.pc = p], e)
    BY <1>8 DEF HandlerReturns, HandlerThrows, At, Events
  <2> DEFINE g == [f EXCEPT !.pc = p]
  <2>2. g \in Frame /\ g.op = "call" /\ g.pc = p
    BY <1>2, <2>1, MovedOn
  <2>3. Weight(g) \in {1, 4} /\ Weight(f) = 8
    BY <2>1, <2>2, CallWeight
  <2>4. Weight(g) + 3 < Weight(f)
    BY <2>3
  <2> QED  BY <2>1, <2>2, <2>4 DEF Emits
<1>9. ASSUME EmitLock(t)
      PROVE  \E g \in Frame : MovesOn(t, g)
  <2> DEFINE g == [f EXCEPT !.pc = "copy"]
  <2>1. Replace(t, g) /\ f.op = "emit" /\ f.pc = "acquire"
    BY <1>9 DEF EmitLock, At
  <2>2. g \in Frame /\ g.op = "emit" /\ g.pc = "copy"
    BY <1>2, <2>1, MovedOn
  <2>4. Weight(g) = 2 /\ Weight(f) = 3
    BY <2>1, <2>2, EmitWeight
  <2>5. ~Emitter(g)
    BY <2>2 DEF Emitter
  <2>3. Weight(g) < Weight(f) /\ ~Emitter(g)
    BY <2>4, <2>5
  <2> QED  BY <2>1, <2>2, <2>3 DEF MovesOn
<1>10. ASSUME EmitCopy(t)
       PROVE  \/ \E g \in Frame : MovesOn(t, g)
              \/ \E n : EmitEnds(t, n)
  <2> DEFINE g == [f EXCEPT !.pc = "calling"]
  <2>1. /\ f.op = "emit" /\ f.pc = "copy"
        /\ \/ Replace(t, g)
           \/ stack' = [stack EXCEPT ![t] = AfterEmit(@[2], Tail(Tail(@)))]
    BY <1>10 DEF EmitCopy, At
  <2>2. g \in Frame /\ g.op = "emit" /\ g.pc = "calling"
    BY <1>2, <2>1, MovedOn
  <2>4. Weight(g) = 1 /\ Weight(f) = 2
    BY <2>1, <2>2, EmitWeight
  <2>5. ~Emitter(g)
    BY <2>2 DEF Emitter
  <2>3. Weight(g) < Weight(f) /\ ~Emitter(g)
    BY <2>4, <2>5
  <2> QED  BY <2>1, <2>2, <2>3 DEF MovesOn, EmitEnds
<1>11. ASSUME CallbackReturns(t) \/ CallbackThrows(t)
       PROVE  \E n : EmitEnds(t, n)
  BY <1>11 DEF CallbackReturns, CallbackThrows, At, EmitEnds
<1> QED  BY <1>1, <1>3, <1>4, <1>5, <1>6, <1>7, <1>8, <1>9, <1>10, <1>11
     DEF Step

\* What EmitSseEvent leaves when it ends.
LEMMA EmitLeaves ==
  ASSUME IInv, NEW t \in Tasks, stack[t] # <<>>, NEW n, EmitEnds(t, n)
  PROVE  /\ n \in Seq(Frame)
         /\ n # <<>> => ~Emitter(Head(n))
<1>1. /\ stack[t] \in Seq(Frame) /\ Shape(stack[t])
      /\ Head(stack[t]).op = "emit"
  BY TopFacts DEF EmitEnds, Top
<1>2. /\ n \in Seq(Frame)
      /\ n # <<>> => \/ InUserCode(Head(n))
                     \/ Head(n).op = "emit" /\ Head(n).pc = "acquire"
  BY <1>1, AfterEmitFacts, AfterEmitThrewFacts DEF EmitEnds
<1> QED  BY <1>2 DEF InUserCode, Emitter

\* The step's own stack, frame by frame.
LEMMA StackAfter ==
  ASSUME IInv, NEW t \in Tasks, stack[t] # <<>>
  PROVE  /\ \A n : stack' = [stack EXCEPT ![t] = n] =>
                /\ stack'[t] = n
                /\ \A u \in Tasks \ {t} : stack'[u] = stack[u]
         /\ \A g : Replace(t, g) => stack' = [stack EXCEPT ![t] = <<g>> \o Tail(stack[t])]
         /\ Pop(t) => stack' = [stack EXCEPT ![t] = Tail(stack[t])]
         /\ \A g, e : CallEmit(t, g, e) =>
              stack' = [stack EXCEPT ![t] = <<Emit(e), g>> \o Tail(stack[t])]
<1>1. stack \in [Tasks -> Seq(Frame)]
  BY DEF IInv, TypeOK
<1> QED  BY <1>1 DEF Replace, Pop, CallEmit

\* What a step leaves on top goes on.
LEMMA StepStaysAwake ==
  ASSUME IInv, Awake, NEW t \in Tasks, Step(t) PROVE Awake'
<1>1. stack[t] # <<>>
  BY StepMoves
<1>2. /\ stack[t] \in Seq(Frame) /\ Shape(stack[t])
      /\ Tail(stack[t]) \in Seq(Frame) /\ Top(t) = Head(stack[t])
  BY <1>1, TopFacts
<1>3. SUFFICES ASSUME NEW n, stack' = [stack EXCEPT ![t] = n],
                      n # <<>> => ~Emitter(Head(n))
               PROVE  Awake'
  <2>1. ASSUME NEW g \in Frame, MovesOn(t, g) PROVE Awake'
    <3> DEFINE n == <<g>> \o Tail(stack[t])
    <3>1. stack' = [stack EXCEPT ![t] = n]
      BY <1>1, <2>1, StackAfter DEF MovesOn
    <3>2. Head(n) = g /\ ~Emitter(g)
      BY <1>2, <2>1, ConsFacts DEF MovesOn
    <3> HIDE DEF n
    <3> QED  BY <1>3, <3>1, <3>2
  <2>2. ASSUME Top(t).op # "emit", Pop(t) PROVE Awake'
    <3> DEFINE n == Tail(stack[t])
    <3>1. stack' = [stack EXCEPT ![t] = n]
      BY <1>1, <2>2, StackAfter
    <3>2. n # <<>> => ~Emitter(Head(n))
      BY <1>1, <1>2, <2>2, ShapeTail DEF WaitsFor, InUserCode, Emitter
    <3> HIDE DEF n
    <3> QED  BY <1>3, <3>1, <3>2
  <2>3. ASSUME NEW g \in Frame, NEW e \in Events, Emits(t, g, e) PROVE Awake'
    <3> DEFINE n == <<Emit(e), g>> \o Tail(stack[t])
    <3>1. stack' = [stack EXCEPT ![t] = n]
      BY <1>1, <2>3, StackAfter DEF Emits
    <3>2. Emit(e) \in Frame /\ Emit(e).op = "emit"
      BY EmitType
    <3>3. Head(n) = Emit(e)
      <4> DEFINE h == Emit(e)
      <4>1. h \in Frame
        BY <3>2
      <4> HIDE DEF h
      <4>2. Head(<<h, g>> \o Tail(stack[t])) = h
        BY <1>2, <4>1
      <4> QED  BY <4>2 DEF h
    <3>4. ~Emitter(Head(n))
      BY <3>2, <3>3 DEF Emitter
    <3> HIDE DEF n
    <3> QED  BY <1>3, <3>1, <3>4
  <2>4. ASSUME NEW n, EmitEnds(t, n) PROVE Awake'
    BY <1>1, <1>3, <2>4, EmitLeaves DEF EmitEnds
  <2> QED  BY <2>1, <2>2, <2>3, <2>4, StepMoves
<1>4. stack'[t] = n /\ \A u \in Tasks \ {t} : stack'[u] = stack[u]
  BY <1>1, <1>3, StackAfter
<1> QED  BY <1>3, <1>4, StaysAwake

\* The innermost function always goes on.
LEMMA NextStaysAwake == IInv /\ Awake /\ [Next]_vars => Awake'
<1> SUFFICES ASSUME IInv, Awake, [Next]_vars PROVE Awake'
  OBVIOUS
<1>1. ASSUME NEW t \in Tasks, Use(t) \/ Step(t) PROVE Awake'
  BY <1>1, UseStaysAwake, StepStaysAwake
<1>2. CASE UNCHANGED vars \/ Quiescent
  BY <1>2 DEF Quiescent, vars, Awake, Top
<1> QED  BY <1>1, <1>2 DEF Next

\* Whoever holds a mutex is about to leave its critical section.
LEMMA HolderMoves ==
  ASSUME IInv, NEW u \in Tasks
  PROVE  /\ \A k \in Kinds : writer[k] = u \/ u \in readers[k] => CanStep(u)
         /\ sseOwner = u => CanStep(u)
<1>1. ASSUME NEW k \in Kinds, writer[k] = u PROVE CanStep(u)
  <2>1. InW(stack[u], k)
    BY <1>1 DEF IInv, LockInv
  <2> QED  BY <2>1 DEF InW, Writing, CanStep, At, Top
<1>2. ASSUME NEW k \in Kinds, u \in readers[k] PROVE CanStep(u)
  <2>1. InR(stack[u], k)
    BY <1>2 DEF IInv, LockInv
  <2> QED  BY <2>1 DEF InR, Reading, CanStep, At, Top
<1>3. ASSUME sseOwner = u PROVE CanStep(u)
  <2>1. InC(stack[u])
    BY <1>3 DEF IInv, LockInv
  <2> QED  BY <2>1 DEF InC, Copying, CanStep, At, Top
<1> QED  BY <1>1, <1>2, <1>3

\* A task with an operation in progress can make a step of it, or waits for
\* a mutex whose holder can.
SomebodyCanStep ==
  \A t \in Tasks : stack[t] # <<>> =>
    \/ CanStep(t)
    \/ \E u \in Tasks : WaitsOn(t, u) /\ CanStep(u)

\* There is no deadlock, and no chain of waiting tasks: a task with an
\* operation in progress can make a step of it, or waits for a mutex whose
\* holder can, whatever user code calls and however tasks interleave
\* (mcp_server.cpp:30-215).
THEOREM HoldersGoOn == Spec => []SomebodyCanStep
<1>1. Init => Awake
  BY DEF Init, Awake
<1>2. ASSUME IInv, Awake, NEW t \in Tasks, stack[t] # <<>>
      PROVE  CanStep(t) \/ \E u \in Tasks : WaitsOn(t, u) /\ CanStep(u)
  <2> DEFINE f == Top(t)
  <2>1. f \in Frame /\ ~Emitter(f)
    BY <1>2, TopFacts DEF Awake
  <2>2. \A o, p : f.op = o /\ f.pc = p => At(t, o, p)
    BY <1>2 DEF At
  <2>3. /\ writer \in [Kinds -> Tasks \union {None}]
        /\ readers \in [Kinds -> SUBSET Tasks]
        /\ sseOwner \in Tasks \union {None}
    BY <1>2 DEF IInv, TypeOK
  <2>4. CASE f.op = "register"
    <3>1. f.kind \in Kinds /\ f.pc \in {"acquire", "meta", "impl"}
      BY <2>1, <2>4, FrameCases DEF RegisterFrame, Emitter
    <3>2. CASE f.pc \in {"meta", "impl"}
      BY <2>2, <2>4, <3>2 DEF CanStep
    <3>3. CASE f.pc = "acquire"
      <4>1. At(t, "register", "acquire")
        BY <2>2, <2>4, <3>3
      <4>2. CASE writer[f.kind] = None /\ readers[f.kind] = {}
        BY <4>1, <4>2 DEF CanStep
      <4>3. CASE writer[f.kind] # None
        <5>1. PICK u \in Tasks : writer[f.kind] = u
          BY <2>3, <3>1, <4>3
        <5> QED  BY <1>2, <3>1, <4>1, <5>1, HolderMoves DEF WaitsOn
      <4>4. CASE readers[f.kind] # {}
        <5>1. PICK u \in Tasks : u \in readers[f.kind]
          BY <2>3, <3>1, <4>4
        <5> QED  BY <1>2, <3>1, <4>1, <5>1, HolderMoves DEF WaitsOn
      <4> QED  BY <4>2, <4>3, <4>4
    <3> QED  BY <3>1, <3>2, <3>3
  <2>5. CASE f.op \in {"list", "call"}
    <3>1. /\ f.kind \in Kinds
          /\ \/ f.pc \in {"acquire", "inside"}
             \/ f.op = "call" /\ f.pc = "running"
      <4> HIDE DEF f
      <4>1. CASE f.op = "list"
        <5>1. f \in ListFrame
          BY <2>1, <4>1, FrameCases
        <5> QED  BY <5>1 DEF ListFrame
      <4>2. CASE f.op = "call"
        <5>1. f \in CallFrame
          BY <2>1, <4>2, FrameCases
        <5>2. f.kind \in Kinds
          BY <5>1 DEF CallFrame
        <5>3. f.pc \in {"acquire", "inside", "running"}
          BY <2>1, <4>2, <5>1 DEF CallFrame, Emitter
        <5> QED  BY <4>2, <5>2, <5>3
      <4> QED  BY <2>5, <4>1, <4>2
    <3>2. CASE f.pc # "acquire"
      BY <2>2, <2>5, <3>1, <3>2 DEF CanStep
    <3>3. CASE f.pc = "acquire"
      <4>1. At(t, "list", "acquire") \/ At(t, "call", "acquire")
        BY <2>2, <2>5, <3>3
      <4>2. CASE writer[f.kind] = None
        BY <4>1, <4>2 DEF CanStep
      <4>3. CASE writer[f.kind] # None
        <5>1. PICK u \in Tasks : writer[f.kind] = u
          BY <2>3, <3>1, <4>3
        <5> QED  BY <1>2, <3>1, <4>1, <5>1, HolderMoves DEF WaitsOn
      <4> QED  BY <4>2, <4>3
    <3> QED  BY <3>2, <3>3
  <2>6. CASE f.op = "emit"
    <3>1. f.pc \in {"acquire", "copy", "calling"}
      BY <2>1, <2>6, FrameCases DEF EmitFrame
    <3>2. CASE f.pc \in {"copy", "calling"}
      BY <2>2, <2>6, <3>2 DEF CanStep
    <3>3. CASE f.pc = "acquire"
      <4>1. At(t, "emit", "acquire")
        BY <2>2, <2>6, <3>3
      <4>2. CASE sseOwner = None
        BY <4>1, <4>2 DEF CanStep
      <4>3. CASE sseOwner # None
        <5>1. PICK u \in Tasks : sseOwner = u
          BY <2>3, <4>3
        <5> QED  BY <1>2, <4>1, <5>1, HolderMoves DEF WaitsOn
      <4> QED  BY <4>2, <4>3
    <3> QED  BY <3>1, <3>2, <3>3
  <2> QED  BY <2>1, <2>4, <2>5, <2>6
       DEF Frame, RegisterFrame, ListFrame, CallFrame, EmitFrame
<1>3. IInv /\ Awake => SomebodyCanStep
  BY <1>2 DEF SomebodyCanStep
<1> QED  BY <1>1, <1>3, NextStaysAwake, Inductive, PTL DEF Spec

-------------------------------------------------------------------------------
(* Sums over the frames of a stack, from the outermost.                    *)

\* A set that has 0, and with each number the next, has every number.
LEMMA Upward ==
  ASSUME NEW T, 0 \in T, \A n \in Nat : n \in T => n + 1 \in T
  PROVE  Nat \subseteq T
<1> DEFINE Missing == Nat \ T  Less == OpToRel(<, Nat)
<1> SUFFICES ASSUME Missing # {} PROVE FALSE
  OBVIOUS
<1>1. \A x, y \in Nat : y < x => <<y, x>> \in Less
  BY DEF OpToRel
<1>2. IsWellFoundedOn(Less, Nat)
  BY NatLessThanWellFounded
<1> HIDE DEF Less
<1>3. PICK n \in Missing : \A m \in Missing : ~ (<<m, n>> \in Less)
  BY <1>2, WFMin
<1>4. n # 0 /\ n \in Nat
  OBVIOUS
<1>5. n - 1 \in Nat /\ n - 1 < n /\ (n - 1) + 1 = n
  BY <1>4
<1>6. n - 1 \notin Missing
  BY <1>1, <1>3, <1>4, <1>5
<1> QED  BY <1>5, <1>6

\* T[n] is the sum of the first n of the m numbers w.
Totals(T, w, m) ==
  /\ T \in [0 .. m -> Nat]
  /\ T[0] = 0
  /\ \A n \in 1 .. m : T[n] = T[n - 1] + w[n]

\* Any numbers have sums.
LEMMA SomeTotals ==
  ASSUME NEW m \in Nat, NEW w \in [1 .. m -> Nat]
  PROVE  \E T : Totals(T, w, m)
<1> DEFINE U == {k \in Nat : k <= m => \E T : Totals(T, w, k)}
<1>1. 0 \in U
  <2>1. Totals([n \in 0 .. 0 |-> 0], w, 0)
    BY DEF Totals
  <2> QED  BY <2>1
<1>2. ASSUME NEW k \in Nat, k \in U PROVE k + 1 \in U
  <2> SUFFICES ASSUME k + 1 <= m PROVE \E T : Totals(T, w, k + 1)
    OBVIOUS
  <2>1. PICK T : Totals(T, w, k)
    BY <1>2
  <2> DEFINE V == [n \in 0 .. k + 1 |->
                     IF n = k + 1 THEN T[k] + w[k + 1] ELSE T[n]]
  <2>2. T[k] \in Nat /\ w[k + 1] \in Nat
    BY <2>1 DEF Totals
  <2>3. V \in [0 .. k + 1 -> Nat]
    BY <2>1, <2>2 DEF Totals
  <2>4. V[0] = 0
    BY <2>1 DEF Totals
  <2>5. ASSUME NEW n \in 1 .. k + 1 PROVE V[n] = V[n - 1] + w[n]
    <3>1. CASE n = k + 1
      <4>1. n - 1 = k /\ k \in 0 .. k + 1 /\ k # k + 1
        BY <3>1
      <4> QED  BY <3>1, <4>1
    <3>2. CASE n # k + 1
      <4>1. n \in 1 .. k /\ n - 1 \in 0 .. k + 1 /\ n - 1 # k + 1
        BY <3>2
      <4>2. V[n] = T[n] /\ V[n - 1] = T[n - 1]
        BY <3>2, <4>1
      <4> QED  BY <2>1, <4>1, <4>2 DEF Totals
    <3> QED  BY <3>1, <3>2
  <2> HIDE DEF V
  <2> QED  BY <2>3, <2>4, <2>5 DEF Totals
<1> HIDE DEF U
<1>3. m \in U
  BY <1>1, <1>2, Upward
<1> QED  BY <1>3 DEF U

\* The sums of the same numbers are the same.
LEMMA SameTotals ==
  ASSUME NEW m \in Nat, NEW T, NEW V, NEW w, NEW v, Totals(T, w, m), V[0] = 0,
         \A n \in 1 .. m : V[n] = V[n - 1] + v[n] /\ v[n] = w[n]
  PROVE  \A n \in 0 .. m : V[n] = T[n]
<1> DEFINE U == {k \in Nat : k <= m => V[k] = T[k]}
<1>1. 0 \in U
  BY DEF Totals
<1>2. ASSUME NEW k \in Nat, k \in U PROVE k + 1 \in U
  <2> SUFFICES ASSUME k + 1 <= m PROVE V[k + 1] = T[k + 1]
    OBVIOUS
  <2>1. k + 1 \in 1 .. m /\ (k + 1) - 1 = k
    OBVIOUS
  <2>2. V[k + 1] = V[k] + v[k + 1] /\ v[k + 1] = w[k + 1]
    BY <2>1
  <2>3. T[k + 1] = T[k] + w[k + 1]
    BY <2>1 DEF Totals
  <2>4. V[k] = T[k]
    BY <1>2
  <2> QED  BY <2>2, <2>3, <2>4
<1> HIDE DEF U
<1>3. Nat \subseteq U
  BY <1>1, <1>2, Upward
<1> QED  BY <1>3 DEF U

\* The steps ahead of all the functions in progress of a task.
Effort(s) ==
  LET total[n \in 0 .. Len(s)] ==
        IF n = 0 THEN 0 ELSE total[n - 1] + Weight(s[Len(s) - n + 1])
  IN  total[Len(s)]

\* The weights of the frames of s, from the outermost.
Outermost(s) == [n \in 1 .. Len(s) |-> Weight(s[Len(s) - n + 1])]

\* The weights are numbers.
LEMMA OutermostType ==
  ASSUME NEW s \in Seq(Frame)
  PROVE  Outermost(s) \in [1 .. Len(s) -> Nat] /\ Len(s) \in Nat
<1>1. Len(s) \in Nat /\ \A i \in 1 .. Len(s) : s[i] \in Frame
  OBVIOUS
<1>2. ASSUME NEW n \in 1 .. Len(s) PROVE Weight(s[Len(s) - n + 1]) \in Nat
  <2>1. Len(s) - n + 1 \in 1 .. Len(s)
    BY <1>1
  <2>2. s[Len(s) - n + 1] \in Frame
    BY <1>1, <2>1
  <2>3. Weight(s[Len(s) - n + 1]) \in 1 .. 13
    BY <2>2, WeightBounds
  <2> QED  BY <2>3
<1> QED  BY <1>1, <1>2 DEF Outermost

\* Effort adds them up.
LEMMA EffortTotals ==
  ASSUME NEW s \in Seq(Frame), NEW T, Totals(T, Outermost(s), Len(s))
  PROVE  Effort(s) = T[Len(s)] /\ Effort(s) \in Nat
<1> DEFINE Sums(h) ==
             h = [n \in 0 .. Len(s) |->
                    IF n = 0 THEN 0 ELSE h[n - 1] + Weight(s[Len(s) - n + 1])]
           total == CHOOSE h : Sums(h)
<1>1. Len(s) \in Nat
  OBVIOUS
<1>2. Sums(T)
  <2>1. \A n \in 1 .. Len(s) : T[n] = T[n - 1] + Weight(s[Len(s) - n + 1])
    BY DEF Totals, Outermost
  <2> HIDE DEF Weight
  <2> QED  BY <1>1, <2>1 DEF Totals
<1>3. Sums(total)
  BY <1>2
<1>4. Effort(s) = total[Len(s)]
  BY DEF Effort
<1> HIDE DEF total
<1>5. total[0] = 0
  BY <1>1, <1>3
<1>6. ASSUME NEW n \in 1 .. Len(s)
      PROVE  total[n] = total[n - 1] + Outermost(s)[n]
  <2>1. n \in 0 .. Len(s) /\ n # 0
    BY <1>1
  <2>2. total[n] = total[n - 1] + Weight(s[Len(s) - n + 1])
    BY <1>3, <2>1
  <2> QED  BY <2>2 DEF Outermost
<1> HIDE DEF Sums
<1>7. \A n \in 0 .. Len(s) : total[n] = T[n]
  BY <1>1, <1>5, <1>6, SameTotals
<1>8. T[Len(s)] \in Nat
  BY <1>1 DEF Totals
<1> QED  BY <1>1, <1>4, <1>7, <1>8

LEMMA EffortType == ASSUME NEW s \in Seq(Frame) PROVE Effort(s) \in Nat
BY SomeTotals, OutermostType, EffortTotals

\* A frame more.
LEMMA EffortCons ==
  ASSUME NEW s \in Seq(Frame), NEW f \in Frame
  PROVE  /\ Effort(<<f>> \o s) = Weight(f) + Effort(s)
         /\ Effort(s) \in Nat /\ Weight(f) \in 1 .. 13
<1> DEFINE c == <<f>> \o s
<1>1. /\ c \in Seq(Frame) /\ Len(c) = Len(s) + 1 /\ c[1] = f
      /\ Len(s) \in Nat
      /\ \A i \in 2 .. Len(c) : c[i] = s[i - 1]
  BY ConsFacts
<1>2. PICK S : Totals(S, Outermost(s), Len(s))
  BY OutermostType, SomeTotals
<1>3. PICK T : Totals(T, Outermost(c), Len(c))
  BY <1>1, OutermostType, SomeTotals
<1>4. Effort(s) = S[Len(s)] /\ Effort(c) = T[Len(c)] /\ Effort(s) \in Nat
  BY <1>1, <1>2, <1>3, EffortTotals
<1> HIDE DEF c
<1>5. ASSUME NEW n \in 1 .. Len(s)
      PROVE  T[n] = T[n - 1] + Outermost(c)[n] /\ Outermost(c)[n] = Outermost(s)[n]
  <2>1. n \in 1 .. Len(c)
    BY <1>1
  <2>2. T[n] = T[n - 1] + Outermost(c)[n]
    BY <1>3, <2>1 DEF Totals
  <2>3. /\ Len(c) - n + 1 \in 2 .. Len(c)
        /\ (Len(c) - n + 1) - 1 = Len(s) - n + 1
    BY <1>1
  <2>4. c[Len(c) - n + 1] = s[Len(s) - n + 1]
    BY <1>1, <2>3
  <2> QED  BY <2>1, <2>2, <2>4 DEF Outermost
<1>6. T[0] = 0
  BY <1>3 DEF Totals
<1>7. \A n \in 0 .. Len(s) : T[n] = S[n]
  BY <1>1, <1>2, <1>5, <1>6, SameTotals
<1>8. T[Len(s)] = S[Len(s)]
  BY <1>1, <1>7
<1>9. T[Len(c)] = T[Len(s)] + Outermost(c)[Len(c)]
  <2>1. Len(c) \in 1 .. Len(c) /\ Len(c) - 1 = Len(s)
    BY <1>1
  <2> QED  BY <1>3, <2>1 DEF Totals
<1>10. Outermost(c)[Len(c)] = Weight(f)
  <2>1. Len(c) \in 1 .. Len(c) /\ Len(c) - Len(c) + 1 = 1
    BY <1>1
  <2> QED  BY <1>1, <2>1 DEF Outermost
<1>11. Weight(f) \in 1 .. 13
  BY WeightBounds
<1>12. Effort(c) = Effort(s) + Weight(f)
  BY <1>4, <1>8, <1>9, <1>10
<1>13. Effort(c) = Weight(f) + Effort(s)
  BY <1>4, <1>11, <1>12
<1> QED  BY <1>4, <1>11, <1>13 DEF c

\* A stack is its innermost frame and the rest.
LEMMA EffortTop ==
  ASSUME NEW s \in Seq(Frame), s # <<>>
  PROVE  /\ Effort(s) = Weight(Head(s)) + Effort(Tail(s))
         /\ Effort(Tail(s)) \in Nat /\ Weight(Head(s)) \in 1 .. 13
<1>1. /\ Head(s) \in Frame /\ Tail(s) \in Seq(Frame)
      /\ s = <<Head(s)>> \o Tail(s)
  OBVIOUS
<1> DEFINE f == Head(s)  r == Tail(s)
<1>2. /\ Effort(<<f>> \o r) = Weight(f) + Effort(r)
      /\ Effort(r) \in Nat /\ Weight(f) \in 1 .. 13
  BY <1>1, EffortCons
<1> QED  BY <1>1, <1>2

\* EmitSseEvent ends: its frame and its caller's become less.
LEMMA EmitEndsEffort ==
  ASSUME NEW s \in Seq(Frame), Shape(s), s # <<>>, Head(s).op = "emit", NEW n,
         \/ n = AfterEmit(s[2], Tail(Tail(s)))
         \/ /\ Head(s).pc = "calling"
            /\ n = AfterEmitThrew(s[2], Tail(Tail(s)))
  PROVE  Effort(n) < Effort(s)
<1> DEFINE f == Head(s)  g == s[2]  r == Tail(s)  d == Tail(r)
<1>1. /\ g \in Frame /\ g.op # "emit" /\ Emitter(g) /\ Head(r) = g
      /\ r \in Seq(Frame) /\ r # <<>> /\ d \in Seq(Frame)
  BY EmitterBelow
<1>2. /\ Effort(s) = Weight(f) + Effort(r) /\ Effort(r) = Weight(g) + Effort(d)
      /\ Effort(d) \in Nat /\ Weight(f) \in 1 .. 13 /\ Weight(g) \in 1 .. 13
  BY <1>1, EffortTop
<1>3. CASE n = d
  <2> HIDE DEF f, g, r, d
  <2>1. Effort(s) = Weight(f) + (Weight(g) + Effort(d))
    BY <1>2
  <2>2. \A a \in Nat, b, c \in 1 .. 13 : a < b + (c + a)
    OBVIOUS
  <2>3. Effort(d) < Weight(f) + (Weight(g) + Effort(d))
    BY <1>2, <2>2
  <2> QED  BY <1>3, <2>1, <2>3
<1>4. CASE n = AfterEmit(g, d) /\ g.op = "call" /\ g.pc = "starting"
  <2> DEFINE h == [g EXCEPT !.pc = "running"]
  <2>1. h \in Frame /\ h.op = "call" /\ h.pc = "running"
    BY <1>1, <1>4, MovedOn
  <2>2. n = <<h>> \o d
    BY <1>4 DEF AfterEmit
  <2> HIDE DEF h, d
  <2>3. Weight(h) = 8 /\ Weight(g) = 8
    BY <1>4, <2>1, CallWeight
  <2>4. Effort(n) = Weight(h) + Effort(d)
    BY <1>1, <2>1, <2>2, EffortCons
  <2> QED  BY <1>2, <2>3, <2>4
<1>5. CASE /\ f.pc = "calling" /\ n = AfterEmitThrew(g, d)
           /\ g.op = "call" /\ g.pc = "ending"
  <2> DEFINE h == [g EXCEPT !.pc = "erring"]  e == Emit("tool_call_error")
             k == <<h>> \o d
  <2>1. h \in Frame /\ h.op = "call" /\ h.pc = "erring"
    BY <1>1, <1>5, MovedOn
  <2>2. e \in Frame /\ e.op = "emit" /\ e.pc = "acquire"
    BY EmitType DEF Events
  <2>3. n = <<e, h>> \o d
    BY <1>5 DEF AfterEmitThrew
  <2> HIDE DEF h, d, e
  <2>4. n = <<e>> \o k /\ k \in Seq(Frame)
    BY <1>1, <2>1, <2>2, <2>3
  <2>5. Weight(h) = 1 /\ Weight(g) = 4 /\ Weight(f) = 1 /\ Weight(e) = 3
    BY <1>5, <2>1, <2>2, CallWeight, EmitWeight
  <2>6. Effort(k) = Weight(h) + Effort(d)
    BY <1>1, <2>1, EffortCons
  <2> HIDE DEF k
  <2>7. Effort(n) = Weight(e) + Effort(k)
    BY <2>2, <2>4, EffortCons
  <2> QED  BY <1>2, <2>5, <2>6, <2>7
<1> QED  BY <1>3, <1>4, <1>5 DEF AfterEmit, AfterEmitThrew

\* A step of an operation in progress leaves its task less to do.
LEMMA StepEffort ==
  ASSUME IInv, NEW t \in Tasks, Step(t)
  PROVE  Effort(stack'[t]) < Effort(stack[t])
<1> DEFINE s == stack[t]  f == Top(t)  r == Tail(s)
<1>1. s # <<>>
  BY StepMoves
<1>2. /\ s \in Seq(Frame) /\ Shape(s) /\ r \in Seq(Frame) /\ f = Head(s)
  BY <1>1, TopFacts
<1>3. Effort(s) = Weight(f) + Effort(r) /\ Effort(r) \in Nat /\ Weight(f) \in 1 .. 13
  BY <1>1, <1>2, EffortTop
<1>4. ASSUME NEW g \in Frame, MovesOn(t, g) PROVE Effort(stack'[t]) < Effort(s)
  <2>1. stack'[t] = <<g>> \o r /\ Weight(g) < Weight(f)
    BY <1>1, <1>4, StackAfter DEF MovesOn
  <2> HIDE DEF r, s, f
  <2>2. Effort(<<g>> \o r) = Weight(g) + Effort(r) /\ Weight(g) \in 1 .. 13
    BY <1>2, EffortCons
  <2>3. \A a \in Nat, b, c \in 1 .. 13 : c < b => c + a < b + a
    OBVIOUS
  <2>4. Weight(g) + Effort(r) < Weight(f) + Effort(r)
    BY <1>3, <2>1, <2>2, <2>3
  <2>5. Effort(stack'[t]) = Weight(g) + Effort(r)
    BY <2>1, <2>2
  <2> QED  BY <1>3, <2>4, <2>5
<1>5. ASSUME Pop(t) PROVE Effort(stack'[t]) < Effort(s)
  <2>1. stack'[t] = r
    BY <1>1, <1>5, StackAfter
  <2> HIDE DEF r, s, f
  <2> QED  BY <1>3, <2>1
<1>6. ASSUME NEW g \in Frame, NEW e \in Events, Emits(t, g, e)
      PROVE  Effort(stack'[t]) < Effort(s)
  <2> DEFINE k == <<g>> \o r  h == Emit(e)
  <2>6. stack' = [stack EXCEPT ![t] = <<Emit(e), g>> \o Tail(stack[t])]
    BY <1>1, <1>6, StackAfter DEF Emits
  <2>7. stack'[t] = <<Emit(e), g>> \o Tail(stack[t])
    BY <1>1, <2>6, StackAfter
  <2>8. Weight(g) + 3 < Weight(f)
    BY <1>6 DEF Emits
  <2>1. stack'[t] = <<h, g>> \o r /\ Weight(g) + 3 < Weight(f)
    BY <2>7, <2>8
  <2>2. h \in Frame /\ h.op = "emit" /\ h.pc = "acquire"
    BY EmitType
  <2> HIDE DEF r, s, f, h
  <2>3. stack'[t] = <<h>> \o k /\ k \in Seq(Frame)
    BY <1>2, <2>1, <2>2
  <2>4. Effort(k) = Weight(g) + Effort(r) /\ Weight(g) \in 1 .. 13
    BY <1>2, EffortCons
  <2> HIDE DEF k
  <2>5. Effort(stack'[t]) = Weight(h) + Effort(k) /\ Weight(h) = 3
    BY <2>2, <2>3, EffortCons, EmitWeight
  <2>9. \A a \in Nat, b, c \in 1 .. 13 : c + 3 < b => 3 + (c + a) < b + a
    OBVIOUS
  <2>10. 3 + (Weight(g) + Effort(r)) < Weight(f) + Effort(r)
    BY <1>3, <2>1, <2>4, <2>9
  <2>11. Effort(stack'[t]) = 3 + (Weight(g) + Effort(r))
    BY <2>4, <2>5
  <2> QED  BY <1>3, <2>10, <2>11
<1>7. ASSUME NEW n, EmitEnds(t, n) PROVE Effort(stack'[t]) < Effort(s)
  <2>1. stack'[t] = n
    BY <1>1, <1>7, StackAfter DEF EmitEnds
  <2>2. Effort(n) < Effort(s)
    BY <1>1, <1>2, <1>7, EmitEndsEffort DEF EmitEnds
  <2> QED  BY <2>1, <2>2
<1> QED  BY <1>4, <1>5, <1>6, <1>7, StepMoves

\* Every step of an operation in progress leaves its task less to do, and an
\* operation that begins, of a user or inside user code, adds 13 at most: a
\* task makes no more than 13 steps for each of its operations, its events
\* and their failing callbacks included (mcp_server.cpp:30-215).
THEOREM OperationsAreShort ==
  Spec => /\ [](\A t \in Tasks : Effort(stack[t]) \in Nat)
          /\ [][\A t \in Tasks :
                  /\ Step(t) => Effort(stack'[t]) < Effort(stack[t])
                  /\ Use(t) => Effort(stack'[t]) <= Effort(stack[t]) + 13]_vars
<1>1. ASSUME IInv, NEW t \in Tasks, Use(t)
      PROVE  Effort(stack'[t]) <= Effort(stack[t]) + 13
  <2> DEFINE s == stack[t]
  <2>1. s \in Seq(Frame) /\ stack \in [Tasks -> Seq(Frame)]
    BY <1>1 DEF IInv, TypeOK
  <2>2. ASSUME NEW f \in Frame, Begin(t, f)
        PROVE  Effort(stack'[t]) <= Effort(s) + 13
    <3>1. stack'[t] = <<f>> \o s
      BY <2>1, <2>2 DEF Begin
    <3> HIDE DEF s
    <3>2. /\ Effort(<<f>> \o s) = Weight(f) + Effort(s)
          /\ Effort(s) \in Nat /\ Weight(f) \in 1 .. 13
      BY <2>1, EffortCons
    <3> QED  BY <3>1, <3>2
  <2>3. CASE BeginRegister(t)
    <3>1. PICK k \in Kinds, n \in Names, r \in Regs :
            Begin(t, [op |-> "register", kind |-> k, name |-> n, reg |-> r,
                      pc |-> "acquire"])
      BY <2>3 DEF BeginRegister
    <3>2. [op |-> "register", kind |-> k, name |-> n, reg |-> r,
           pc |-> "acquire"] \in Frame
      BY DEF Frame, RegisterFrame
    <3> QED  BY <2>2, <3>1, <3>2
  <2>4. CASE BeginList(t)
    <3>1. PICK k \in Kinds :
            Begin(t, [op |-> "list", kind |-> k, pc |-> "acquire"])
      BY <2>4 DEF BeginList
    <3>2. [op |-> "list", kind |-> k, pc |-> "acquire"] \in Frame
      BY DEF Frame, ListFrame
    <3> QED  BY <2>2, <3>1, <3>2
  <2>5. CASE BeginCall(t)
    <3>1. PICK k \in Kinds, n \in Names :
            Begin(t, [op |-> "call", kind |-> k, name |-> n, pc |-> "acquire"])
      BY <2>5 DEF BeginCall
    <3>2. [op |-> "call", kind |-> k, name |-> n, pc |-> "acquire"] \in Frame
      BY DEF Frame, CallFrame
    <3> QED  BY <2>2, <3>1, <3>2
  <2>6. CASE SetSseCallback(t)
    <3>1. stack'[t] = s
      BY <2>6 DEF SetSseCallback
    <3>2. Effort(s) \in Nat
      BY <2>1, EffortType
    <3> QED  BY <3>1, <3>2
  <2> QED  BY <1>1, <2>3, <2>4, <2>5, <2>6 DEF Use
<1>2. IInv /\ [Next]_vars =>
        [\A t \in Tasks :
           /\ Step(t) => Effort(stack'[t]) < Effort(stack[t])
           /\ Use(t) => Effort(stack'[t]) <= Effort(stack[t]) + 13]_vars
  BY <1>1, StepEffort
<1>3. IInv => \A t \in Tasks : Effort(stack[t]) \in Nat
  BY EffortType DEF IInv, TypeOK
<1> QED  BY <1>2, <1>3, Inductive, PTL DEF Spec
===============================================================================
