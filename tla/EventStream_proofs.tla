---------------------------- MODULE EventStream_proofs ----------------------------
(***************************************************************************)
(* Proofs about EventStream, for any number of calls and streams.  The     *)
(* inductive invariant says that the queue and every batch are in order of *)
(* publication, that what has been drained is older than what is queued,   *)
(* and that no event is at two places.                                     *)
(***************************************************************************)
EXTENDS EventStream, SequenceTheorems, FiniteSetTheorems, TLAPS

Increasing(q) == \A i, j \in 1 .. Len(q) : i < j => q[i] < q[j]
Older(A, B) == \A a \in A, b \in B : a < b

Queued == Elements(queue)
Batch(s) == Elements(batch[s])
Received(s) == Elements(received[s])

Types ==
  /\ phase \in [Calls -> {"new", "running", "returned", "replied"}]
  /\ log \in Seq(Event)
  /\ queue \in Seq(Nat)
  /\ pc \in [Streams -> {"closed", "check", "drain", "send", "ended"}]
  /\ batch \in [Streams -> Seq(Nat)]
  /\ alive \in [Streams -> BOOLEAN]
  /\ received \in [Streams -> Seq(Nat)]

\* Only what was pushed is anywhere, and what was pushed is somewhere.
Complete ==
  \A k \in Nat :
    k \in Positions <=> \/ k \in Queued
                        \/ k \in lost
                        \/ \E s \in Streams : k \in Batch(s)
                        \/ \E s \in Streams : k \in Received(s)

Ordered ==
  /\ Increasing(queue)
  /\ \A s \in Streams :
       /\ Increasing(batch[s])
       /\ Older(Received(s), Batch(s))
       /\ Older(Received(s), Queued)
       /\ Older(Batch(s), Queued)
  /\ lost \subseteq Nat /\ Older(lost, Queued)

Apart ==
  \A s \in Streams :
    /\ Batch(s) \intersect lost = {}
    /\ Received(s) \intersect lost = {}
    /\ \A t \in Streams \ {s} :
         /\ Batch(s) \intersect Batch(t) = {}
         /\ Batch(s) \intersect Received(t) = {}
         /\ Received(s) \intersect Received(t) = {}

Emptied == \A s \in Streams : pc[s] # "send" => batch[s] = <<>>

StreamInv == Types /\ Complete /\ Ordered /\ Apart /\ Emptied

-------------------------------------------------------------------------------
(* The elements of sequences.                                              *)

\* An empty sequence has none.
LEMMA NoElements ==
  /\ Elements(<<>>) = {}
  /\ Increasing(<<>>)
  /\ <<>> \in Seq(Nat)
BY EmptySeq DEF Elements, Increasing

\* Append adds one, which comes last if it is greater than the others.
LEMMA AppendElements ==
  ASSUME NEW q \in Seq(Nat), NEW k \in Nat
  PROVE  /\ Append(q, k) \in Seq(Nat)
         /\ Elements(Append(q, k)) = Elements(q) \union {k}
         /\ Increasing(q) /\ Older(Elements(q), {k}) => Increasing(Append(q, k))
<1> DEFINE r == Append(q, k)
<1>1. /\ Len(q) \in Nat /\ Len(r) = Len(q) + 1
      /\ r \in Seq(Nat) /\ r[Len(q) + 1] = k
      /\ \A i \in 1 .. Len(q) : r[i] = q[i]
      /\ DOMAIN q = 1 .. Len(q) /\ DOMAIN r = 1 .. Len(r)
  BY AppendProperties, LenProperties
<1> HIDE DEF r
<1>2. Elements(r) = Elements(q) \union {k}
  <2>1. ASSUME NEW x PROVE x \in Elements(r) <=> x \in Elements(q) \union {k}
    BY <1>1 DEF Elements
  <2> QED  BY <2>1
<1>3. ASSUME Increasing(q), Older(Elements(q), {k}) PROVE Increasing(r)
  <2> SUFFICES ASSUME NEW i \in 1 .. Len(r), NEW j \in 1 .. Len(r), i < j
               PROVE  r[i] < r[j]
    BY DEF Increasing
  <2>1. i \in 1 .. Len(q) /\ r[i] = q[i]
    BY <1>1
  <2>2. CASE j \in 1 .. Len(q)
    BY <1>1, <1>3, <2>1, <2>2 DEF Increasing
  <2>3. CASE j = Len(q) + 1
    <3>1. q[i] \in Elements(q)
      BY <1>1, <2>1 DEF Elements
    <3>2. q[i] < k
      BY <1>3, <3>1 DEF Older
    <3> QED  BY <1>1, <2>1, <2>3, <3>2
  <2>4. j \in 1 .. Len(q) \/ j = Len(q) + 1
    BY <1>1
  <2> QED  BY <2>2, <2>3, <2>4
<1> QED  BY <1>1, <1>2, <1>3 DEF r

\* A sequence in order has its least element in front.
LEMMA TailElements ==
  ASSUME NEW q \in Seq(Nat), q # <<>>, Increasing(q)
  PROVE  /\ Tail(q) \in Seq(Nat) /\ Head(q) \in Nat
         /\ Elements(q) = {Head(q)} \union Elements(Tail(q))
         /\ Increasing(Tail(q))
         /\ Older({Head(q)}, Elements(Tail(q)))
<1> DEFINE r == Tail(q)
<1>1. /\ Len(q) \in Nat \ {0} /\ Len(r) = Len(q) - 1
      /\ r \in Seq(Nat) /\ Head(q) = q[1] /\ Head(q) \in Nat
      /\ \A i \in 1 .. Len(r) : r[i] = q[i + 1]
      /\ DOMAIN q = 1 .. Len(q) /\ DOMAIN r = 1 .. Len(r)
  BY HeadTailProperties, LenProperties, EmptySeq, ElementOfSeq
<1> HIDE DEF r
<1>2. Elements(q) = {Head(q)} \union Elements(r)
  <2>1. ASSUME NEW i \in 1 .. Len(q)
        PROVE  q[i] \in {Head(q)} \union Elements(r)
    <3>1. CASE i = 1
      BY <1>1, <3>1
    <3>2. CASE i # 1
      <4>1. i - 1 \in DOMAIN r /\ r[i - 1] = q[i]
        BY <1>1, <3>2
      <4> QED  BY <4>1 DEF Elements
    <3> QED  BY <3>1, <3>2
  <2>2. ASSUME NEW i \in 1 .. Len(r) PROVE r[i] \in Elements(q)
    <3>1. i + 1 \in DOMAIN q /\ r[i] = q[i + 1]
      BY <1>1
    <3> QED  BY <3>1 DEF Elements
  <2>3. Head(q) \in Elements(q)
    BY <1>1 DEF Elements
  <2> QED  BY <1>1, <2>1, <2>2, <2>3 DEF Elements
<1>3. \A i \in 1 .. Len(r) : i + 1 \in 1 .. Len(q) /\ r[i] = q[i + 1]
  BY <1>1
<1>4. Increasing(r)
  <2> SUFFICES ASSUME NEW i \in 1 .. Len(r), NEW j \in 1 .. Len(r), i < j
               PROVE  r[i] < r[j]
    BY DEF Increasing
  <2>1. q[i + 1] < q[j + 1]
    BY <1>3 DEF Increasing
  <2> QED  BY <1>3, <2>1
<1>5. Older({Head(q)}, Elements(r))
  <2> SUFFICES ASSUME NEW i \in 1 .. Len(r) PROVE Head(q) < r[i]
    BY <1>1 DEF Older, Elements
  <2>1. 1 \in 1 .. Len(q) /\ 1 < i + 1
    BY <1>1
  <2>2. q[1] < q[i + 1]
    BY <1>3, <2>1 DEF Increasing
  <2> QED  BY <1>1, <1>3, <2>2
<1> QED  BY <1>1, <1>2, <1>4, <1>5 DEF r

-------------------------------------------------------------------------------
(* Steps.                                                                  *)

\* Nothing has been pushed.
LEMMA InitStream == Init => StreamInv
<1> SUFFICES ASSUME Init PROVE StreamInv
  OBVIOUS
<1>1. Types
  BY NoElements, EmptySeq DEF Init, Types
<1>2. /\ Queued = {} /\ lost = {} /\ Positions = {}
      /\ \A s \in Streams : Batch(s) = {} /\ Received(s) = {}
  BY NoElements, EmptySeq DEF Init, Queued, Batch, Received, Positions
<1>3. Increasing(queue) /\ \A s \in Streams : Increasing(batch[s])
  BY NoElements DEF Init
<1>4. Complete /\ Ordered /\ Apart
  BY <1>2, <1>3 DEF Complete, Ordered, Apart, Older
<1>5. Emptied
  BY DEF Init, Emptied
<1> QED  BY <1>1, <1>4, <1>5 DEF StreamInv

\* The members of the invariant as sets of numbers.
LEMMA Bounds ==
  ASSUME StreamInv
  PROVE  /\ Len(log) \in Nat /\ Queued \subseteq Positions
         /\ lost \subseteq Positions
         /\ \A s \in Streams :
              Batch(s) \subseteq Positions /\ Received(s) \subseteq Positions
<1>1. Len(log) \in Nat
  BY LenProperties DEF StreamInv, Types
<1>2. /\ Queued \subseteq Nat /\ lost \subseteq Nat
      /\ \A s \in Streams : Batch(s) \subseteq Nat /\ Received(s) \subseteq Nat
  BY ElementOfSeq, LenProperties
  DEF StreamInv, Types, Ordered, Queued, Batch, Received, Elements
<1> QED  BY <1>1, <1>2 DEF StreamInv, Complete

\* A push puts the newest event at the end of the queue.
LEMMA PushStep ==
  ASSUME StreamInv, NEW e \in Event, Push(e), UNCHANGED streams,
         phase' \in [Calls -> {"new", "running", "returned", "replied"}]
  PROVE  StreamInv'
<1> DEFINE k == Len(log) + 1
<1>1. k \in Nat /\ Positions' = Positions \union {k} /\ Len(log') = k
      /\ log' \in Seq(Event)
  BY Bounds, AppendProperties DEF StreamInv, Types, Push, Positions
<1>2. \A x \in Positions : x < k
  BY Bounds DEF Positions
<1>3. /\ queue' \in Seq(Nat) /\ Queued' = Queued \union {k}
      /\ Increasing(queue')
  <2>1. queue \in Seq(Nat) /\ Older(Elements(queue), {k}) /\ Increasing(queue)
    BY <1>2, Bounds DEF StreamInv, Types, Ordered, Older, Queued
  <2> QED  BY <1>1, <2>1, AppendElements DEF Push, Queued
<1>4. /\ UNCHANGED <<pc, batch, alive, received, lost>>
      /\ \A s \in Streams : Batch(s)' = Batch(s) /\ Received(s)' = Received(s)
  BY DEF streams, Batch, Received
<1> HIDE DEF k
<1>5. Types'
  BY <1>1, <1>3, <1>4 DEF StreamInv, Types
<1>6. Complete'
  BY <1>1, <1>3, <1>4 DEF StreamInv, Complete
<1>7. Ordered'
  <2>1. Older(lost, Queued') /\ lost \subseteq Nat
    BY <1>2, <1>3, Bounds DEF StreamInv, Ordered, Older
  <2>2. \A s \in Streams : Older(Received(s), Queued') /\ Older(Batch(s), Queued')
    BY <1>2, <1>3, Bounds DEF StreamInv, Ordered, Older
  <2> QED  BY <1>3, <1>4, <2>1, <2>2 DEF StreamInv, Ordered
<1>8. Apart'
  BY <1>4 DEF StreamInv, Apart
<1>9. Emptied'
  BY <1>4 DEF StreamInv, Emptied
<1> QED  BY <1>5, <1>6, <1>7, <1>8, <1>9 DEF StreamInv

\* A step that moves no event.
LEMMA QuietStep ==
  ASSUME StreamInv, UNCHANGED <<log, queue, batch, received, lost>>,
         Types', Emptied'
  PROVE  StreamInv'
<1>1. /\ UNCHANGED <<Queued, lost, Positions>>
      /\ \A s \in Streams : Batch(s)' = Batch(s) /\ Received(s)' = Received(s)
  BY DEF Queued, Positions, Batch, Received
<1>2. Complete'
  BY <1>1 DEF StreamInv, Complete
<1>3. Ordered'
  BY <1>1 DEF StreamInv, Ordered
<1>4. Apart'
  BY <1>1 DEF StreamInv, Apart
<1> QED  BY <1>2, <1>3, <1>4 DEF StreamInv

\* A call pushes one event or none.
LEMMA CallStep ==
  ASSUME StreamInv, NEW c \in Calls, Call(c)
  PROVE  StreamInv'
<1>1. /\ UNCHANGED streams
      /\ phase' \in [Calls -> {"new", "running", "returned", "replied"}]
  BY DEF StreamInv, Types, Call, StartTool, MissTool, FinishTool, Report,
         Advance
<1>2. (\E e \in Event : Push(e)) \/ UNCHANGED <<log, queue>>
  BY DEF Call, StartTool, MissTool, FinishTool, Report, Event, EventTypes
<1>3. CASE UNCHANGED <<log, queue>>
  <2>1. UNCHANGED <<log, queue, pc, batch, alive, received, lost>>
    BY <1>1, <1>3 DEF streams
  <2>2. Types' /\ Emptied'
    BY <1>1, <2>1 DEF StreamInv, Types, Emptied
  <2> QED  BY <2>1, <2>2, QuietStep
<1> QED  BY <1>1, <1>2, <1>3, PushStep

\* A drain moves the whole queue, which is newer than all that was drained
\* before, to a batch that was empty.
LEMMA TakeStep ==
  ASSUME StreamInv, NEW s \in Streams, Take(s)
  PROVE  StreamInv'
<1>1. /\ UNCHANGED <<phase, log, alive, received, lost>>
      /\ pc' = [pc EXCEPT ![s] = "send"]
      /\ batch' = [batch EXCEPT ![s] = queue]
      /\ queue' = <<>> /\ pc[s] = "drain"
  BY DEF Take, Drain, calls
<1>2. batch[s] = <<>> /\ Batch(s) = {}
  BY <1>1, NoElements DEF StreamInv, Emptied, Batch
<1>3. /\ Queued' = {} /\ Batch(s)' = Queued
      /\ Positions' = Positions /\ lost' = lost
      /\ \A t \in Streams \ {s} : Batch(t)' = Batch(t) /\ batch'[t] = batch[t]
      /\ \A t \in Streams : Received(t)' = Received(t)
      /\ batch'[s] = queue
  BY <1>1, NoElements
  DEF StreamInv, Types, Queued, Batch, Received, Positions
<1>4. Types'
  BY <1>1, NoElements DEF StreamInv, Types
<1>5. Complete'
  <2> SUFFICES ASSUME NEW k \in Nat
               PROVE  k \in Positions <=>
                        \/ k \in Queued' \/ k \in lost
                        \/ \E t \in Streams : k \in Batch(t)'
                        \/ \E t \in Streams : k \in Received(t)'
    BY <1>3 DEF Complete
  <2>1. (\E t \in Streams : k \in Batch(t)') <=>
          k \in Queued \/ \E t \in Streams : k \in Batch(t)
    BY <1>2, <1>3
  <2> QED  BY <1>3, <2>1 DEF StreamInv, Complete
<1>6. Ordered'
  <2>1. Increasing(queue') /\ \A t \in Streams : Increasing(batch'[t])
    BY <1>1, <1>3, NoElements DEF StreamInv, Ordered
  <2>2. \A t \in Streams :
          /\ Older(Received(t)', Batch(t)')
          /\ Older(Received(t)', Queued')
          /\ Older(Batch(t)', Queued')
    BY <1>3 DEF StreamInv, Ordered, Older
  <2>3. lost' \subseteq Nat /\ Older(lost', Queued')
    BY <1>3 DEF StreamInv, Ordered, Older
  <2> QED  BY <2>1, <2>2, <2>3 DEF Ordered
<1>7. Apart'
  <2>1. /\ Queued \intersect lost = {}
        /\ \A t \in Streams : /\ Queued \intersect Batch(t) = {}
                              /\ Queued \intersect Received(t) = {}
    BY Bounds DEF StreamInv, Ordered, Older, Positions
  <2> QED  BY <1>3, <2>1 DEF StreamInv, Apart
<1>8. Emptied'
  BY <1>1, <1>3 DEF StreamInv, Types, Emptied
<1> QED  BY <1>4, <1>5, <1>6, <1>7, <1>8 DEF StreamInv

\* A write takes the oldest event of the batch to the client, or it is lost.
LEMMA SendStep ==
  ASSUME StreamInv, NEW s \in Streams, Send(s)
  PROVE  StreamInv'
<1> DEFINE k == Head(batch[s])
<1>1. /\ UNCHANGED <<phase, log, queue, pc, alive>>
      /\ batch' = [batch EXCEPT ![s] = Tail(@)]
      /\ pc[s] = "send" /\ batch[s] # <<>>
      /\ \/ /\ received' = [received EXCEPT ![s] = Append(received[s], k)]
            /\ lost' = lost
         \/ lost' = lost \union {k} /\ received' = received
  BY DEF Send, calls, flags
<1>2. /\ batch[s] \in Seq(Nat) /\ Increasing(batch[s])
      /\ received[s] \in Seq(Nat)
  BY DEF StreamInv, Types, Ordered
<1>3. /\ batch'[s] \in Seq(Nat) /\ k \in Nat
      /\ Batch(s) = {k} \union Batch(s)' /\ Increasing(batch'[s])
      /\ Older({k}, Batch(s)')
  <2>1. batch'[s] = Tail(batch[s])
    BY <1>1 DEF StreamInv, Types
  <2> QED  BY <1>1, <1>2, <2>1, TailElements DEF Batch
<1>4. /\ \A t \in Streams \ {s} : Batch(t)' = Batch(t) /\ batch'[t] = batch[t]
      /\ Positions' = Positions /\ Queued' = Queued
  BY <1>1 DEF StreamInv, Types, Batch, Positions, Queued
<1> HIDE DEF k
<1>5. Emptied'
  BY <1>1, <1>4 DEF StreamInv, Emptied, Types
<1>6. CASE /\ received' = [received EXCEPT ![s] = Append(received[s], k)]
           /\ lost' = lost
  <2>1. /\ Received(s)' = Received(s) \union {k}
        /\ received'[s] \in Seq(Nat)
        /\ \A t \in Streams \ {s} :
             Received(t)' = Received(t) /\ received'[t] = received[t]
    <3> DEFINE new == Append(received[s], k)
    <3>1. new \in Seq(Nat) /\ Elements(new) = Received(s) \union {k}
      BY <1>2, <1>3, AppendElements DEF Received
    <3>2. received' = [received EXCEPT ![s] = new]
      BY <1>6
    <3> HIDE DEF new
    <3> QED  BY <3>1, <3>2 DEF StreamInv, Types, Received
  <2>2. Types'
    <3>1. batch' \in [Streams -> Seq(Nat)]
      BY <1>1, <1>3, <1>4 DEF StreamInv, Types
    <3>2. received' \in [Streams -> Seq(Nat)]
      BY <1>6, <2>1 DEF StreamInv, Types
    <3> QED  BY <1>1, <3>1, <3>2 DEF StreamInv, Types
  <2>3. Complete'
    <3> SUFFICES ASSUME NEW i \in Nat
                 PROVE  i \in Positions <=>
                          \/ i \in Queued \/ i \in lost
                          \/ \E t \in Streams : i \in Batch(t)'
                          \/ \E t \in Streams : i \in Received(t)'
      BY <1>4, <1>6 DEF Complete
    <3>1. (\E t \in Streams : i \in Batch(t)) <=>
            i = k \/ \E t \in Streams : i \in Batch(t)'
      BY <1>3, <1>4
    <3>2. (\E t \in Streams : i \in Received(t)') <=>
            i = k \/ \E t \in Streams : i \in Received(t)
      BY <2>1
    <3> QED  BY <3>1, <3>2 DEF StreamInv, Complete
  <2>4. Ordered'
    <3>1. \A t \in Streams : Increasing(batch'[t])
      BY <1>3, <1>4 DEF StreamInv, Ordered
    <3>2. \A t \in Streams : Older(Received(t)', Batch(t)')
      BY <1>3, <1>4, <2>1 DEF StreamInv, Ordered, Older
    <3>3. \A t \in Streams : Older(Received(t)', Queued)
      BY <1>3, <2>1 DEF StreamInv, Ordered, Older
    <3>4. \A t \in Streams : Older(Batch(t)', Queued)
      BY <1>3, <1>4 DEF StreamInv, Ordered, Older
    <3> QED
      BY <1>1, <1>4, <1>6, <3>1, <3>2, <3>3, <3>4 DEF StreamInv, Ordered
  <2>5. Apart'
    <3>1. k \notin lost /\ k \notin Batch(s)'
          /\ \A t \in Streams \ {s} : k \notin Batch(t) /\ k \notin Received(t)
      BY <1>3 DEF StreamInv, Apart, Older
    <3> QED  BY <1>3, <1>4, <1>6, <2>1, <3>1 DEF StreamInv, Apart
  <2> QED  BY <1>5, <2>2, <2>3, <2>4, <2>5 DEF StreamInv
<1>7. CASE lost' = lost \union {k} /\ received' = received
  <2>1. \A t \in Streams : Received(t)' = Received(t)
    BY <1>7 DEF Received
  <2>2. Types'
    <3>1. batch' \in [Streams -> Seq(Nat)]
      BY <1>1, <1>3, <1>4 DEF StreamInv, Types
    <3> QED  BY <1>1, <1>7, <3>1 DEF StreamInv, Types
  <2>3. Complete'
    <3> SUFFICES ASSUME NEW i \in Nat
                 PROVE  i \in Positions <=>
                          \/ i \in Queued \/ i \in lost \union {k}
                          \/ \E t \in Streams : i \in Batch(t)'
                          \/ \E t \in Streams : i \in Received(t)
      BY <1>4, <1>7, <2>1 DEF Complete
    <3>1. (\E t \in Streams : i \in Batch(t)) <=>
            i = k \/ \E t \in Streams : i \in Batch(t)'
      BY <1>3, <1>4
    <3> QED  BY <3>1 DEF StreamInv, Complete
  <2>4. Ordered'
    <3>1. \A t \in Streams : Increasing(batch'[t])
      BY <1>3, <1>4 DEF StreamInv, Ordered
    <3>2. \A t \in Streams :
            Older(Received(t), Batch(t)') /\ Older(Batch(t)', Queued)
      BY <1>3, <1>4 DEF StreamInv, Ordered, Older
    <3>3. lost' \subseteq Nat /\ Older(lost', Queued)
      BY <1>3, <1>7 DEF StreamInv, Ordered, Older
    <3> QED  BY <1>1, <1>4, <2>1, <3>1, <3>2, <3>3 DEF StreamInv, Ordered
  <2>5. Apart'
    <3>1. /\ k \notin Batch(s)'
          /\ \A t \in Streams : k \notin Received(t)
          /\ \A t \in Streams \ {s} : k \notin Batch(t)
      BY <1>3 DEF StreamInv, Ordered, Apart, Older
    <3> QED  BY <1>3, <1>4, <1>7, <2>1, <3>1 DEF StreamInv, Apart
  <2> QED  BY <1>5, <2>2, <2>3, <2>4, <2>5 DEF StreamInv
<1> QED  BY <1>1, <1>6, <1>7

\* An exception loses the whole batch, and nothing else.
LEMMA ThrowStep ==
  ASSUME StreamInv, NEW s \in Streams, Throw(s)
  PROVE  StreamInv'
<1>1. /\ UNCHANGED <<phase, log, queue, alive, received>>
      /\ batch' = [batch EXCEPT ![s] = <<>>]
      /\ lost' = lost \union Batch(s)
      /\ pc' = [pc EXCEPT ![s] = "ended"]
  BY DEF Throw, calls, Batch
<1>2. /\ Batch(s)' = {} /\ batch'[s] = <<>>
      /\ \A t \in Streams \ {s} : Batch(t)' = Batch(t) /\ batch'[t] = batch[t]
      /\ \A t \in Streams : Received(t)' = Received(t)
      /\ Positions' = Positions /\ Queued' = Queued
  BY <1>1, NoElements DEF StreamInv, Types, Batch, Received, Positions, Queued
<1>3. Types'
  BY <1>1, NoElements DEF StreamInv, Types
<1>4. Complete'
  <2> SUFFICES ASSUME NEW i \in Nat
               PROVE  i \in Positions <=>
                        \/ i \in Queued \/ i \in lost \union Batch(s)
                        \/ \E t \in Streams : i \in Batch(t)'
                        \/ \E t \in Streams : i \in Received(t)
    BY <1>1, <1>2 DEF Complete
  <2>1. (\E t \in Streams : i \in Batch(t)) <=>
          i \in Batch(s) \/ \E t \in Streams : i \in Batch(t)'
    BY <1>2
  <2> QED  BY <2>1 DEF StreamInv, Complete
<1>5. Ordered'
  <2>1. Increasing(queue) /\ \A t \in Streams : Increasing(batch'[t])
    BY <1>2, NoElements DEF StreamInv, Ordered
  <2>2. \A t \in Streams :
          /\ Older(Received(t), Batch(t)')
          /\ Older(Received(t), Queued)
          /\ Older(Batch(t)', Queued)
    BY <1>2 DEF StreamInv, Ordered, Older
  <2>3. lost' \subseteq Nat
    <3>1. lost \subseteq Nat /\ Batch(s) \subseteq Nat
      BY Bounds DEF Positions
    <3> QED  BY <1>1, <3>1
  <2>4. Older(lost', Queued)
    <3>1. Older(lost, Queued) /\ Older(Batch(s), Queued)
      BY DEF StreamInv, Ordered
    <3> QED  BY <1>1, <3>1 DEF Older
  <2> QED  BY <1>1, <1>2, <2>1, <2>2, <2>3, <2>4 DEF Ordered
<1>6. Apart'
  <2>1. \A i \in Batch(s) :
          \A t \in Streams : i \notin Received(t) /\ i \notin Batch(t)'
    <3>1. \A i \in Batch(s) : i \in Nat
      BY Bounds DEF Positions
    <3>2. \A i \in Batch(s) : i \notin Received(s)
      BY <3>1 DEF StreamInv, Ordered, Older
    <3>3. \A i \in Batch(s) :
            \A t \in Streams \ {s} : i \notin Received(t) /\ i \notin Batch(t)
      BY DEF StreamInv, Apart
    <3> QED  BY <1>2, <3>2, <3>3
  <2> QED  BY <1>1, <1>2, <2>1 DEF StreamInv, Apart
<1>7. Emptied'
  BY <1>1, <1>2 DEF StreamInv, Types, Emptied
<1> QED  BY <1>3, <1>4, <1>5, <1>6, <1>7 DEF StreamInv

\* The other steps of a stream move no event.
LEMMA StreamStep ==
  ASSUME StreamInv, NEW s \in Streams, Open(s) \/ Disconnect(s) \/ Poll(s)
  PROVE  StreamInv'
<1>1. CASE Open(s) \/ Disconnect(s) \/ Check(s) \/ Sleep(s)
  <2>1. UNCHANGED <<phase, log, queue, batch, received, lost>>
    BY <1>1 DEF Open, Disconnect, Check, Sleep, calls
  <2>2. /\ pc' \in [Streams -> {"closed", "check", "drain", "send", "ended"}]
        /\ alive' \in [Streams -> BOOLEAN]
    BY <1>1 DEF StreamInv, Types, Open, Disconnect, Check, Sleep
  <2>3. Types'
    BY <2>1, <2>2 DEF StreamInv, Types
  <2>4. \A t \in Streams :
          pc'[t] # "send" => pc[t] # "send" \/ batch[t] = <<>>
    BY <1>1 DEF StreamInv, Types, Open, Disconnect, Check, Sleep
  <2>5. Emptied'
    BY <2>1, <2>4 DEF StreamInv, Emptied
  <2> QED  BY <2>1, <2>3, <2>5, QuietStep
<1> QED  BY <1>1, TakeStep, SendStep, ThrowStep DEF Poll

\* Every step preserves the invariant.
LEMMA NextStream == StreamInv /\ [Next]_vars => StreamInv'
<1> SUFFICES ASSUME StreamInv, [Next]_vars PROVE StreamInv'
  OBVIOUS
<1>1. CASE Stop \/ StopHttpServer \/ Over \/ UNCHANGED vars
  <2>1. UNCHANGED <<phase, log, queue, pc, batch, alive, received, lost>>
    BY <1>1 DEF Stop, StopHttpServer, Over, vars, calls, streams
  <2>2. Types' /\ Emptied'
    BY <2>1 DEF StreamInv, Types, Emptied
  <2> QED  BY <2>1, <2>2, QuietStep
<1> QED  BY <1>1, CallStep, StreamStep DEF Next

\* The invariant holds throughout (EventQueue and RegisterSseEndpoints).
THEOREM StreamInductive == Spec => []StreamInv
BY InitStream, NextStream, PTL DEF Spec

-------------------------------------------------------------------------------
(* What follows.                                                           *)

\* What At says of each kind of place.
LEMMA AtPlaces ==
  ASSUME NEW i
  PROVE  /\ At(i, <<"queue">>) <=> i \in Queued
         /\ At(i, <<"lost">>) <=> i \in lost
         /\ \A s \in Streams : At(i, <<"batch", s>>) <=> i \in Batch(s)
         /\ \A s \in Streams : At(i, <<"client", s>>) <=> i \in Received(s)
BY DEF At, Queued, Batch, Received

\* An event is never at two places.
LEMMA OnePlace ==
  ASSUME StreamInv, NEW i \in Positions, NEW p \in Places, NEW q \in Places,
         At(i, p), At(i, q)
  PROVE  p = q
<1>1. i \in Nat
  BY Bounds DEF Positions
<1>2. \A s \in Streams :
        /\ ~(i \in Batch(s) /\ i \in Received(s))
        /\ ~(i \in Batch(s) /\ i \in Queued)
        /\ ~(i \in Received(s) /\ i \in Queued)
  BY <1>1 DEF StreamInv, Ordered, Older
<1>3. ~(i \in lost /\ i \in Queued)
  BY <1>1 DEF StreamInv, Ordered, Older
<1>4. \A x \in Places :
        \/ x = <<"queue">> \/ x = <<"lost">>
        \/ \E s \in Streams : x = <<"batch", s>> \/ x = <<"client", s>>
  BY DEF Places
<1>5. CASE i \in Queued
  BY <1>2, <1>3, <1>4, <1>5, AtPlaces
<1>6. CASE i \in lost
  BY <1>3, <1>4, <1>6, AtPlaces DEF StreamInv, Apart
<1>7. ASSUME NEW s \in Streams, i \in Batch(s) PROVE p = q
  BY <1>2, <1>4, <1>7, AtPlaces DEF StreamInv, Apart
<1>8. ASSUME NEW s \in Streams, i \in Received(s) PROVE p = q
  BY <1>2, <1>4, <1>8, AtPlaces DEF StreamInv, Apart
<1> QED  BY <1>1, <1>5, <1>6, <1>7, <1>8 DEF StreamInv, Complete

\* No event vanishes and none is duplicated, for any number of streams.
THEOREM EventsStay == Spec => []NothingVanishes
<1>1. StreamInv => NothingVanishes
  <2> SUFFICES ASSUME StreamInv, NEW i \in Positions
               PROVE  Cardinality({p \in Places : At(i, p)}) = 1
    BY DEF NothingVanishes, StreamInv, Emptied
  <2>1. \E p \in Places : At(i, p)
    <3>1. i \in Nat
      BY Bounds DEF Positions
    <3>2. /\ <<"queue">> \in Places /\ <<"lost">> \in Places
          /\ \A s \in Streams :
               <<"batch", s>> \in Places /\ <<"client", s>> \in Places
      BY DEF Places
    <3> QED  BY <3>1, <3>2, AtPlaces DEF StreamInv, Complete
  <2>2. PICK p \in Places : At(i, p)
    BY <2>1
  <2>3. {q \in Places : At(i, q)} = {p}
    BY <2>2, OnePlace
  <2> QED  BY <2>3, FS_Singleton
<1> QED  BY <1>1, StreamInductive, PTL

\* Flags are Boolean.
LEMMA FlagTypes == Spec => [](running \in BOOLEAN /\ stopped \in BOOLEAN)
<1> DEFINE Flags == running \in BOOLEAN /\ stopped \in BOOLEAN
<1>1. Init => Flags
  BY DEF Init
<1>2. Flags /\ [Next]_vars => Flags'
  <2> SUFFICES ASSUME Flags, [Next]_vars PROVE Flags'
    OBVIOUS
  <2>1. CASE \E c \in Calls : Call(c)
    BY <2>1 DEF Call, StartTool, MissTool, FinishTool, Report, Advance, flags
  <2>2. CASE \E s \in Streams : Open(s) \/ Disconnect(s) \/ Poll(s)
    BY <2>2 DEF Open, Disconnect, Poll, Check, Take, Send, Throw, Sleep, flags
  <2>3. CASE Stop \/ StopHttpServer \/ Over \/ UNCHANGED vars
    BY <2>3 DEF Stop, StopHttpServer, Over, vars
  <2> QED  BY <2>1, <2>2, <2>3 DEF Next
<1> QED  BY <1>1, <1>2, PTL DEF Spec

\* A sequence of numbers that are positions is one of positions.
LEMMA PositionSeq ==
  ASSUME NEW q \in Seq(Nat), Elements(q) \subseteq Positions
  PROVE  q \in Seq(Positions)
<1>1. q \in [1 .. Len(q) -> Nat] /\ Len(q) \in Nat
  BY LenProperties
<1>2. \A i \in 1 .. Len(q) : q[i] \in Positions
  BY <1>1 DEF Elements
<1>3. q \in [1 .. Len(q) -> Positions]
  BY <1>1, <1>2
<1> QED  BY <1>1, <1>3, SeqDef

\* Everything that is queued, drained, received or lost was pushed.
THEOREM StreamTypes == Spec => []TypeOK
<1>1. StreamInv /\ running \in BOOLEAN /\ stopped \in BOOLEAN => TypeOK
  <2> SUFFICES ASSUME StreamInv, running \in BOOLEAN, stopped \in BOOLEAN
               PROVE  TypeOK
    OBVIOUS
  <2>1. queue \in Seq(Positions)
    BY Bounds, PositionSeq DEF StreamInv, Types, Queued
  <2>2. batch \in [Streams -> Seq(Positions)]
    <3>1. \A s \in Streams : batch[s] \in Seq(Positions)
      BY Bounds, PositionSeq DEF StreamInv, Types, Batch
    <3> QED  BY <3>1 DEF StreamInv, Types
  <2>3. received \in [Streams -> Seq(Positions)]
    <3>1. \A s \in Streams : received[s] \in Seq(Positions)
      BY Bounds, PositionSeq DEF StreamInv, Types, Received
    <3> QED  BY <3>1 DEF StreamInv, Types
  <2> QED  BY <2>1, <2>2, <2>3, Bounds DEF StreamInv, Types, TypeOK
<1> QED  BY <1>1, StreamInductive, FlagTypes, PTL

-------------------------------------------------------------------------------
(* The events of one call.                                                 *)

\* How far a call must be for one of its events to have been pushed.
Pushed(c, rank) ==
  \/ rank = 1 /\ phase[c] # "new"
  \/ rank = 2 /\ phase[c] \in {"returned", "replied"}
  \/ rank = 3 /\ phase[c] = "replied"

RankAt(i) == Rank(log[i].type)

\* The log has the events of each call in order, and clients get theirs in the
\* order of the log.
RankInv ==
  /\ \A i \in Positions : Pushed(log[i].call, RankAt(i))
  /\ \A i, j \in Positions :
       i < j /\ log[i].call = log[j].call => RankAt(i) < RankAt(j)
  /\ \A s \in Streams : Increasing(received[s])

\* A call pushes an event of a higher rank than those it has pushed.
LEMMA CallRanks ==
  ASSUME StreamInv, RankInv, NEW c \in Calls, Call(c)
  PROVE  RankInv'
<1>1. received' = received
  BY DEF Call, StartTool, MissTool, FinishTool, Report, Advance, streams
<1>2. \A d \in Calls, rank \in 1 .. 3 : Pushed(d, rank) => Pushed(d, rank)'
  BY DEF StreamInv, Types, Call, StartTool, MissTool, FinishTool, Report,
         Advance, Pushed
<1>3. ASSUME NEW i \in Positions
      PROVE  log[i] \in Event /\ RankAt(i) \in 1 .. 3
  <2>1. log[i] \in Event
    BY <1>3, ElementOfSeq DEF StreamInv, Types, Positions
  <2> QED  BY <2>1 DEF Event, EventTypes, RankAt, Rank
<1>4. CASE log' = log
  <2>1. Positions' = Positions /\ \A i \in Positions : RankAt(i)' = RankAt(i)
    BY <1>4 DEF Positions, RankAt
  <2>2. \A i \in Positions : Pushed(log[i].call, RankAt(i))'
    BY <1>2, <1>3, <1>4, <2>1 DEF RankInv, Event
  <2> QED  BY <1>1, <1>4, <2>1, <2>2 DEF RankInv
<1>5. ASSUME NEW type \in EventTypes, Push([call |-> c, type |-> type]),
             Pushed(c, Rank(type))',
             \A rank \in 1 .. 3 : Pushed(c, rank) => rank < Rank(type)
      PROVE  RankInv'
  <2> DEFINE e == [call |-> c, type |-> type]
  <2>0. PICK k \in Nat : k = Len(log) + 1
    BY LenProperties DEF StreamInv, Types
  <2>1. e \in Event /\ e.call = c /\ e.type = type
    BY DEF Event
  <2> HIDE DEF e
  <2>2. /\ Len(log) \in Nat /\ Positions' = Positions \union {k}
        /\ log'[k] = e /\ \A i \in Positions : log'[i] = log[i]
    BY <1>5, <2>0, <2>1, AppendProperties, LenProperties
    DEF StreamInv, Types, Push, Positions, e
  <2>3. RankAt(k)' = Rank(type) /\ log'[k].call = c
    <3>1. RankAt(k)' = Rank(log'[k].type)
      BY Zenon DEF RankAt, Rank
    <3> QED  BY <2>1, <2>2, <3>1
  <2>4. \A i \in Positions : i < k /\ log'[i].call = log[i].call
    BY <2>0, <2>2 DEF Positions
  <2>5. \A i \in Positions : RankAt(i)' = RankAt(i)
    <3> SUFFICES ASSUME NEW i \in Positions PROVE RankAt(i)' = RankAt(i)
      OBVIOUS
    <3>1. log'[i] = log[i]
      BY <2>2
    <3> QED  BY Zenon, <3>1 DEF RankAt, Rank
  <2>6. \A i \in Positions' : Pushed(log[i].call, RankAt(i))'
    <3> SUFFICES ASSUME NEW i \in Positions'
                 PROVE  Pushed(log[i].call, RankAt(i))'
      OBVIOUS
    <3>1. CASE i \in Positions
      <4>1. log[i].call \in Calls
        BY <1>3, <3>1 DEF Event
      <4>2. Pushed(log[i].call, RankAt(i))
        BY <3>1 DEF RankInv
      <4>3. \A d \in Calls, rank \in 1 .. 3 :
              Pushed(d, rank) => \/ rank = 1 /\ phase'[d] # "new"
                                 \/ rank = 2 /\ phase'[d] \in {"returned", "replied"}
                                 \/ rank = 3 /\ phase'[d] = "replied"
        BY <1>2 DEF Pushed
      <4> QED  BY <1>3, <2>4, <2>5, <3>1, <4>1, <4>2, <4>3 DEF Pushed
    <3>2. CASE i = k
      BY <1>5, <2>3, <3>2 DEF Pushed
    <3> QED  BY <2>2, <3>1, <3>2
  <2>7. \A i, j \in Positions' :
          i < j /\ log'[i].call = log'[j].call => RankAt(i)' < RankAt(j)'
    <3> SUFFICES ASSUME NEW i \in Positions', NEW j \in Positions', i < j,
                        log'[i].call = log'[j].call
                 PROVE  RankAt(i)' < RankAt(j)'
      OBVIOUS
    <3>1. i \in Positions
      BY <2>0, <2>2 DEF Positions
    <3>2. CASE j \in Positions
      BY <2>4, <2>5, <3>1, <3>2 DEF RankInv
    <3>3. CASE j = k
      <4>1. log[i].call = c
        BY <2>3, <2>4, <3>1, <3>3
      <4>2. Pushed(c, RankAt(i)) /\ RankAt(i) \in 1 .. 3
        BY <1>3, <3>1, <4>1 DEF RankInv
      <4>3. RankAt(i) < Rank(type)
        BY <1>5, <4>2
      <4> QED  BY <2>3, <2>5, <3>1, <3>3, <4>3
    <3> QED  BY <2>2, <3>2, <3>3
  <2> QED  BY <1>1, <2>6, <2>7 DEF RankInv
<1>6. CASE StartTool(c)
  BY <1>5, <1>6
  DEF StartTool, Advance, StreamInv, Types, Pushed, Rank, EventTypes
<1>7. CASE MissTool(c)
  BY <1>4, <1>7 DEF MissTool
<1>8. CASE FinishTool(c)
  BY <1>5, <1>8
  DEF FinishTool, Advance, StreamInv, Types, Pushed, Rank, EventTypes
<1>9. CASE Report(c)
  BY <1>4, <1>5, <1>9
  DEF Report, Advance, StreamInv, Types, Pushed, Rank, EventTypes
<1> QED  BY <1>6, <1>7, <1>8, <1>9 DEF Call

\* A client gets what is newer than all it has.
LEMMA SendRanks ==
  ASSUME StreamInv, RankInv, NEW s \in Streams, Send(s)
  PROVE  \A t \in Streams : Increasing(received'[t])
<1> DEFINE k == Head(batch[s])
           new == Append(received[s], k)
<1>1. \/ received' = [received EXCEPT ![s] = new]
      \/ received' = received
  BY DEF Send
<1>2. batch[s] \in Seq(Nat) /\ batch[s] # <<>> /\ Increasing(batch[s])
      /\ received[s] \in Seq(Nat)
  BY DEF Send, StreamInv, Types, Ordered
<1>3. k \in Batch(s) /\ k \in Nat
  BY <1>2, TailElements DEF Batch
<1>4. Older(Elements(received[s]), {k})
  BY <1>3 DEF StreamInv, Ordered, Older, Received
<1>5. Increasing(new)
  BY <1>2, <1>3, <1>4, AppendElements DEF RankInv
<1> HIDE DEF new
<1> QED  BY <1>1, <1>5 DEF RankInv, StreamInv, Types

\* Every step keeps the order.
LEMMA NextRanks == StreamInv /\ RankInv /\ [Next]_vars => RankInv'
<1> SUFFICES ASSUME StreamInv, RankInv, [Next]_vars PROVE RankInv'
  OBVIOUS
<1>1. CASE \E c \in Calls : Call(c)
  BY <1>1, CallRanks
<1>2. CASE ~(\E c \in Calls : Call(c))
  <2>1. UNCHANGED <<phase, log>>
    BY <1>2
    DEF Next, Open, Disconnect, Poll, Check, Take, Send, Throw, Sleep, Stop,
        StopHttpServer, Over, vars, calls
  <2>2. received' = received \/ \E s \in Streams : Send(s)
    BY <1>2
    DEF Next, Open, Disconnect, Poll, Check, Take, Throw, Sleep, Stop,
        StopHttpServer, Over, vars, streams
  <2>3. \A s \in Streams : Increasing(received'[s])
    BY <2>2, SendRanks DEF RankInv
  <2> QED  BY <2>1, <2>3 DEF RankInv, Positions, RankAt, Pushed
<1> QED  BY <1>1, <1>2

\* A client gets the events of each call in the order start, end, report.
THEOREM CallsInOrder == Spec => []EventsOfACallInOrder
<1>1. Init => RankInv
  BY EmptySeq, NoElements DEF Init, RankInv, Positions
<1>2. StreamInv /\ RankInv => EventsOfACallInOrder
  <2> SUFFICES ASSUME StreamInv, RankInv, NEW s \in Streams,
                      NEW i \in DOMAIN received[s], NEW j \in DOMAIN received[s],
                      i < j,
                      log[received[s][i]].call = log[received[s][j]].call
               PROVE  RankAt(received[s][i]) < RankAt(received[s][j])
    BY DEF EventsOfACallInOrder, RankAt
  <2>1. received[s][i] \in Positions /\ received[s][j] \in Positions
    BY Bounds DEF Received, Elements
  <2>2. received[s][i] < received[s][j]
    BY LenProperties DEF StreamInv, Types, RankInv, Increasing
  <2> QED  BY <2>1, <2>2 DEF RankInv
<1> QED  BY <1>1, <1>2, StreamInductive, NextRanks, PTL DEF Spec

-------------------------------------------------------------------------------
(* Refinement.                                                             *)

\* A write delivers the oldest event of the batch, or loses it.
LEMMA SendRefines ==
  ASSUME StreamInv, NEW s \in Streams, Send(s)
  PROVE  Delivery!Next
<1> DEFINE k == Head(batch[s])
<1>1. /\ log' = log
      /\ \/ /\ received' = [received EXCEPT ![s] = Append(received[s], k)]
            /\ lost' = lost
         \/ lost' = lost \union {k} /\ received' = received
  BY DEF Send, calls
<1>2. batch[s] \in Seq(Nat) /\ batch[s] # <<>> /\ Increasing(batch[s])
  BY DEF Send, StreamInv, Types, Ordered
<1>3. k \in Batch(s)
  BY <1>2, TailElements DEF Batch
<1> HIDE DEF k
<1>4. k \in Positions /\ k \in Nat
  BY <1>3, Bounds DEF Positions
<1>5. k \notin lost /\ \A t \in Streams \ {s} : k \notin Received(t)
  BY <1>3 DEF StreamInv, Apart
<1>6. \A r \in Received(s) : r < k
  BY <1>3 DEF StreamInv, Ordered, Older
<1>7. \A t \in Streams : \A j \in 1 .. Len(received[t]) :
        received[t][j] \in Received(t)
  <2> SUFFICES ASSUME NEW t \in Streams, NEW j \in 1 .. Len(received[t])
               PROVE  received[t][j] \in Received(t)
    OBVIOUS
  <2>1. j \in DOMAIN received[t]
    BY LenProperties DEF StreamInv, Types
  <2> QED  BY <2>1 DEF Received, Elements
<1>8. Delivery!Pending(k)
  BY <1>4, <1>5, <1>6, <1>7 DEF Delivery!Pending, Positions
<1>9. \A j \in 1 .. Len(received[s]) : received[s][j] < k
  BY <1>6, <1>7
<1>10. Delivery!Deliver(s, k) \/ Delivery!Lose({k})
  BY <1>1, <1>8, <1>9 DEF Delivery!Deliver, Delivery!Lose
<1>11. {k} \in SUBSET Positions
  BY <1>4
<1> QED  BY <1>4, <1>10, <1>11 DEF Delivery!Next, Positions

\* An exception loses a batch.
LEMMA ThrowRefines ==
  ASSUME StreamInv, NEW s \in Streams, Throw(s)
  PROVE  Delivery!Next
<1>1. /\ UNCHANGED <<log, received>>
      /\ lost' = lost \union Batch(s)
  BY DEF Throw, calls, Batch
<1>2. Batch(s) \subseteq Positions
  BY Bounds
<1>3. \A i \in Batch(s) :
        i \notin lost /\ \A t \in Streams : i \notin Received(t)
  <2>1. \A i \in Batch(s) : i \in Nat
    BY <1>2 DEF Positions
  <2> QED  BY <2>1 DEF StreamInv, Ordered, Older, Apart
<1>4. \A t \in Streams : \A j \in 1 .. Len(received[t]) :
        received[t][j] \in Received(t)
  <2> SUFFICES ASSUME NEW t \in Streams, NEW j \in 1 .. Len(received[t])
               PROVE  received[t][j] \in Received(t)
    OBVIOUS
  <2>1. j \in DOMAIN received[t]
    BY LenProperties DEF StreamInv, Types
  <2> QED  BY <2>1 DEF Received, Elements
<1>5. \A i \in Batch(s) : Delivery!Pending(i)
  BY <1>2, <1>3, <1>4 DEF Delivery!Pending, Positions
<1>6. Delivery!Lose(Batch(s))
  BY <1>1, <1>5 DEF Delivery!Lose
<1> QED  BY <1>2, <1>6 DEF Delivery!Next, Positions

\* A push publishes; nothing else is seen.
LEMMA OthersRefine ==
  ASSUME NEW c \in Calls, Call(c)
  PROVE  Delivery!Next \/ UNCHANGED Delivery!vars
<1>1. /\ UNCHANGED <<received, lost>>
      /\ (\E e \in Event : Push(e)) \/ UNCHANGED log
  BY DEF Call, StartTool, MissTool, FinishTool, Report, Advance, streams,
         Event, EventTypes
<1>2. CASE \E e \in Event : Push(e)
  BY <1>1, <1>2 DEF Push, Delivery!Next, Delivery!Publish
<1>3. CASE UNCHANGED log
  BY <1>1, <1>3 DEF Delivery!vars
<1> QED  BY <1>1, <1>2, <1>3

\* Any number of streams that poll one queue implement at-most-once delivery
\* in order of publication.
THEOREM PollingDelivers == Spec => RefinesEventDelivery
<1>1. Init => Delivery!Init
  BY DEF Init, Delivery!Init
<1>2. StreamInv /\ [Next]_vars => [Delivery!Next]_(Delivery!vars)
  <2> SUFFICES ASSUME StreamInv, [Next]_vars
               PROVE  Delivery!Next \/ UNCHANGED Delivery!vars
    OBVIOUS
  <2>1. CASE \E c \in Calls : Call(c)
    BY <2>1, OthersRefine
  <2>2. CASE \E s \in Streams : Send(s) \/ Throw(s)
    BY <2>2, SendRefines, ThrowRefines
  <2>3. CASE \E s \in Streams :
               Open(s) \/ Disconnect(s) \/ Check(s) \/ Take(s) \/ Sleep(s)
    BY <2>3
    DEF Open, Disconnect, Check, Take, Sleep, calls, Delivery!vars
  <2>4. CASE Stop \/ StopHttpServer \/ Over \/ UNCHANGED vars
    BY <2>4
    DEF Stop, StopHttpServer, Over, vars, calls, streams, Delivery!vars
  <2> QED  BY <2>1, <2>2, <2>3, <2>4 DEF Next, Poll
<1> QED
  BY <1>1, <1>2, StreamInductive, PTL
  DEF Spec, RefinesEventDelivery, Delivery!Spec

-------------------------------------------------------------------------------
(* How events come on.                                                     *)

\* A queued event stays queued until a stream that polls has it.
QueueGoesOn ==
  \A k \in Queued : k \in Queued' \/ \E s \in Streams : k \in Batch(s)'

\* A drained event stays in its batch and comes nearer to its head, and from
\* there goes to the client, or is lost if there is none.  It is lost with the
\* whole batch when the one at the head cannot be dumped.
BatchGoesOn(s) ==
  \A i \in DOMAIN batch[s] :
    \/ i \in DOMAIN batch'[s] /\ batch'[s][i] = batch[s][i]
    \/ i > 1 /\ i - 1 \in DOMAIN batch'[s] /\ batch'[s][i - 1] = batch[s][i]
    \/ i = 1 /\ alive[s] /\ batch[s][1] \in Received(s)'
    \/ i = 1 /\ ~alive[s] /\ batch[s][1] \in lost'
    \/ ~Dumps(Head(batch[s])) /\ batch[s][i] \in lost'

\* The stages a stream may come through when g_running is cleared.
Stage(p) == [closed |-> 4, drain |-> 3, send |-> 2, check |-> 1, ended |-> 0][p]

\* It is at a later one, or at the same with fewer events to write.
StreamGoesOn(s) ==
  \/ pc'[s] = pc[s] /\ batch'[s] = batch[s]
  \/ pc'[s] = pc[s] /\ Len(batch'[s]) < Len(batch[s])
  \/ Stage(pc'[s]) < Stage(pc[s])

EventsGoOn == QueueGoesOn /\ \A s \in Streams : BatchGoesOn(s)
StreamsGoOn == ~running => ~running' /\ \A s \in Streams : StreamGoesOn(s)

\* Nothing but its own steps touches a stream, and only they and the calls
\* touch the queue.
LEMMA OthersKeep ==
  ASSUME StreamInv, [Next]_vars, NEW s \in Streams, ~Poll(s), ~Open(s)
  PROVE  pc'[s] = pc[s] /\ batch'[s] = batch[s]
<1>1. CASE \E t \in Streams : Open(t) \/ Poll(t)
  <2>1. PICK t \in Streams : Open(t) \/ Poll(t)
    BY <1>1
  <2>2. t # s
    BY <2>1
  <2>3. \A u \in Streams \ {t} : pc'[u] = pc[u] /\ batch'[u] = batch[u]
    BY <2>1 DEF Open, Poll, Check, Take, Drain, Send, Throw, Sleep, StreamInv,
                Types
  <2> QED  BY <2>2, <2>3
<1>2. CASE ~\E t \in Streams : Open(t) \/ Poll(t)
  <2>1. UNCHANGED <<pc, batch>>
    BY <1>2 DEF Next, Call, StartTool, MissTool, FinishTool, Report, Advance,
                Push, Disconnect, Stop, StopHttpServer, Over, vars, streams
  <2> QED  BY <2>1
<1> QED  BY <1>1, <1>2

\* A write takes the first event of the batch.
LEMMA WriteTakesFirst ==
  ASSUME StreamInv, NEW s \in Streams, Send(s)
  PROVE  BatchGoesOn(s) /\ Len(batch'[s]) < Len(batch[s]) /\ pc'[s] = pc[s]
<1> DEFINE b == batch[s]
           rest == Tail(b)
           first == Head(b)
<1>1. b \in Seq(Nat) /\ b # <<>>
  BY DEF Send, StreamInv, Types
<1>2. /\ Len(b) \in Nat \ {0} /\ Len(rest) = Len(b) - 1
      /\ rest \in Seq(Nat) /\ first = b[1]
      /\ \A i \in 1 .. Len(rest) : rest[i] = b[i + 1]
      /\ DOMAIN b = 1 .. Len(b) /\ DOMAIN rest = 1 .. Len(rest)
  BY <1>1, HeadTailProperties, LenProperties, EmptySeq
<1>3. batch'[s] = rest /\ UNCHANGED pc
  BY DEF Send, StreamInv, Types
<1>4. ASSUME NEW i \in 1 .. Len(b), i # 1
      PROVE  i > 1 /\ i - 1 \in DOMAIN rest /\ rest[i - 1] = b[i]
  <2>1. i - 1 \in 1 .. Len(rest) /\ (i - 1) + 1 = i /\ i > 1
    BY <1>2, <1>4
  <2> QED  BY <1>2, <2>1
<1>5. \/ alive[s] /\ b[1] \in Received(s)'
      \/ ~alive[s] /\ b[1] \in lost'
  <2>1. CASE alive[s]
    <3>1. received' = [received EXCEPT ![s] = Append(@, first)]
      BY <2>1 DEF Send
    <3>2. received'[s] = Append(received[s], first)
      BY <3>1 DEF StreamInv, Types
    <3>3. first \in Nat /\ received[s] \in Seq(Nat)
      BY <1>1, <1>2, ElementOfSeq DEF StreamInv, Types
    <3>4. first \in Received(s)'
      BY <3>2, <3>3, AppendElements DEF Received
    <3>5. b[1] \in Received(s)'
      BY <1>2, <3>4
    <3> QED  BY <2>1, <3>5
  <2>2. CASE ~alive[s]
    <3>1. first \in lost'
      BY <2>2 DEF Send
    <3> QED  BY <1>2, <2>2, <3>1
  <2> QED  BY <2>1, <2>2
<1> HIDE DEF rest, first
<1>6. BatchGoesOn(s)
  <2> SUFFICES ASSUME NEW i \in DOMAIN b
               PROVE
                 \/ i > 1 /\ i - 1 \in DOMAIN rest /\ rest[i - 1] = b[i]
                 \/ i = 1 /\ alive[s] /\ b[1] \in Received(s)'
                 \/ i = 1 /\ ~alive[s] /\ b[1] \in lost'
    BY <1>3 DEF BatchGoesOn
  <2> QED  BY <1>2, <1>4, <1>5
<1> QED  BY <1>2, <1>3, <1>6

\* A batch that is not drained into or written stays.
LEMMA SameBatch ==
  ASSUME NEW s \in Streams, batch'[s] = batch[s] PROVE BatchGoesOn(s)
BY DEF BatchGoesOn

\* Every batch goes on.
LEMMA BatchesGoOn ==
  ASSUME StreamInv, [Next]_vars, NEW s \in Streams PROVE BatchGoesOn(s)
<1>1. CASE ~Poll(s) /\ ~Open(s)
  BY <1>1, OthersKeep, SameBatch
<1>2. CASE Open(s) \/ Check(s) \/ Sleep(s)
  <2>1. UNCHANGED batch
    BY <1>2 DEF Open, Check, Sleep
  <2> QED  BY <2>1, SameBatch
<1>3. CASE Take(s)
  <2>1. batch[s] = <<>>
    BY <1>3 DEF Take, StreamInv, Emptied
  <2>2. DOMAIN batch[s] = {}
    BY <2>1
  <2> QED  BY <2>2 DEF BatchGoesOn
<1>4. CASE Send(s)
  BY <1>4, WriteTakesFirst
<1>5. CASE Throw(s)
  <2>1. ~Dumps(Head(batch[s])) /\ lost' = lost \union Elements(batch[s])
    BY <1>5 DEF Throw
  <2>2. \A i \in DOMAIN batch[s] : batch[s][i] \in lost'
    BY <2>1 DEF Elements
  <2> QED  BY <2>1, <2>2 DEF BatchGoesOn
<1> QED  BY <1>1, <1>2, <1>3, <1>4, <1>5 DEF Poll

\* So does the queue.
LEMMA QueuesGoOn ==
  ASSUME StreamInv, [Next]_vars PROVE QueueGoesOn
<1>1. CASE UNCHANGED queue
  BY <1>1 DEF QueueGoesOn, Queued
<1>2. CASE \E s \in Streams : Take(s)
  <2>1. PICK s \in Streams : Take(s)
    BY <1>2
  <2>2. batch'[s] = queue
    BY <2>1 DEF Take, Drain, StreamInv, Types
  <2> QED  BY <2>2 DEF QueueGoesOn, Queued, Batch
<1>3. CASE \E c \in Calls : Call(c)
  <2>1. UNCHANGED queue \/ \E e : Push(e)
    BY <1>3 DEF Call, StartTool, MissTool, FinishTool, Report
  <2>2. ASSUME NEW e, Push(e) PROVE QueueGoesOn
    <3>1. queue \in Seq(Nat) /\ Len(log) + 1 \in Nat
      BY LenProperties DEF StreamInv, Types
    <3>2. Queued' = Queued \union {Len(log) + 1}
      BY <2>2, <3>1, AppendElements DEF Push, Queued
    <3> QED  BY <3>2 DEF QueueGoesOn
  <2> QED  BY <1>1, <2>1, <2>2
<1>4. CASE /\ ~\E s \in Streams : Take(s)
           /\ ~\E c \in Calls : Call(c)
  <2>1. UNCHANGED queue
    BY <1>4 DEF Next, Open, Disconnect, Poll, Check, Send, Throw, Sleep, Stop,
                StopHttpServer, Over, vars
  <2> QED  BY <1>1, <2>1
<1> QED  BY <1>2, <1>3, <1>4

\* Without g_running a stream is on its way to its end.
LEMMA StreamsLeave ==
  ASSUME StreamInv, [Next]_vars PROVE StreamsGoOn
<1> SUFFICES ASSUME ~running
             PROVE  ~running' /\ \A s \in Streams : StreamGoesOn(s)
  BY DEF StreamsGoOn
<1>1. ~running'
  BY DEF Next, Call, StartTool, MissTool, FinishTool, Report, Advance, Open,
         Disconnect, Poll, Check, Take, Send, Throw, Sleep, Stop, StopHttpServer,
         Over, vars, flags
<1>2. ASSUME NEW s \in Streams PROVE StreamGoesOn(s)
  <2> USE DEF StreamGoesOn
  <2>1. CASE ~Poll(s) /\ ~Open(s)
    BY <2>1, OthersKeep
  <2>2. CASE Open(s)
    <3>1. pc[s] = "closed" /\ pc'[s] \in {"check", "ended"}
      BY <2>2 DEF Open, StreamInv, Types
    <3> QED  BY <3>1 DEF Stage
  <2>3. CASE Check(s)
    <3>1. pc[s] = "check" /\ pc'[s] = "ended"
      BY <2>3 DEF Check, StreamInv, Types
    <3> QED  BY <3>1 DEF Stage
  <2>4. CASE Take(s)
    <3>1. pc[s] = "drain" /\ pc'[s] = "send"
      BY <2>4 DEF Take, StreamInv, Types
    <3> QED  BY <3>1 DEF Stage
  <2>5. CASE Send(s)
    BY <2>5, WriteTakesFirst
  <2>6. CASE Sleep(s)
    <3>1. pc[s] = "send" /\ pc'[s] = "check"
      BY <2>6 DEF Sleep, StreamInv, Types
    <3> QED  BY <3>1 DEF Stage
  <2>7. CASE Throw(s)
    <3>1. pc[s] = "send" /\ pc'[s] = "ended"
      BY <2>7 DEF Throw, StreamInv, Types
    <3> QED  BY <3>1 DEF Stage
  <2> QED  BY <2>1, <2>2, <2>3, <2>4, <2>5, <2>6, <2>7 DEF Poll
<1> QED  BY <1>1, <1>2

\* Why events arrive and streams end, for any number of calls and streams:
\* an event leaves the queue only into a batch, and a batch only from its
\* head, to the client if there is one, unless an exception ends its stream;
\* and without g_running every step of a stream writes an event or brings it
\* nearer to its end, which it takes nobody back from
\* (mcp_demo_server_main.cpp:44-61 and 502-514, http_jsonrpc.cpp:199-216).
THEOREM EventsComeOn ==
  Spec => [][EventsGoOn]_vars /\ [][StreamsGoOn]_vars
<1>1. StreamInv /\ [Next]_vars => [EventsGoOn]_vars
  BY QueuesGoOn, BatchesGoOn DEF EventsGoOn
<1>2. StreamInv /\ [Next]_vars => [StreamsGoOn]_vars
  BY StreamsLeave
<1> QED  BY <1>1, <1>2, StreamInductive, PTL DEF Spec
===============================================================================
