----------------------------- MODULE EventDelivery -----------------------------
(***************************************************************************)
(* What the tool-call event stream promises: events are published one      *)
(* after the other; each one is delivered to at most one stream, or lost;  *)
(* a stream gets its events in the order of publication.  An event is      *)
(* named by its position in that order.                                    *)
(***************************************************************************)
EXTENDS Naturals, Sequences

CONSTANTS
  Streams,  \* the streams of events
  Events    \* what an event says

VARIABLES
  log,       \* the events published, in order
  received,  \* received[s]: the positions of the events delivered to s
  lost       \* the positions of the events that were lost

vars == <<log, received, lost>>

Init ==
  /\ log = <<>>
  /\ received = [s \in Streams |-> <<>>]
  /\ lost = {}

\* Published, and neither delivered to any stream nor lost.
Pending(i) ==
  /\ i \in 1 .. Len(log)
  /\ i \notin lost
  /\ \A s \in Streams : \A j \in 1 .. Len(received[s]) : received[s][j] # i

Publish(e) ==
  /\ log' = Append(log, e)
  /\ UNCHANGED <<received, lost>>

Deliver(s, i) ==
  /\ Pending(i)
  /\ \A j \in 1 .. Len(received[s]) : received[s][j] < i
  /\ received' = [received EXCEPT ![s] = Append(@, i)]
  /\ UNCHANGED <<log, lost>>

Lose(some) ==
  /\ \A i \in some : Pending(i)
  /\ lost' = lost \union some
  /\ UNCHANGED <<log, received>>

Next ==
  \/ \E e \in Events : Publish(e)
  \/ \E i \in 1 .. Len(log), s \in Streams : Deliver(s, i)
  \/ \E some \in SUBSET (1 .. Len(log)) : Lose(some)

Spec == Init /\ [][Next]_vars
===============================================================================
