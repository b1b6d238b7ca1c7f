---------------------------- MODULE AtomicRegistry ----------------------------
(***************************************************************************)
(* What mcp::McpServer promises to its users about the tool, resource and  *)
(* prompt registries: every registration replaces one entry in one         *)
(* indivisible step, and every listing or lookup observes the registry as  *)
(* it is at one instant.  A listing shows descriptions and a lookup finds  *)
(* code; the abstract registry has one entry for both, so the two can      *)
(* never disagree.                                                         *)
(***************************************************************************)
CONSTANTS
  Tasks,   \* the activities that use the server
  Kinds,   \* the registries: "tool", "resource", "prompt"
  Names,   \* tool names, resource URIs, prompt names
  Regs,    \* registrations: one description together with its code
  None     \* no entry

VARIABLES
  registry,  \* registry[k][n]: the current registration of n, or None
  seen       \* seen[t]: what the last listing or lookup of t returned

vars == <<registry, seen>>

Entry == Regs \union {None}

Init ==
  /\ registry = [k \in Kinds |-> [n \in Names |-> None]]
  /\ seen = [t \in Tasks |-> None]

Register(k, n, r) ==
  /\ registry' = [registry EXCEPT ![k] = [@ EXCEPT ![n] = r]]
  /\ UNCHANGED seen

\* The whole of one registry, at one instant.
List(t, k) ==
  /\ seen' = [seen EXCEPT ![t] = [kind |-> k, map |-> registry[k]]]
  /\ UNCHANGED registry

\* The code registered for one name, at one instant.
Lookup(t, k, n) ==
  /\ seen' = [seen EXCEPT ![t] = [kind |-> k, name |-> n,
                                  reg |-> registry[k][n]]]
  /\ UNCHANGED registry

Next ==
  \/ \E k \in Kinds, n \in Names, r \in Regs : Register(k, n, r)
  \/ \E t \in Tasks, k \in Kinds : List(t, k)
  \/ \E t \in Tasks, k \in Kinds, n \in Names : Lookup(t, k, n)

Spec == Init /\ [][Next]_vars
===============================================================================
