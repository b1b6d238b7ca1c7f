------------------------------ MODULE DemoContent ------------------------------
(***************************************************************************)
(* The tools and the prompt of the demo server                             *)
(* (src/src/mcp_demo_server_main.cpp) and the tool "add" of the example    *)
(* (src/examples/mcp_tools_demo.cpp): each advertises a schema and then    *)
(* tests its arguments by hand, one test at a time.  The names of the      *)
(* specification begin with Demo, as DemoTools_proofs extends WriteFile    *)
(* too.                                                                    *)
(***************************************************************************)
EXTENDS Naturals, Sequences

CONSTANT Absent  \* arguments that are no object

\* JSON values, as far as the handlers tell them apart.
Text(s) == [type |-> "string", value |-> s]
Number(s) == [type |-> "number", value |-> s]
Operations == {"add", "subtract", "multiply", "divide"}
Strings == {Text(s) : s \in Operations \union {"notes", "../notes"}}
Numbers == {Number("0"), Number("1")}
Null == [type |-> "null", value |-> "null"]
JSON == Strings \union Numbers \union {Null}

\* The inputSchema of a tool, or the arguments of the prompt: an object, and the
\* values each of its members may have.  Every member is required.
Schema ==
  [echo |-> [message |-> Strings],
   calculate |-> [operation |-> {Text(s) : s \in Operations},
                  a |-> Numbers, b |-> Numbers],
   get_time |-> <<>>,
   get_weather |-> [city |-> Strings],
   write_file |-> [path |-> Strings, content |-> Strings],
   add |-> [a |-> Numbers, b |-> Numbers],
   code_review |-> [code |-> Strings, language |-> Strings]]

Callables == DOMAIN Schema
Members(c) == DOMAIN Schema[c]

\* A test of a handler: that the member is there, or that it has the type.
Present(m) == [member |-> m, type |-> "any"]
Is(type, m) == [member |-> m, type |-> type]

\* Mutant: the type of b is looked at before its presence.
Tests_Swapped ==
  [echo |-> <<Present("message"), Is("string", "message")>>,
   calculate |-> <<Present("operation"), Is("string", "operation"),
                   Present("a"), Is("number", "a"),
                   Is("number", "b"), Present("b")>>,
   get_time |-> <<>>,
   get_weather |-> <<Present("city"), Is("string", "city")>>,
   write_file |-> <<Present("path"), Is("string", "path"),
                    Present("content"), Is("string", "content")>>,
   add |-> <<Present("a"), Present("b"), Is("number", "a"), Is("number", "b")>>,
   code_review |-> <<Present("code"), Is("string", "code"),
                     Present("language"), Is("string", "language")>>]

\* The tests of each handler, in order; the first that fails ends them.
Tests ==
  [echo |-> <<Present("message"), Is("string", "message")>>,
   calculate |-> <<Present("operation"), Is("string", "operation"),
                   Present("a"), Is("number", "a"),
                   Present("b"), Is("number", "b")>>,
   get_time |-> <<>>,
   get_weather |-> <<Present("city"), Is("string", "city")>>,
   write_file |-> <<Present("path"), Is("string", "path"),
                    Present("content"), Is("string", "content")>>,
   add |-> <<Present("a"), Present("b"), Is("number", "a"), Is("number", "b")>>,
   code_review |-> <<Present("code"), Is("string", "code"),
                     Present("language"), Is("string", "language")>>]

VARIABLES
  callable,  \* the tool or prompt that is called
  args,      \* its arguments
  next,      \* the test that comes next
  looked,    \* history: the members that args[...] was asked for
  reply      \* "none", "result", "error" or "throws"

demoVars == <<callable, args, next, looked, reply>>

\* Objects with some of the members of c, and arguments that are no object.
Arguments(c) == {Absent} \union UNION {[M -> JSON] : M \in SUBSET Members(c)}

DemoInit ==
  /\ callable \in Callables
  /\ args \in Arguments(callable)
  /\ next = 1
  /\ looked = {}
  /\ reply = "none"

\* contains is false for what is no object.
Has(m) == args # Absent /\ m \in DOMAIN args

\* args[m] of a constant object without m is undefined: any type may show.
Shows(m, type) == IF Has(m) THEN {args[m].type = type} ELSE BOOLEAN

\* What a handler does with arguments it refuses: a tool returns an error
\* result, the prompt throws.
Refusal == IF callable = "code_review" THEN "throws" ELSE "error"

Untested == reply = "none" /\ next <= Len(Tests[callable])
Tested == reply = "none" /\ next > Len(Tests[callable])

\* One operand of the condition.
Test ==
  LET t == Tests[callable][next] IN
  /\ Untested
  /\ looked' = IF t.type = "any" THEN looked ELSE looked \union {t.member}
  /\ \E passes \in IF t.type = "any" THEN {Has(t.member)}
                   ELSE Shows(t.member, t.type) :
       IF passes THEN next' = next + 1 /\ UNCHANGED reply
       ELSE reply' = Refusal /\ UNCHANGED next
  /\ UNCHANGED <<callable, args>>

\* Mutant: an operation that is none of the four is not refused.
Calculate_Unknown ==
  /\ Tested /\ callable = "calculate"
  /\ reply' = IF args.operation.value = "divide" /\ args.b.value = "0"
              THEN "error" ELSE "result"
  /\ looked' = looked \union Members(callable)
  /\ UNCHANGED <<callable, args, next>>

\* calculate: the operation is compared with the four of the schema.
Calculate ==
  /\ Tested /\ callable = "calculate"
  /\ reply' = IF \/ args.operation.value \notin Operations
                 \/ args.operation.value = "divide" /\ args.b.value = "0"
              THEN "error" ELSE "result"
  /\ looked' = looked \union Members(callable)
  /\ UNCHANGED <<callable, args, next>>

\* write_file: the path may be refused (WriteFile models what follows, which
\* may fail).
Write ==
  /\ Tested /\ callable = "write_file"
  /\ \/ reply' = "error"
     \/ args.path.value # "../notes" /\ reply' = "result"
  /\ looked' = looked \union Members(callable)
  /\ UNCHANGED <<callable, args, next>>

\* The others format their answer.
Answer ==
  /\ Tested /\ callable \notin {"calculate", "write_file"}
  /\ reply' = "result"
  /\ looked' = looked \union Members(callable)
  /\ UNCHANGED <<callable, args, next>>

Done == reply # "none" /\ UNCHANGED demoVars

DemoNext == Test \/ Calculate \/ Write \/ Answer \/ Done

DemoSpec == DemoInit /\ [][DemoNext]_demoVars

-------------------------------------------------------------------------------
(* Properties.                                                             *)

\* The order of the operands guards every args[...]: for a constant object
\* without the member it would be undefined behaviour, not an exception.
NothingAbsentIsRead == \A m \in looked : Has(m)

\* The arguments are what the advertised schema says: an object with the
\* members and their values.
Conforms ==
  /\ args # Absent
  /\ \A m \in Members(callable) : Has(m) /\ args[m] \in Schema[callable][m]

\* Requests the schema allows and the handler refuses.
Refused ==
  \/ callable = "calculate" /\ args.operation.value = "divide"
       /\ args.b.value = "0"
  \/ callable = "write_file"

\* get_time tests nothing: it answers arguments that are no object, which its
\* schema refuses ("type": "object").
Unchecked == args = Absent /\ Members(callable) = {}

\* The tests written by hand decide as the schema advertised to the client
\* does: a call that conforms gets a result, but for a division by zero and a
\* file that cannot be written, and any other call gets none, but for get_time
\* with arguments that are no object.
SchemaDecides ==
  reply # "none" =>
    /\ reply = "result" => Conforms \/ Unchecked
    /\ Conforms /\ ~Refused => reply = "result"
===============================================================================
