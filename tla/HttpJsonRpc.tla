------------------------------ MODULE HttpJsonRpc ------------------------------
(***************************************************************************)
(* One POST /jsonrpc: HttpJsonRpcServer::HandleRequest and the handler     *)
(* around it (src/src/json_rpc/http_jsonrpc.cpp).  The server keeps no     *)
(* state of its own between requests, so one request at a time shows all   *)
(* there is; its handlers are awaited one after the other.                 *)
(***************************************************************************)
EXTENDS Naturals, Sequences, FiniteSets, SequencesExt, Dispatcher

CONSTANTS
  Ids,      \* values of "id"
  NoId,     \* the request has no "id": it is a notification
  Null,     \* null: an id a request may have, and the id of an answer to
            \* something that is no request
  Methods,  \* method names in use
  MaxBatch  \* bound: elements of a batch

ASSUME IdsAssumption ==
  /\ NoId \notin Ids \union {Null}
  /\ MaxBatch \in Nat

VARIABLES
  body,      \* the request body
  pc,        \* where HandleRequest is
  next,      \* the element of the body it is at
  outcomes,  \* history: outcomes[i], what came of calling element i
  answers,   \* batch_response
  response   \* what the client receives

vars == <<body, pc, next, outcomes, answers, response>>

-------------------------------------------------------------------------------
(* Bodies: not JSON, one element, or an array of elements.  An element is  *)
(* a request or something parse_jsonrpc_request refuses: not an object, no *)
(* method, or a member of the wrong type.                                  *)

Invalid == [valid |-> FALSE]
Request == [valid : {TRUE}, id : Ids \union {Null, NoId}, method : Methods,
            params : Params]
Element == Request \union {Invalid}

Garbage == [form |-> "garbage"]
Body ==
  {Garbage}
    \union [form : {"single"}, elements : {<<e>> : e \in Element}]
    \union [form : {"batch"}, elements : SeqOf(Element, MaxBatch)]

Answer(id, kind) == [id |-> id, kind |-> kind]

InvalidRequest == Answer(Null, "InvalidRequest")
ParseError == Answer(Null, "ParseError")

\* Status 204.
NoContent == [status |-> "no_content"]
\* Status 200 with one answer, or with an array of answers.
ReplyOne(a) == [status |-> "ok", array |-> FALSE, answers |-> <<a>>]
ReplyAll(as) == [status |-> "ok", array |-> TRUE, answers |-> as]

Init ==
  /\ body \in Body
  /\ pc = "parse"
  /\ next = 1
  /\ outcomes = <<>>
  /\ answers = <<>>
  /\ response = Null

-------------------------------------------------------------------------------
(* HandleRequest.                                                          *)

Parse ==
  /\ pc = "parse"
  /\ \/ /\ body = Garbage
        /\ response' = ReplyOne(ParseError)
        /\ pc' = "done"
     \/ /\ body # Garbage
        /\ pc' = "element"
        /\ UNCHANGED response
  /\ UNCHANGED <<body, next, outcomes, answers>>

Current == body.elements[next]
MoreElements == body # Garbage /\ next <= Len(body.elements)

\* Mutant: notifications are answered too.
Finish_AnswersAll(outcome, a) ==
  /\ outcomes' = Append(outcomes, outcome)
  /\ next' = next + 1
  /\ pc' = "element"
  /\ answers' = Append(answers, a)
  /\ UNCHANGED <<body, response>>

\* Go on to the next element with answer a, or silently for a notification.
Finish(outcome, a) ==
  /\ outcomes' = Append(outcomes, outcome)
  /\ next' = next + 1
  /\ pc' = "element"
  /\ answers' = IF a.id = NoId THEN answers ELSE Append(answers, a)
  /\ UNCHANGED <<body, response>>

\* Mutant: an element that is no request is skipped.
RefuseElement_Skips ==
  /\ pc = "element" /\ MoreElements
  /\ ~Current.valid
  /\ outcomes' = Append(outcomes, "refused")
  /\ next' = next + 1
  /\ UNCHANGED <<body, pc, answers, response>>

\* parse_jsonrpc_request throws; its handler does not know the id.
RefuseElement ==
  /\ pc = "element" /\ MoreElements
  /\ ~Current.valid
  /\ Finish("refused", InvalidRequest)

\* dispatcher_.HasHandler is false.
UnknownMethod ==
  /\ pc = "element" /\ MoreElements
  /\ Current.valid /\ ~HasHandler(Current.method)
  /\ Finish("no handler", Answer(Current.id, "MethodNotFound"))

\* dispatcher_.Call is awaited.
CallHandler ==
  /\ pc = "element" /\ MoreElements
  /\ Current.valid /\ HasHandler(Current.method)
  /\ pc' = "calling"
  /\ UNCHANGED <<body, next, outcomes, answers, response>>

\* Mutant: an exception leaves the loop over the batch.
HandlerEnds_ThrowLeavesLoop ==
  /\ pc = "calling"
  /\ pc' = "element"
  /\ \E outcome \in Outcomes(Current.method, Current.params) :
       /\ outcomes' = Append(outcomes, outcome)
       /\ next' = IF outcome = "throws" THEN Len(body.elements) + 1
                  ELSE next + 1
  /\ UNCHANGED <<body, answers, response>>

HandlerEnds ==
  /\ pc = "calling"
  /\ \E outcome \in Outcomes(Current.method, Current.params) :
       Finish(outcome,
              Answer(Current.id,
                     IF outcome = "throws" THEN "InternalError" ELSE outcome))

Printable == \A i \in DOMAIN answers : answers[i].kind # "unprintable"

\* Mutant: a batch is always answered by an array.
Respond_EmptyArray ==
  /\ pc = "element" /\ ~MoreElements
  /\ pc' = "done"
  /\ response' =
       CASE ~Printable -> ReplyOne(InvalidRequest)
         [] Printable /\ body.form = "batch" -> ReplyAll(answers)
         [] Printable /\ body.form = "single" ->
              IF answers = <<>> THEN NoContent ELSE ReplyOne(answers[1])
  /\ UNCHANGED <<body, next, outcomes, answers>>

\* All elements are handled: an array of answers for a batch, the answer
\* for a single request, and nothing (204) when there is none.  When dump
\* throws, the outermost catch takes it for an invalid request.
Respond ==
  /\ pc = "element" /\ ~MoreElements
  /\ pc' = "done"
  /\ \/ /\ answers = <<>>
        /\ response' = NoContent
     \/ /\ answers # <<>> /\ Printable
        /\ response' = IF body.form = "batch" THEN ReplyAll(answers)
                       ELSE ReplyOne(answers[1])
     \/ /\ ~Printable
        /\ response' = ReplyOne(InvalidRequest)
  /\ UNCHANGED <<body, next, outcomes, answers>>

Responded == pc = "done" /\ UNCHANGED vars

Next ==
  \/ Parse
  \/ RefuseElement
  \/ UnknownMethod
  \/ CallHandler
  \/ HandlerEnds
  \/ Respond
  \/ Responded

Spec == Init /\ [][Next]_vars

-------------------------------------------------------------------------------
(* Properties.                                                             *)

AnswerKinds ==
  {"result", "unprintable", "InternalError", "MethodNotFound",
   "InvalidRequest", "ParseError"}

\* Types of the locals of HandleRequest.
TypeOK ==
  /\ body \in Body
  /\ pc \in {"parse", "element", "calling", "done"}
  /\ next \in 1 .. MaxBatch + 2
  /\ outcomes \in Seq({"refused", "no handler", "result", "unprintable",
                       "throws"})
  /\ answers \in Seq([id : Ids \union {Null}, kind : AnswerKinds])

\* The answer JSON-RPC asks for: none for a notification.
WantsAnswer(e) == IF e.valid THEN e.id # NoId ELSE TRUE

Answers(a, e, outcome) ==
  /\ a.id = IF e.valid THEN e.id ELSE Null
  /\ a.kind = CASE outcome = "refused" -> "InvalidRequest"
                [] outcome = "no handler" -> "MethodNotFound"
                [] outcome = "throws" -> "InternalError"
                [] outcome \in {"result", "unprintable"} -> outcome

\* Those of the first n elements that want an answer.
Wanted(n) == {i \in 1 .. n : WantsAnswer(body.elements[i])}

\* A batch is answered by one answer for each of its elements but the
\* notifications, in their order and with their ids, although elements that
\* fail in any way stand between them.
BatchAnswersMatch ==
  pc = "done" /\ body # Garbage =>
    LET all == Wanted(Len(body.elements)) IN
      /\ Len(answers) = Cardinality(all)
      /\ \A i \in all : Answers(answers[Cardinality(Wanted(i))],
                               body.elements[i], outcomes[i])

\* Every element of a body that could be parsed is dealt with exactly once,
\* in order: a failing one neither ends the batch nor is tried again, and a
\* notification is executed although nobody hears of it.
EveryElementHandledOnce ==
  /\ Len(outcomes) = next - 1
  /\ \A i \in DOMAIN outcomes :
       LET e == body.elements[i] IN
         /\ outcomes[i] = "refused" <=> ~e.valid
         /\ outcomes[i] = "no handler" <=> e.valid /\ ~HasHandler(e.method)
  /\ pc = "done" /\ body # Garbage => Len(outcomes) = Len(body.elements)

\* The client gets 204 exactly when there is nothing to answer, whatever
\* failed; otherwise its answers, as an array for a batch, unless one of
\* them cannot be written as JSON: that one costs it all the others.
ResponseForm ==
  pc = "done" =>
    \/ body = Garbage /\ response = ReplyOne(ParseError)
    \/ /\ body # Garbage
       /\ response.status = "no_content" <=>
            \A i \in DOMAIN body.elements : ~WantsAnswer(body.elements[i])
       /\ response.status = "ok" =>
            \/ /\ response.answers = answers
               /\ response.array <=> body.form = "batch"
            \/ /\ response = ReplyOne(InvalidRequest)
               /\ \E i \in DOMAIN outcomes : outcomes[i] = "unprintable"
===============================================================================
