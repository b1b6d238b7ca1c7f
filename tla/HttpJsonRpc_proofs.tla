---------------------------- MODULE HttpJsonRpc_proofs ----------------------------
(***************************************************************************)
(* Proofs about HttpJsonRpc, for any ids, methods and length of a batch.   *)
(* The loop invariant says what the elements before the current one have   *)
(* left behind in outcomes and answers.                                    *)
(***************************************************************************)
EXTENDS HttpJsonRpc, SequenceTheorems, FiniteSetTheorems, TLAPS

OutcomeKinds == {"refused", "no handler", "result", "unprintable", "throws"}
AnswerOf == [id : Ids \union {Null, NoId}, kind : AnswerKinds]
Reply == [id : Ids \union {Null}, kind : AnswerKinds]

Parsed == body # Garbage

\* The outcome of an element tells what it was.
Fits(e, outcome) ==
  /\ outcome = "refused" <=> ~e.valid
  /\ outcome = "no handler" <=> e.valid /\ ~HasHandler(e.method)

LoopTypes ==
  /\ pc \in {"parse", "element", "calling", "done"}
  /\ next \in Nat \ {0}
  /\ outcomes \in Seq(OutcomeKinds)
  /\ answers \in Seq(Reply)
  /\ Parsed => body \in Body

Handled ==
  /\ Len(outcomes) = next - 1
  /\ pc \in {"element", "calling"} => Parsed
  /\ Parsed => next <= Len(body.elements) + 1
  /\ ~Parsed => next = 1
  /\ \A i \in 1 .. next - 1 : Fits(body.elements[i], outcomes[i])
  /\ pc = "calling" => /\ MoreElements
                       /\ Current.valid /\ HasHandler(Current.method)
  /\ pc = "done" /\ Parsed => next = Len(body.elements) + 1

Answered ==
  /\ Len(answers) <= next - 1
  /\ answers = <<>> <=>
       \A i \in 1 .. next - 1 : ~WantsAnswer(body.elements[i])
  /\ \A k \in 1 .. Len(answers) :
       answers[k].kind = "unprintable" =>
         \E i \in 1 .. next - 1 : outcomes[i] = "unprintable"

\* The response, once it is there.
Replied ==
  pc = "done" =>
    \/ ~Parsed /\ response = ReplyOne(ParseError)
    \/ Parsed /\ answers = <<>> /\ response = NoContent
    \/ /\ Parsed /\ answers # <<>> /\ Printable
       /\ response = IF body.form = "batch" THEN ReplyAll(answers)
                     ELSE ReplyOne(answers[1])
    \/ Parsed /\ ~Printable /\ response = ReplyOne(InvalidRequest)

LoopInv == LoopTypes /\ Handled /\ Answered

\* The elements of a body are a sequence.
LEMMA BodyTypes ==
  ASSUME NEW b \in Body, b # Garbage
  PROVE  /\ b.elements \in Seq(Element) /\ b.form \in {"single", "batch"}
         /\ b.form = "single" => Len(b.elements) = 1
         /\ Len(b.elements) <= MaxBatch + 1
<1>1. CASE b \in [form : {"single"}, elements : {<<e>> : e \in Element}]
  <2>1. PICK e \in Element : b.elements = <<e>>
    BY <1>1
  <2>2. <<e>> \in Seq(Element) /\ Len(<<e>>) = 1
    OBVIOUS
  <2> QED  BY <1>1, <2>1, <2>2, IdsAssumption
<1>2. CASE b \in [form : {"batch"}, elements : SeqOf(Element, MaxBatch)]
  <2>1. PICK m \in 0 .. MaxBatch : b.elements \in [1 .. m -> Element]
    BY <1>2 DEF SeqOf
  <2>2. b.elements \in Seq(Element) /\ Len(b.elements) = m
    BY <2>1, IdsAssumption, SeqDef
  <2> QED  BY <1>2, <2>1, <2>2, IdsAssumption
<1> QED  BY <1>1, <1>2 DEF Body

\* A method that has a handler ends in one of three ways.
LEMMA OutcomesOfHandlers ==
  ASSUME NEW method, HasHandler(method), NEW params \in Params,
         NEW outcome \in Outcomes(method, params)
  PROVE  outcome \in {"result", "unprintable", "throws"}
BY DEF HasHandler, Handlers, PlainMethods, Params, Outcomes

\* No element has been dealt with.
LEMMA InitLoop == Init => LoopInv
<1> SUFFICES ASSUME Init PROVE LoopInv
  OBVIOUS
<1>1. LoopTypes
  BY BodyTypes, EmptySeq DEF Init, LoopTypes, Parsed
<1>2. Handled
  BY BodyTypes, EmptySeq, LenProperties DEF Init, Handled, Parsed
<1>3. Answered
  BY EmptySeq DEF Init, Answered
<1> QED  BY <1>1, <1>2, <1>3 DEF LoopInv

\* The element the loop is at is one.
LEMMA CurrentElement ==
  ASSUME LoopInv, MoreElements
  PROVE  /\ Current \in Element
         /\ next \in 1 .. Len(body.elements)
         /\ ~Current.valid => Current = Invalid
         /\ Current.valid => Current \in Request
<1>1. next \in 1 .. Len(body.elements) /\ body.elements \in Seq(Element)
  BY BodyTypes, LenProperties
  DEF LoopInv, LoopTypes, MoreElements, Parsed
<1>2. Current \in Element
  BY <1>1, ElementOfSeq DEF Current
<1>3. CASE Current \in Request
  BY <1>1, <1>2, <1>3 DEF Request
<1>4. CASE Current = Invalid
  BY <1>1, <1>2, <1>4 DEF Invalid
<1> QED  BY <1>2, <1>3, <1>4 DEF Element

\* An answer has no id for a notification only, and cannot be printed for a
\* result only that cannot.
LEMMA AnswerFacts ==
  ASSUME LoopInv, MoreElements, NEW outcome \in OutcomeKinds, NEW a,
         Answers(a, Current, outcome)
  PROVE  /\ a.id = NoId <=> ~WantsAnswer(Current)
         /\ a.kind = "unprintable" => outcome = "unprintable"
BY CurrentElement, IdsAssumption DEF Answers, WantsAnswer, OutcomeKinds

\* Going on to the next element keeps the invariant, if the outcome and the
\* answer fit the element.
LEMMA FinishStep ==
  ASSUME LoopInv, MoreElements, pc \in {"element", "calling"},
         NEW outcome \in OutcomeKinds, NEW a \in AnswerOf,
         Fits(Current, outcome), Answers(a, Current, outcome),
         Finish(outcome, a)
  PROVE  LoopInv'
<1>0. /\ a.id = NoId <=> ~WantsAnswer(Current)
      /\ a.kind = "unprintable" => outcome = "unprintable"
  BY AnswerFacts
<1>1. /\ next \in 1 .. Len(body.elements) /\ Len(outcomes) = next - 1
      /\ next' = next + 1 /\ pc' = "element" /\ body' = body
      /\ outcomes' = Append(outcomes, outcome)
  BY CurrentElement DEF LoopInv, Handled, Finish
<1>2. /\ outcomes' \in Seq(OutcomeKinds)
      /\ Len(outcomes') = next
      /\ outcomes'[next] = outcome
      /\ \A i \in 1 .. next - 1 : outcomes'[i] = outcomes[i]
  BY <1>1, AppendProperties DEF LoopInv, LoopTypes
<1>3. Handled'
  <2>1. \A i \in 1 .. next' - 1 : Fits(body'.elements[i], outcomes'[i])
    <3> SUFFICES ASSUME NEW i \in 1 .. next' - 1
                 PROVE  Fits(body'.elements[i], outcomes'[i])
      OBVIOUS
    <3>1. CASE i = next
      BY <1>1, <1>2, <3>1 DEF Current
    <3>2. CASE i \in 1 .. next - 1
      BY <1>1, <1>2, <3>2 DEF LoopInv, Handled
    <3> QED  BY <1>1, <3>1, <3>2
  <2>2. Len(body.elements) \in Nat /\ Parsed
    BY BodyTypes, LenProperties
  DEF LoopInv, LoopTypes, MoreElements, Parsed
  <2> QED  BY <1>1, <1>2, <2>1, <2>2 DEF Handled, Parsed
<1>4. CASE a.id = NoId
  <2>1. answers' = answers
    BY <1>4 DEF Finish
  <2>2. LoopTypes'
    BY <1>1, <1>2, <2>1 DEF LoopInv, LoopTypes, Parsed
  <2>3. answers' = <<>> <=>
          \A i \in 1 .. next' - 1 : ~WantsAnswer(body'.elements[i])
    <3>1. \A i \in 1 .. next' - 1 : i \in 1 .. next - 1 \/ i = next
      BY <1>1
    <3>2. ~WantsAnswer(body.elements[next])
      BY <1>0, <1>4 DEF Current
    <3> QED  BY <1>1, <2>1, <3>1, <3>2 DEF LoopInv, Answered
  <2>4. \A k \in 1 .. Len(answers') :
          answers'[k].kind = "unprintable" =>
            \E i \in 1 .. next' - 1 : outcomes'[i] = "unprintable"
    BY <1>1, <1>2, <2>1 DEF LoopInv, Answered
  <2>5. Len(answers') <= next' - 1
    BY <1>1, <2>1, LenProperties DEF LoopInv, LoopTypes, Answered
  <2>6. Answered'
    BY <2>3, <2>4, <2>5 DEF Answered
  <2> QED  BY <1>3, <2>2, <2>6 DEF LoopInv
<1>5. CASE a.id # NoId
  <2>1. answers' = Append(answers, a)
    BY <1>5 DEF Finish
  <2>2. /\ answers' \in Seq(Reply) /\ answers' # <<>>
        /\ Len(answers') = Len(answers) + 1
        /\ answers'[Len(answers) + 1] = a
        /\ \A k \in 1 .. Len(answers) : answers'[k] = answers[k]
        /\ Len(answers) \in Nat
    <3>1. a \in Reply
      BY <1>5 DEF AnswerOf, Reply
    <3> QED
      BY <2>1, <3>1, AppendProperties, LenProperties DEF LoopInv, LoopTypes
  <2>3. LoopTypes'
    BY <1>1, <1>2, <2>2 DEF LoopInv, LoopTypes, Parsed
  <2>5. WantsAnswer(body'.elements[next]) /\ next \in 1 .. next' - 1
    BY <1>0, <1>1, <1>5 DEF Current
  <2>6. \A k \in 1 .. Len(answers') :
          answers'[k].kind = "unprintable" =>
            \E i \in 1 .. next' - 1 : outcomes'[i] = "unprintable"
    <3> SUFFICES ASSUME NEW k \in 1 .. Len(answers'),
                        answers'[k].kind = "unprintable"
                 PROVE  \E i \in 1 .. next' - 1 : outcomes'[i] = "unprintable"
      OBVIOUS
    <3>1. CASE k = Len(answers) + 1
      BY <1>0, <1>1, <1>2, <2>2, <3>1
    <3>2. CASE k \in 1 .. Len(answers)
      BY <1>1, <1>2, <2>2, <3>2 DEF LoopInv, Answered
    <3> QED  BY <2>2, <3>1, <3>2
  <2>7. Len(answers') <= next' - 1
    BY <1>1, <2>2 DEF LoopInv, Answered
  <2>8. Answered'
    BY <2>2, <2>5, <2>6, <2>7 DEF Answered
  <2> QED  BY <1>3, <2>3, <2>8 DEF LoopInv
<1> QED  BY <1>4, <1>5

\* Elements that are refused or whose method is unknown, and calls that end,
\* finish with an outcome and the answer to it.
LEMMA ElementSteps ==
  ASSUME LoopInv, RefuseElement \/ UnknownMethod \/ HandlerEnds
  PROVE  /\ MoreElements /\ pc \in {"element", "calling"}
         /\ \E outcome \in OutcomeKinds, a \in AnswerOf :
              /\ Fits(Current, outcome) /\ Answers(a, Current, outcome)
              /\ Finish(outcome, a)
<1>1. CASE RefuseElement
  <2>1. MoreElements /\ pc = "element" /\ Finish("refused", InvalidRequest)
        /\ ~Current.valid
    BY <1>1 DEF RefuseElement
  <2>2. InvalidRequest \in AnswerOf
    BY DEF InvalidRequest, Answer, AnswerOf, AnswerKinds
  <2>3. Fits(Current, "refused")
        /\ Answers(InvalidRequest, Current, "refused")
    BY <2>1 DEF Fits, Answers, InvalidRequest, Answer
  <2> QED  BY <2>1, <2>2, <2>3 DEF OutcomeKinds
<1>2. CASE UnknownMethod
  <2> DEFINE a == Answer(Current.id, "MethodNotFound")
  <2>1. MoreElements /\ pc = "element" /\ Finish("no handler", a)
        /\ Current.valid /\ ~HasHandler(Current.method)
    BY <1>2 DEF UnknownMethod
  <2>2. a \in AnswerOf
    BY <2>1, CurrentElement DEF Answer, AnswerOf, AnswerKinds, Request
  <2>3. Fits(Current, "no handler") /\ Answers(a, Current, "no handler")
    BY <2>1 DEF Fits, Answers, Answer
  <2> HIDE DEF a
  <2> QED  BY <2>1, <2>2, <2>3 DEF OutcomeKinds
<1>3. CASE HandlerEnds
  <2>1. MoreElements /\ pc = "calling" /\ Current.valid
        /\ HasHandler(Current.method) /\ Current \in Request
    BY <1>3, CurrentElement DEF HandlerEnds, LoopInv, Handled
  <2>2. PICK outcome \in Outcomes(Current.method, Current.params) :
          Finish(outcome,
                 Answer(Current.id, IF outcome = "throws" THEN "InternalError"
                                    ELSE outcome))
    BY <1>3 DEF HandlerEnds
  <2> DEFINE a == Answer(Current.id, IF outcome = "throws"
                                     THEN "InternalError" ELSE outcome)
  <2>3. Current.params \in Params /\ Current.id \in Ids \union {Null, NoId}
    BY <2>1 DEF Request
  <2>4. outcome \in {"result", "unprintable", "throws"}
    BY <2>1, <2>3, OutcomesOfHandlers
  <2>5. a \in AnswerOf
    BY <2>3, <2>4 DEF Answer, AnswerOf, AnswerKinds
  <2>6. Fits(Current, outcome) /\ Answers(a, Current, outcome)
    BY <2>1, <2>4 DEF Fits, Answers, Answer
  <2>7. outcome \in OutcomeKinds /\ Finish(outcome, a)
    BY <2>2, <2>4 DEF OutcomeKinds
  <2> HIDE DEF a
  <2> QED  BY <2>1, <2>5, <2>6, <2>7
<1> QED  BY <1>1, <1>2, <1>3

\* So they keep the invariant.
LEMMA ElementsLoop ==
  ASSUME LoopInv, RefuseElement \/ UnknownMethod \/ HandlerEnds
  PROVE  LoopInv'
BY ElementSteps, FinishStep

\* These steps leave pc at the next element, where there is no response yet.
LEMMA NoReplyYet ==
  ASSUME RefuseElement \/ UnknownMethod \/ HandlerEnds
  PROVE  pc' = "element"
BY DEF RefuseElement, UnknownMethod, HandlerEnds, Finish

\* Parsing, the beginning of a call, and the response.
LEMMA OtherSteps ==
  ASSUME LoopInv, Parse \/ CallHandler \/ Respond
  PROVE  LoopInv' /\ Replied'
<1>1. CASE Parse
  <2>1. UNCHANGED <<body, next, outcomes, answers>>
        /\ (body = Garbage => pc' = "done" /\ response' = ReplyOne(ParseError))
        /\ (body # Garbage => pc' = "element")
    BY <1>1 DEF Parse
  <2>2. LoopTypes' /\ Answered'
    BY <2>1 DEF LoopInv, LoopTypes, Answered, Parsed
  <2>3. Handled'
    BY <2>1 DEF LoopInv, Handled, Parsed
  <2>4. Replied'
    BY <2>1 DEF Replied, Parsed
  <2> QED  BY <2>2, <2>3, <2>4 DEF LoopInv
<1>2. CASE CallHandler
  <2>1. /\ UNCHANGED <<body, next, outcomes, answers>>
        /\ MoreElements /\ Current.valid /\ HasHandler(Current.method)
        /\ pc = "element" /\ pc' = "calling"
    BY <1>2 DEF CallHandler
  <2>2. LoopTypes' /\ Answered'
    BY <2>1 DEF LoopInv, LoopTypes, Answered, Parsed
  <2>3. Handled'
    BY <2>1 DEF LoopInv, Handled, Parsed, MoreElements, Current
  <2> QED  BY <2>1, <2>2, <2>3 DEF LoopInv, Replied
<1>3. CASE Respond
  <2>1. /\ UNCHANGED <<body, next, outcomes, answers>>
        /\ ~MoreElements
        /\ pc = "element" /\ pc' = "done"
    BY <1>3 DEF Respond
  <2>2. LoopTypes' /\ Answered'
    BY <2>1 DEF LoopInv, LoopTypes, Answered, Parsed
  <2>3. Parsed /\ body \in Body
    BY <2>1 DEF LoopInv, LoopTypes, Handled
  <2>4. next = Len(body.elements) + 1
    BY <2>1, <2>3, BodyTypes, LenProperties
    DEF LoopInv, LoopTypes, Handled, MoreElements, Parsed
  <2>5. Handled'
    BY <2>1, <2>4 DEF LoopInv, Handled, Parsed
  <2>6. Replied'
    BY <1>3, <2>1, <2>3 DEF Respond, Replied, Parsed, Printable
  <2> QED  BY <2>2, <2>5, <2>6 DEF LoopInv
<1> QED  BY <1>1, <1>2, <1>3

\* Every step preserves the invariant.
LEMMA NextLoop == LoopInv /\ Replied /\ [Next]_vars => LoopInv' /\ Replied'
<1> SUFFICES ASSUME LoopInv, Replied, [Next]_vars PROVE LoopInv' /\ Replied'
  OBVIOUS
<1>1. CASE UNCHANGED vars
  BY <1>1
  DEF vars, LoopInv, LoopTypes, Handled, Answered, Replied, Parsed,
      MoreElements, Current, Printable
<1>2. CASE Responded
  BY <1>1, <1>2 DEF Responded
<1>3. CASE RefuseElement \/ UnknownMethod \/ HandlerEnds
  BY <1>3, ElementsLoop, NoReplyYet DEF Replied
<1> QED  BY <1>1, <1>2, <1>3, OtherSteps DEF Next

\* The loop invariant holds throughout (HandleRequest).
THEOREM LoopInductive == Spec => [](LoopInv /\ Replied)
<1>1. Init => Replied
  BY DEF Init, Replied
<1> QED  BY <1>1, InitLoop, NextLoop, PTL DEF Spec

-------------------------------------------------------------------------------
(* The answers of a batch.                                                 *)

\* The elements so far have been answered, but for the notifications.
Matched ==
  /\ Len(answers) = Cardinality(Wanted(next - 1))
  /\ \A i \in Wanted(next - 1) :
       Answers(answers[Cardinality(Wanted(i))], body.elements[i], outcomes[i])

\* They can be counted.
LEMMA WantedFinite ==
  ASSUME NEW n \in Nat
  PROVE  IsFiniteSet(Wanted(n)) /\ Cardinality(Wanted(n)) \in Nat
<1>1. IsFiniteSet(1 .. n)
  BY FS_Interval
<1>2. Wanted(n) \in SUBSET (1 .. n)
  BY DEF Wanted
<1>3. IsFiniteSet(Wanted(n))
  BY <1>1, <1>2, FS_Subset
<1> QED  BY <1>3, FS_CardinalityType

\* Counting the elements that want an answer, one by one,
LEMMA WantedGrows ==
  ASSUME NEW n \in Nat \ {0}
  PROVE  /\ IsFiniteSet(Wanted(n)) /\ IsFiniteSet(Wanted(n - 1))
         /\ Cardinality(Wanted(n)) \in Nat
         /\ Cardinality(Wanted(n - 1)) \in Nat
         /\ Cardinality(Wanted(n)) =
              IF WantsAnswer(body.elements[n])
              THEN Cardinality(Wanted(n - 1)) + 1
              ELSE Cardinality(Wanted(n - 1))
<1>1. \A m \in Nat : IsFiniteSet(Wanted(m)) /\ Cardinality(Wanted(m)) \in Nat
  BY WantedFinite
<1>2. n - 1 \in Nat /\ n \in Nat /\ n \notin 1 .. n - 1
  OBVIOUS
<1>3. \A i : i \in 1 .. n <=> i \in 1 .. n - 1 \/ i = n
  OBVIOUS
<1>4. CASE WantsAnswer(body.elements[n])
  <2>1. Wanted(n) = Wanted(n - 1) \union {n} /\ n \notin Wanted(n - 1)
    BY <1>2, <1>3, <1>4 DEF Wanted
  <2> QED  BY <1>1, <1>2, <1>4, <2>1, FS_AddElement
<1>5. CASE ~WantsAnswer(body.elements[n])
  <2>1. Wanted(n) = Wanted(n - 1)
    BY <1>3, <1>5 DEF Wanted
  <2> QED  BY <1>1, <1>2, <1>5, <2>1
<1> QED  BY <1>4, <1>5

\* and the place of an answer among the others.
LEMMA WantedPlace ==
  ASSUME NEW n \in Nat, NEW i \in Wanted(n)
  PROVE  Cardinality(Wanted(i)) \in 1 .. Cardinality(Wanted(n))
<1>1. /\ i \in 1 .. n /\ i \in Nat \ {0} /\ WantsAnswer(body.elements[i])
      /\ IsFiniteSet(Wanted(n)) /\ Cardinality(Wanted(n)) \in Nat
  BY WantedFinite DEF Wanted
<1>2. Wanted(i) \subseteq Wanted(n)
  BY <1>1 DEF Wanted
<1>3. Cardinality(Wanted(i)) <= Cardinality(Wanted(n))
  BY <1>1, <1>2, FS_Subset
<1>4. Cardinality(Wanted(i)) >= 1 /\ Cardinality(Wanted(i)) \in Nat
  BY <1>1, WantedGrows
<1> QED  BY <1>1, <1>3, <1>4

\* An element that is finished is matched by its answer.
LEMMA MatchStep ==
  ASSUME LoopInv, Matched, MoreElements,
         NEW outcome \in OutcomeKinds, NEW a \in AnswerOf,
         Answers(a, Current, outcome), Finish(outcome, a)
  PROVE  Matched'
<1>1. /\ next \in Nat \ {0} /\ Len(outcomes) = next - 1
      /\ next' = next + 1 /\ body' = body
      /\ outcomes' = Append(outcomes, outcome)
      /\ outcomes \in Seq(OutcomeKinds) /\ answers \in Seq(Reply)
  BY DEF LoopInv, LoopTypes, Handled, Finish
<1>2. /\ outcomes'[next] = outcome
      /\ \A i \in 1 .. next - 1 : outcomes'[i] = outcomes[i]
  BY <1>1, AppendProperties
<1>3. \A n : Wanted(n)' = Wanted(n)
  BY <1>1 DEF Wanted
<1>4. next - 1 \in Nat /\ next' - 1 = next
  BY <1>1
<1>5. \A i \in Wanted(next) :
        i \in Wanted(next - 1) \/ (i = next /\ WantsAnswer(Current))
  BY <1>1 DEF Wanted, Current
<1>6. \A i \in Wanted(next - 1) :
        /\ Cardinality(Wanted(i)) \in 1 .. Len(answers)
        /\ i \in 1 .. next - 1
  BY <1>4, WantedPlace DEF Matched, Wanted
<1>7. CASE WantsAnswer(Current)
  <2>1. answers' = Append(answers, a)
    BY <1>7, AnswerFacts DEF Finish
  <2>2. /\ Len(answers') = Len(answers) + 1
        /\ answers'[Len(answers) + 1] = a
        /\ \A k \in 1 .. Len(answers) : answers'[k] = answers[k]
    <3>1. a \in Reply
      BY <1>7, AnswerFacts DEF AnswerOf, Reply
    <3> QED  BY <1>1, <2>1, <3>1, AppendProperties
  <2>3. Cardinality(Wanted(next)) = Len(answers) + 1
    BY <1>1, <1>7, WantedGrows DEF Matched, Current
  <2>4. \A i \in Wanted(next) :
          Answers(answers'[Cardinality(Wanted(i))], body.elements[i],
                  outcomes'[i])
    <3>1. ASSUME NEW i \in Wanted(next - 1)
          PROVE  Answers(answers'[Cardinality(Wanted(i))], body.elements[i],
                         outcomes'[i])
      BY <1>2, <1>6, <2>2 DEF Matched
    <3>2. Answers(answers'[Cardinality(Wanted(next))], body.elements[next],
                  outcomes'[next])
      BY <1>2, <2>2, <2>3 DEF Current
    <3> QED  BY <1>5, <3>1, <3>2
  <2> QED  BY <1>1, <1>3, <1>4, <2>2, <2>3, <2>4 DEF Matched
<1>8. CASE ~WantsAnswer(Current)
  <2>1. answers' = answers
    BY <1>8, AnswerFacts DEF Finish
  <2>2. Cardinality(Wanted(next)) = Len(answers)
    BY <1>1, <1>8, WantedGrows DEF Matched, Current
  <2>3. \A i \in Wanted(next) :
          Answers(answers'[Cardinality(Wanted(i))], body.elements[i],
                  outcomes'[i])
    BY <1>2, <1>5, <1>6, <1>8, <2>1 DEF Matched
  <2> QED  BY <1>1, <1>3, <1>4, <2>1, <2>2, <2>3 DEF Matched
<1> QED  BY <1>7, <1>8

\* Every element of a batch that is no notification has its answer, with its
\* id and in its place, for any batch.
THEOREM BatchMatched == Spec => []BatchAnswersMatch
<1>1. Init => Matched
  <2> SUFFICES ASSUME Init PROVE Matched
    OBVIOUS
  <2>1. Wanted(next - 1) = {}
    BY DEF Init, Wanted
  <2>2. Len(answers) = 0
    BY DEF Init
  <2> QED  BY <2>1, <2>2, FS_EmptySet DEF Matched
<1>2. LoopInv /\ Matched /\ [Next]_vars => Matched'
  <2> SUFFICES ASSUME LoopInv, Matched, [Next]_vars PROVE Matched'
    OBVIOUS
  <2>1. CASE RefuseElement \/ UnknownMethod \/ HandlerEnds
    BY <2>1, ElementSteps, MatchStep
  <2>2. CASE \/ Parse \/ CallHandler \/ Respond \/ Responded
             \/ UNCHANGED vars
    <3>1. UNCHANGED <<body, next, outcomes, answers>>
      BY <2>2 DEF Parse, CallHandler, Respond, Responded, vars
    <3> QED  BY <3>1 DEF Matched, Wanted
  <2> QED  BY <2>1, <2>2 DEF Next
<1>3. LoopInv /\ Matched => BatchAnswersMatch
  <2> SUFFICES ASSUME LoopInv, Matched, pc = "done", Parsed
               PROVE  /\ Len(answers) =
                           Cardinality(Wanted(Len(body.elements)))
                      /\ \A i \in Wanted(Len(body.elements)) :
                           Answers(answers[Cardinality(Wanted(i))],
                                   body.elements[i], outcomes[i])
    BY DEF BatchAnswersMatch, Parsed
  <2>1. next - 1 = Len(body.elements)
    BY BodyTypes, LenProperties DEF LoopInv, LoopTypes, Handled, Parsed
  <2> QED  BY <2>1 DEF Matched
<1> QED  BY <1>1, <1>2, <1>3, LoopInductive, PTL DEF Spec

-------------------------------------------------------------------------------
(* The other properties.                                                   *)

\* The locals of HandleRequest have their types, and no answer goes to a
\* notification, for any bodies.
THEOREM HandlerTypes == Spec => []TypeOK
<1>1. body \in Body /\ [Next]_vars => (body \in Body)'
  BY DEF Next, Parse, RefuseElement, UnknownMethod, CallHandler, HandlerEnds,
         Respond, Responded, Finish, vars
<1>2. LoopInv /\ body \in Body => TypeOK
  <2> SUFFICES ASSUME LoopInv, body \in Body PROVE TypeOK
    OBVIOUS
  <2>1. next \in 1 .. MaxBatch + 2
    <3>1. CASE Parsed
      <4>1. Len(body.elements) \in Nat /\ Len(body.elements) <= MaxBatch + 1
        BY <3>1, BodyTypes, LenProperties DEF Parsed
      <4> QED
        BY <3>1, <4>1, IdsAssumption DEF LoopInv, LoopTypes, Handled
    <3>2. CASE ~Parsed
      BY <3>2, IdsAssumption DEF LoopInv, Handled
    <3> QED  BY <3>1, <3>2
  <2> QED  BY <2>1 DEF LoopInv, LoopTypes, TypeOK, Reply, OutcomeKinds
<1>3. Init => body \in Body
  BY DEF Init
<1> QED  BY <1>1, <1>2, <1>3, LoopInductive, PTL DEF Spec

\* Every element of a body of any length is dealt with exactly once.
THEOREM ElementsHandledOnce == Spec => []EveryElementHandledOnce
<1>1. LoopInv => EveryElementHandledOnce
  <2> SUFFICES ASSUME LoopInv PROVE EveryElementHandledOnce
    OBVIOUS
  <2>1. DOMAIN outcomes = 1 .. next - 1
    BY LenProperties DEF LoopInv, LoopTypes, Handled
  <2>2. Parsed /\ pc = "done" => next = Len(body.elements) + 1
    BY DEF LoopInv, Handled
  <2>3. Parsed => Len(body.elements) \in Nat
    BY BodyTypes, LenProperties DEF LoopInv, LoopTypes, Parsed
  <2>4. Len(outcomes) = next - 1
    BY DEF LoopInv, Handled
  <2>5. \A i \in DOMAIN outcomes : Fits(body.elements[i], outcomes[i])
    BY <2>1 DEF LoopInv, Handled
  <2>6. Parsed /\ pc = "done" => Len(outcomes) = Len(body.elements)
    BY <2>2, <2>3, <2>4
  <2> QED
    BY <2>4, <2>5, <2>6, Zenon DEF EveryElementHandledOnce, Parsed, Fits
<1> QED  BY <1>1, LoopInductive, PTL

\* The response has the form JSON-RPC asks for, however long the batch is and
\* whatever its elements do.
THEOREM ResponsesFormed == Spec => []ResponseForm
<1>1. LoopInv /\ Replied => ResponseForm
  <2> SUFFICES ASSUME LoopInv, Replied, pc = "done", Parsed
               PROVE  /\ response.status = "no_content" <=>
                           \A i \in DOMAIN body.elements :
                             ~WantsAnswer(body.elements[i])
                      /\ response.status = "ok" =>
                           \/ /\ response.answers = answers
                              /\ response.array <=> body.form = "batch"
                           \/ /\ response = ReplyOne(InvalidRequest)
                              /\ \E i \in DOMAIN outcomes :
                                   outcomes[i] = "unprintable"
    BY DEF ResponseForm, Replied, Parsed
  <2>1. /\ body.elements \in Seq(Element) /\ body.form \in {"single", "batch"}
        /\ body.form = "single" => Len(body.elements) = 1
        /\ answers \in Seq(Reply)
    BY BodyTypes DEF LoopInv, LoopTypes, Parsed
  <2>2. /\ DOMAIN body.elements = 1 .. next - 1
        /\ DOMAIN outcomes = 1 .. next - 1
        /\ DOMAIN answers = 1 .. Len(answers) /\ Len(answers) \in Nat
        /\ body.form = "single" => Len(answers) <= 1
    BY <2>1, LenProperties DEF LoopInv, LoopTypes, Handled, Answered
  <2>3. answers = <<>> <=>
          \A i \in DOMAIN body.elements : ~WantsAnswer(body.elements[i])
    BY <2>2 DEF LoopInv, Answered
  <2>4. CASE answers = <<>> /\ response = NoContent
    BY <2>3, <2>4 DEF NoContent
  <2>5. CASE answers # <<>> /\ Printable /\ body.form = "batch"
             /\ response = ReplyAll(answers)
    BY <2>3, <2>5 DEF ReplyAll
  <2>6. CASE answers # <<>> /\ Printable /\ body.form = "single"
             /\ response = ReplyOne(answers[1])
    <3>1. Len(answers) = 1
      BY <2>1, <2>2, <2>6, EmptySeq
    <3>2. answers = <<answers[1]>>
      BY <2>1, <3>1
    <3> QED  BY <2>3, <2>6, <3>2 DEF ReplyOne
  <2>7. CASE ~Printable /\ response = ReplyOne(InvalidRequest)
    <3>1. answers # <<>> /\ \E i \in DOMAIN outcomes : outcomes[i] = "unprintable"
      BY <2>2, <2>7 DEF Printable, LoopInv, Answered
    <3> QED  BY <2>3, <2>7, <3>1 DEF ReplyOne
  <2> QED  BY <2>1, <2>4, <2>5, <2>6, <2>7 DEF Replied
<1> QED  BY <1>1, LoopInductive, PTL
===============================================================================
