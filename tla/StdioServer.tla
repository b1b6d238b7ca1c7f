------------------------------ MODULE StdioServer ------------------------------
(***************************************************************************)
(* mcp::StdioJsonRpcServer (src/src/json_rpc/stdio_jsonrpc.cpp): Run calls *)
(* ReadMessage, HandleRequest and WriteMessage in a loop, one message at a *)
(* time.  The input is std::cin, or a stream given to the constructor.     *)
(*                                                                         *)
(* The input is a sequence of items, the last of which may arrive in part. *)
(* A header item and the blank one end with a newline.  A text item is the *)
(* body of a message: the texts of a client end with a newline, or they do *)
(* not, and then a line read from the beginning of one goes on with the    *)
(* item after it.                                                          *)
(***************************************************************************)
EXTENDS Naturals, Sequences, SequencesExt, Dispatcher

CONSTANTS
  Frames,    \* the framed messages clients send: a subset of Frame
  MaxFrames  \* bound: framed messages in one input

VARIABLES
  frames,   \* what the client means to send
  own,      \* the server was constructed with streams of its own
  newline,  \* the texts end with a newline, which their lengths count
  sent,     \* how many items of it arrive before the end of the input
  torn,     \* part of one more item has arrived and is not yet read
  in,       \* the items not yet read
  eof,      \* in_.eof(), the negation of in_.good()
  pc,       \* where Run is
  length,   \* content_length, or "not found"
  message,  \* message_body: the number of a frame, or 0 for a broken text
  replies   \* what has been written to the output

vars == <<frames, own, newline, sent, torn, in, eof, pc, length, message,
          replies>>

\* What the client does is settled beforehand.
client == <<frames, own, newline, sent>>

-------------------------------------------------------------------------------
(* The input.                                                              *)

\* The one key ReadMessage looks for, and the one WriteMessage writes, in
\* lower case.
AcceptedKey == "content-lengh"
WrittenKey == "content-length"

\* The length a header announces: that of the text, less than it needs to be
\* one, one byte more, zero, a negative number, or nothing std::stoul takes.
Lengths == {"exact", "short", "long", "zero", "negative", "unusable"}

\* The text is no request, or a request with or without an id.
Message ==
  {[valid |-> FALSE]}
    \union [valid : {TRUE}, wantsReply : BOOLEAN,
            method : Handlers \union {"nothing"}, params : Params]

Frame == [key : {AcceptedKey, WrittenKey}, length : Lengths, message : Message]

ASSUME FramesAssumption ==
  /\ Frames \subseteq Frame
  /\ MaxFrames \in Nat

Header(f) == [item |-> "header", key |-> f.key, length |-> f.length]
\* A line that is neither empty nor a length header.
Junk == [item |-> "header", key |-> "other", length |-> "zero"]
Blank == [item |-> "blank"]
Text(i) == [item |-> "text", frame |-> i]

Encode(fs) ==
  [k \in 1 .. 3 * Len(fs) |->
     LET i == (k + 2) \div 3
     IN  <<Header(fs[i]), Blank, Text(i)>>[((k + 2) % 3) + 1]]

Init ==
  /\ frames \in SeqOf(Frames, MaxFrames)
  /\ own \in BOOLEAN
  /\ newline \in BOOLEAN
  /\ sent \in 0 .. 3 * Len(frames)
  /\ torn \in (IF sent < 3 * Len(frames) THEN BOOLEAN ELSE {FALSE})
  /\ in = SubSeq(Encode(frames), 1, sent)
  /\ eof = FALSE
  /\ pc = "loop"
  /\ length = "not found"
  /\ message = 0
  /\ replies = <<>>

-------------------------------------------------------------------------------
(* ReadMessage.  Returning false leads back to the loop: std::cin.eof() is *)
(* tested before std::cin.good() and both end it.                          *)

\* std::cin.eof(): nobody reads std::cin when in_ is another stream.
InputOver == eof /\ ~own

\* Mutant: content_length and its flag keep what the last message set.
Loop_KeepsLength ==
  /\ pc = "loop"
  /\ pc' = IF InputOver THEN "exited" ELSE "headers"
  /\ UNCHANGED <<client, torn, in, eof, length, message, replies>>

\* while (std::cin.good()).
Loop ==
  /\ pc = "loop"
  /\ pc' = IF InputOver THEN "exited" ELSE "headers"
  /\ length' = "not found"
  /\ UNCHANGED <<client, torn, in, eof, message, replies>>

\* std::getline, when there is a newline to come.
Line == IF in[1].item = "text" THEN Junk ELSE in[1]
AfterLine == IF in[1].item = "text" /\ ~newline THEN Tail(Tail(in)) ELSE Tail(in)
LastLine == in = <<>> \/ (Len(in) = 1 /\ in[1].item = "text" /\ ~newline)

\* stoul throws for an unusable length: ReadMessage returns false although
\* the rest of the message is still to come.
ReadHeader ==
  /\ pc = "headers" /\ ~LastLine
  /\ Line.item = "header"
  /\ in' = AfterLine
  /\ \/ /\ Line.key = AcceptedKey /\ Line.length = "unusable"
        /\ pc' = "loop"
        /\ UNCHANGED length
     \/ /\ Line.key = AcceptedKey /\ Line.length # "unusable"
        /\ length' = Line.length
        /\ UNCHANGED pc
     \/ /\ Line.key # AcceptedKey
        /\ UNCHANGED <<pc, length>>
  /\ UNCHANGED <<client, torn, eof, message, replies>>

\* Mutant: a message without a length ends the server.
AfterHeaders_Exits(l) ==
  pc' = CASE l = "not found" -> "exited"
          [] l = "zero" -> "loop"
          [] l = "negative" -> "terminated"
          [] OTHER -> "body"

\* After the headers: nothing to read without a length or for a length of
\* zero (Run skips the empty message).  A negative length is a huge one,
\* which std::string::resize refuses in a noexcept function.
AfterHeaders(l) ==
  pc' = CASE l \in {"not found", "zero"} -> "loop"
          [] l = "negative" -> "terminated"
          [] OTHER -> "body"

ReadBlank ==
  /\ pc = "headers" /\ ~LastLine
  /\ Line.item = "blank"
  /\ in' = AfterLine
  /\ AfterHeaders(length)
  /\ UNCHANGED <<client, torn, eof, length, message, replies>>

\* The last line, which nothing ends, may be part of a header: its key, its
\* length or some of its digits may be missing.
Torn == Encode(frames)[sent + 1]
LastLengths ==
  IF torn /\ in = <<>> /\ Torn.item = "header" /\ Torn.key = AcceptedKey
    THEN {length, "unusable", Torn.length}
    ELSE {length}

\* Mutant: the end of the input goes unnoticed.
ReadPastEnd_NoEof ==
  /\ pc = "headers" /\ LastLine
  /\ in' = <<>> /\ torn' = FALSE
  /\ AfterHeaders(length)
  /\ UNCHANGED <<client, eof, length, message, replies>>

\* The input ends before an empty line.
ReadPastEnd ==
  /\ pc = "headers" /\ LastLine
  /\ in' = <<>> /\ torn' = FALSE
  /\ eof' = TRUE
  /\ \E l \in LastLengths :
       \/ l = "unusable" /\ pc' = "loop" /\ UNCHANGED length
       \/ l # "unusable" /\ AfterHeaders(l) /\ length' = l
  /\ UNCHANGED <<client, message, replies>>

\* in_.read: a short length leaves part of the text behind, a long one takes
\* the first byte of the next header.
ReadBody ==
  /\ pc = "body"
  /\ \/ /\ in = <<>> \/ (length = "long" /\ Len(in) = 1 /\ ~torn)
        /\ in' = <<>> /\ torn' = FALSE /\ eof' = TRUE
        /\ pc' = "loop"
        /\ UNCHANGED message
     \/ /\ in = <<>> /\ torn /\ length = "short"
        /\ torn' = FALSE
        /\ pc' = "handle" /\ message' = 0
        /\ UNCHANGED <<in, eof>>
     \/ /\ in # <<>>
        /\ pc' = "handle"
        /\ UNCHANGED eof
        /\ \/ /\ length = "exact"
              /\ in' = Tail(in)
              /\ message' = in[1].frame
              /\ UNCHANGED torn
           \/ /\ length = "short"
              /\ in' = <<Text(0)>> \o Tail(in)
              /\ message' = 0
              /\ UNCHANGED torn
           \/ /\ length = "long" /\ Len(in) > 1
              /\ in' = <<Junk>> \o Tail(Tail(in))
              /\ message' = 0
              /\ UNCHANGED torn
           \/ /\ length = "long" /\ Len(in) = 1 /\ torn
              /\ in' = <<>> /\ torn' = FALSE
              /\ message' = 0
  /\ UNCHANGED <<client, length, replies>>

-------------------------------------------------------------------------------
(* Run: parse, HandleRequest, WriteMessage.                                *)

Valid == message # 0 /\ frames[message].message.valid
Current == frames[message].message

\* Mutant: the exception leaves Run.
Discard_Exits ==
  /\ pc = "handle" /\ ~Valid
  /\ pc' = "exited"
  /\ UNCHANGED <<client, torn, in, eof, length, message, replies>>

\* json::parse or the conversion to a JsonRpcRequest throws.
Discard ==
  /\ pc = "handle" /\ ~Valid
  /\ pc' = "loop"
  /\ UNCHANGED <<client, torn, in, eof, length, message, replies>>

\* Mutant: notifications are replied to.
WriteMessage_Always(kind) ==
  IF kind = "unprintable"
    THEN pc' = "terminated" /\ UNCHANGED replies
    ELSE /\ pc' = "loop"
         /\ replies' = Append(replies, [to |-> message, kind |-> kind])

\* Mutant: what cannot be written as JSON is written all the same.
WriteMessage_Raw(kind) ==
  /\ pc' = "loop"
  /\ replies' = IF Current.wantsReply
                  THEN Append(replies, [to |-> message, kind |-> kind])
                  ELSE replies

\* WriteMessage is called for a request with an id; it is noexcept, and
\* msg.dump() throws for a result that is not UTF-8.
WriteMessage(kind) ==
  IF Current.wantsReply
    THEN IF kind = "unprintable"
           THEN pc' = "terminated" /\ UNCHANGED replies
           ELSE /\ pc' = "loop"
                /\ replies' = Append(replies, [to |-> message, kind |-> kind])
    ELSE pc' = "loop" /\ UNCHANGED replies

HandleRequest ==
  /\ pc = "handle" /\ Valid
  /\ \/ /\ ~HasHandler(Current.method)
        /\ WriteMessage("MethodNotFound")
     \/ /\ HasHandler(Current.method)
        /\ \E outcome \in Outcomes(Current.method, Current.params) :
             WriteMessage(IF outcome = "throws" THEN "InternalError"
                          ELSE outcome)
  /\ UNCHANGED <<client, torn, in, eof, length, message>>

Ended == pc \in {"exited", "terminated"} /\ UNCHANGED vars

Step ==
  \/ Loop
  \/ ReadHeader
  \/ ReadBlank
  \/ ReadPastEnd
  \/ ReadBody
  \/ Discard
  \/ HandleRequest

Next == Step \/ Ended

\* The input is read and handlers end.
Spec == Init /\ [][Next]_vars /\ WF_vars(Step)

-------------------------------------------------------------------------------
(* Properties.                                                             *)

ItemType ==
  [item : {"header"}, key : {AcceptedKey, WrittenKey, "other"},
   length : Lengths]
    \union {Blank}
    \union {Text(i) : i \in 0 .. MaxFrames}

\* Types of the stream, of the locals of ReadMessage and of the output.
TypeOK ==
  /\ frames \in SeqOf(Frames, MaxFrames)
  /\ own \in BOOLEAN
  /\ newline \in BOOLEAN
  /\ torn \in BOOLEAN
  /\ in \in Seq(ItemType)
  /\ eof \in BOOLEAN
  /\ pc \in {"loop", "headers", "body", "handle", "exited", "terminated"}
  /\ length \in Lengths \union {"not found"}
  /\ message \in 0 .. Len(frames)
  /\ replies \in Seq([to : 1 .. Len(frames),
                      kind : {"result", "InternalError", "MethodNotFound"}])

\* Whatever a client sends, and wherever its input ends: replies go to
\* requests with an id, in the order of the requests, and no request gets
\* two.
RepliesAreToRequests ==
  /\ \A i, j \in DOMAIN replies : i < j => replies[i].to < replies[j].to
  /\ \A i \in DOMAIN replies :
       LET m == frames[replies[i].to].message IN
         /\ m.valid /\ m.wantsReply
         /\ replies[i].kind = "MethodNotFound" <=> ~HasHandler(m.method)

Replied(i) == \E k \in DOMAIN replies : replies[k].to = i

\* Every request with an id among the first n frames has been replied to.
AnsweredUpTo(n) ==
  \A i \in 1 .. n :
    LET m == frames[i].message IN m.valid /\ m.wantsReply => Replied(i)

\* The first n frames arrived whole, with the given key and right lengths.
FramedUpTo(n, key) ==
  /\ 3 * n <= sent
  /\ \A i \in 1 .. n : frames[i].key = key /\ frames[i].length = "exact"

\* Text that is no JSON, requests for unknown methods, failing handlers and
\* notifications do not disturb the framing: when the server exits at the
\* end of its input, every request that came before the first misframed
\* message has been answered.
FramedRequestsAnswered ==
  pc = "exited" =>
    \A n \in 0 .. Len(frames) : FramedUpTo(n, AcceptedKey) => AnsweredUpTo(n)

\* A length that is missing, wrong or of another header costs no more than one
\* byte beyond its own message when the texts end with a newline: a request
\* that is well framed and has arrived whole is answered, unless the message
\* before it took the first byte of its header.
FramingRecovers ==
  pc = "exited" /\ newline =>
    \A i \in 1 .. Len(frames) :
      LET f == frames[i] IN
        /\ f.key = AcceptedKey /\ f.length = "exact" /\ 3 * i <= sent
        /\ f.message.valid /\ f.message.wantsReply
        /\ i > 1 => ~ (/\ frames[i - 1].key = AcceptedKey
                       /\ frames[i - 1].length = "long")
        => Replied(i)

\* When they do not, what is left of a text hides the header after it, and so
\* on to the end of the input: nothing after a misframed message is answered,
\* and no text is taken for another message either.
AnswersEndAtMisframing ==
  ~newline =>
    \A k \in DOMAIN replies : FramedUpTo(replies[k].to, AcceptedKey)

\* "JSON-RPC dispatch over HTTP and stdio" (README.md:8), for a client that
\* frames its messages the way the server frames its own.
ConformingClientAnswered ==
  pc = "exited" =>
    \A n \in 0 .. Len(frames) : FramedUpTo(n, WrittenKey) => AnsweredUpTo(n)

\* "EOF reached, server shutting down" (stdio_jsonrpc.cpp:117): wherever the
\* input ends, in a header or in a body, a server that reads std::cin stops.
\* (One with streams of its own loops for ever: it asks std::cin.)
ServerEnds == ~own => <>(pc \in {"exited", "terminated"})
===============================================================================
