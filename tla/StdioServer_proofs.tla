---------------------------- MODULE StdioServer_proofs ----------------------------
(***************************************************************************)
(* Proofs about StdioServer, for any messages and length of the input.     *)
(* Every step of ReadMessage takes items from the front of the input and   *)
(* may leave the rest of the last one there, so the input keeps its shape; *)
(* and while all is well framed, what has been read tells where Run is.    *)
(***************************************************************************)
EXTENDS StdioServer, SequenceTheorems, TLAPS

USE DEF client

Items ==
  [item : {"header"}, key : {AcceptedKey, WrittenKey, "other"},
   length : Lengths]
    \union {Blank}
    \union {Text(i) : i \in 0 .. Len(frames)}

Kinds == {"result", "InternalError", "MethodNotFound"}

\* What ReadMessage keeps of a length.
Measured == {"not found", "exact", "short", "long", "zero", "negative"}

IsText(k) == in[k].item = "text"
\* The item is the whole text of a frame.
IsWhole(k) == IsText(k) /\ in[k].frame # 0

Types ==
  /\ frames \in SeqOf(Frames, MaxFrames)
  /\ own \in BOOLEAN
  /\ newline \in BOOLEAN
  /\ sent \in 0 .. 3 * Len(frames)
  /\ torn \in BOOLEAN
  /\ torn => sent < 3 * Len(frames)
  /\ in \in Seq(Items)
  /\ eof \in BOOLEAN
  /\ pc \in {"loop", "headers", "body", "handle", "exited", "terminated"}
  /\ length \in Measured
  /\ message \in 0 .. Len(frames)
  /\ replies \in Seq([to : 1 .. Len(frames), kind : Kinds])

\* Headers, blank lines and texts take turns, and the texts are in order.
Turns ==
  /\ \A k \in 1 .. Len(in) : k + 1 \in 1 .. Len(in) =>
       /\ in[k].item = "header" => in[k + 1].item = "blank"
       /\ in[k].item = "blank" => in[k + 1].item = "text"
       /\ in[k].item = "text" => in[k + 1].item = "header"
  /\ \A j, k \in 1 .. Len(in) :
       j < k /\ IsText(j) /\ IsText(k) => in[j].frame < in[k].frame

\* A body is read where a text begins.
AtBody ==
  pc = "body" =>
    /\ length \in {"exact", "short", "long"}
    /\ in = <<>> \/ IsText(1)

\* Replies are older than the message at hand, and both than the input.
Order ==
  /\ \A i, j \in 1 .. Len(replies) : i < j => replies[i].to < replies[j].to
  /\ \A i \in 1 .. Len(replies), k \in 1 .. Len(in) :
       IsWhole(k) => replies[i].to < in[k].frame
  /\ pc = "handle" /\ message # 0 =>
       /\ \A i \in 1 .. Len(replies) : replies[i].to < message
       /\ \A k \in 1 .. Len(in) : IsWhole(k) => message < in[k].frame

\* What has been replied to is a request.
Fitting ==
  \A i \in 1 .. Len(replies) :
    LET m == frames[replies[i].to].message IN
      /\ m.valid /\ m.wantsReply
      /\ replies[i].kind = "MethodNotFound" <=> ~HasHandler(m.method)

InputInv == Types /\ Turns /\ AtBody
ReplyInv == Order /\ Fitting

-------------------------------------------------------------------------------
(* The input of a client.                                                  *)

\* Frames are a sequence of frames.
LEMMA FrameTypes ==
  ASSUME NEW fs \in SeqOf(Frames, MaxFrames)
  PROVE  /\ fs \in Seq(Frames) /\ Len(fs) \in Nat /\ Len(fs) <= MaxFrames
         /\ \A i \in 1 .. Len(fs) : fs[i] \in Frame
<1>1. PICK m \in 0 .. MaxFrames : fs \in [1 .. m -> Frames]
  BY DEF SeqOf
<1>2. fs \in Seq(Frames) /\ Len(fs) = m
  BY <1>1, FramesAssumption, SeqDef
<1> QED  BY <1>1, <1>2, FramesAssumption

\* The items of frame i.
LEMMA EncodeItems ==
  ASSUME NEW fs, Len(fs) \in Nat, NEW i \in 1 .. Len(fs)
  PROVE  /\ Encode(fs)[3 * i - 2] = Header(fs[i])
         /\ Encode(fs)[3 * i - 1] = Blank
         /\ Encode(fs)[3 * i] = Text(i)
<1>1. /\ 3 * i - 2 \in 1 .. 3 * Len(fs)
      /\ 3 * i - 1 \in 1 .. 3 * Len(fs)
      /\ 3 * i \in 1 .. 3 * Len(fs)
  OBVIOUS
<1>2. /\ (3 * i - 2 + 2) \div 3 = i /\ (3 * i - 2 + 2) % 3 = 0
      /\ (3 * i - 1 + 2) \div 3 = i /\ (3 * i - 1 + 2) % 3 = 1
      /\ (3 * i + 2) \div 3 = i /\ (3 * i + 2) % 3 = 2
  OBVIOUS
<1> QED  BY <1>1, <1>2 DEF Encode

\* Every item belongs to a frame.
LEMMA EncodePlace ==
  ASSUME NEW n \in Nat, NEW k \in 1 .. 3 * n
  PROVE  \E i \in 1 .. n : k \in {3 * i - 2, 3 * i - 1, 3 * i}
<1>1. (k + 2) \div 3 \in 1 .. n
      /\ k \in {3 * ((k + 2) \div 3) - 2, 3 * ((k + 2) \div 3) - 1,
                3 * ((k + 2) \div 3)}
  OBVIOUS
<1> QED  BY <1>1

\* The kinds of items.
LEMMA ItemKinds ==
  ASSUME NEW f \in Frame, NEW i \in Nat
  PROVE  /\ Header(f) \in [item : {"header"},
                           key : {AcceptedKey, WrittenKey, "other"},
                           length : Lengths]
         /\ Header(f).item = "header" /\ Blank.item = "blank"
         /\ Header(f).key = f.key /\ Header(f).length = f.length
         /\ Text(i).item = "text" /\ Text(i).frame = i
BY DEF Header, Blank, Text, Frame

\* The input at the beginning is that part of it that arrives.
LEMMA InitInput ==
  ASSUME Init
  PROVE  /\ in \in Seq(Items) /\ Len(in) = sent
         /\ \A k \in 1 .. Len(in) : in[k] = Encode(frames)[k]
<1>1. /\ frames \in Seq(Frames) /\ Len(frames) \in Nat
      /\ \A i \in 1 .. Len(frames) : frames[i] \in Frame
      /\ sent \in 0 .. 3 * Len(frames)
  BY FrameTypes DEF Init
<1>2. \A k \in 1 .. 3 * Len(frames) : Encode(frames)[k] \in Items
  <2> SUFFICES ASSUME NEW k \in 1 .. 3 * Len(frames)
               PROVE  Encode(frames)[k] \in Items
    OBVIOUS
  <2>1. PICK i \in 1 .. Len(frames) : k \in {3 * i - 2, 3 * i - 1, 3 * i}
    BY <1>1, EncodePlace
  <2>2. Encode(frames)[k] \in {Header(frames[i]), Blank, Text(i)}
    BY <1>1, <2>1, EncodeItems
  <2>3. Header(frames[i]) \in Items
    BY <1>1, ItemKinds DEF Items
  <2>4. Blank \in Items /\ Text(i) \in Items
    BY <1>1 DEF Items
  <2> QED  BY <2>2, <2>3, <2>4
<1>3. Encode(frames) \in Seq(Items) /\ Len(Encode(frames)) = 3 * Len(frames)
  <2>1. Encode(frames) \in [1 .. 3 * Len(frames) -> Items]
    BY <1>1, <1>2 DEF Encode
  <2> QED  BY <1>1, <2>1, SeqDef
<1> HIDE DEF Items
<1>4. in = SubSeq(Encode(frames), 1, sent)
  BY DEF Init
<1> QED  BY <1>1, <1>3, <1>4, SubSeqProperties

\* So it has its shape and its order.
LEMMA InitInv == Init => InputInv /\ ReplyInv
<1> SUFFICES ASSUME Init PROVE InputInv /\ ReplyInv
  OBVIOUS
<1>1. /\ Len(frames) \in Nat /\ sent \in 0 .. 3 * Len(frames)
      /\ \A i \in 1 .. Len(frames) : frames[i] \in Frame
      /\ pc = "loop" /\ replies = <<>>
  BY FrameTypes DEF Init
<1>2. Types
  <2>1. replies \in Seq([to : 1 .. Len(frames), kind : Kinds])
    BY <1>1, EmptySeq
  <2>2. in \in Seq(Items)
    BY InitInput
  <2>3. /\ frames \in SeqOf(Frames, MaxFrames) /\ own \in BOOLEAN
        /\ newline \in BOOLEAN
        /\ torn \in BOOLEAN /\ (torn => sent < 3 * Len(frames))
        /\ eof \in BOOLEAN /\ length \in Measured
        /\ message = 0
    BY DEF Init, Measured
  <2>4. message \in 0 .. Len(frames)
    <3>1. Len(frames) \in Nat /\ message = 0
      BY <1>1, <2>3
    <3> QED  BY <3>1
  <2>5. pc \in {"loop", "headers", "body", "handle", "exited", "terminated"}
    BY <1>1
  <2> QED  BY <1>1, <2>1, <2>2, <2>3, <2>4, <2>5 DEF Types
<1>3. ASSUME NEW k \in 1 .. Len(in)
      PROVE  \E i \in 1 .. Len(frames) :
               \/ k = 3 * i - 2 /\ in[k].item = "header"
               \/ k = 3 * i - 1 /\ in[k].item = "blank"
               \/ k = 3 * i /\ in[k].item = "text" /\ in[k].frame = i
  <2>1. k \in 1 .. 3 * Len(frames) /\ in[k] = Encode(frames)[k]
    BY <1>1, InitInput
  <2>2. PICK i \in 1 .. Len(frames) : k \in {3 * i - 2, 3 * i - 1, 3 * i}
    BY <1>1, <2>1, EncodePlace
  <2>3. frames[i] \in Frame /\ i \in Nat
    BY <1>1
  <2>4. /\ Encode(frames)[3 * i - 2].item = "header"
        /\ Encode(frames)[3 * i - 1].item = "blank"
        /\ Encode(frames)[3 * i].item = "text"
        /\ Encode(frames)[3 * i].frame = i
    BY <1>1, <2>3, EncodeItems, ItemKinds
  <2>5. CASE k = 3 * i - 2
    BY <2>1, <2>4, <2>5
  <2>6. CASE k = 3 * i - 1
    BY <2>1, <2>4, <2>6
  <2>7. CASE k = 3 * i
    BY <2>1, <2>4, <2>7
  <2> QED  BY <2>2, <2>5, <2>6, <2>7
<1>4. Turns
  <2>1. ASSUME NEW k \in 1 .. Len(in), k + 1 \in 1 .. Len(in)
        PROVE  /\ in[k].item = "header" => in[k + 1].item = "blank"
               /\ in[k].item = "blank" => in[k + 1].item = "text"
               /\ in[k].item = "text" => in[k + 1].item = "header"
    <3>1. PICK i \in 1 .. Len(frames) :
            \/ k = 3 * i - 2 /\ in[k].item = "header"
            \/ k = 3 * i - 1 /\ in[k].item = "blank"
            \/ k = 3 * i /\ in[k].item = "text" /\ in[k].frame = i
      BY <1>3
    <3>2. PICK j \in 1 .. Len(frames) :
            \/ k + 1 = 3 * j - 2 /\ in[k + 1].item = "header"
            \/ k + 1 = 3 * j - 1 /\ in[k + 1].item = "blank"
            \/ k + 1 = 3 * j /\ in[k + 1].item = "text" /\ in[k + 1].frame = j
      BY <1>3, <2>1
    <3> QED  BY <1>1, <3>1, <3>2
  <2>2. ASSUME NEW j \in 1 .. Len(in), NEW k \in 1 .. Len(in), j < k,
               IsText(j), IsText(k)
        PROVE  in[j].frame < in[k].frame
    <3>1. PICK x \in 1 .. Len(frames) : j = 3 * x /\ in[j].frame = x
      BY <1>3, <2>2 DEF IsText
    <3>2. PICK y \in 1 .. Len(frames) : k = 3 * y /\ in[k].frame = y
      BY <1>3, <2>2 DEF IsText
    <3> QED  BY <1>1, <2>2, <3>1, <3>2
  <2> QED  BY <1>1, <2>1, <2>2 DEF Turns
<1>5. Len(replies) = 0
  BY <1>1, EmptySeq
<1> QED  BY <1>1, <1>2, <1>4, <1>5
  DEF InputInv, AtBody, ReplyInv, Order, Fitting
-------------------------------------------------------------------------------
(* ReadMessage.                                                            *)

\* m items are gone, and of the text before the rest part may be left.
Takes(m) ==
  /\ UNCHANGED client
  /\ m \in 0 .. Len(in)
  /\ in' \in Seq(Items) /\ Len(in') = Len(in) - m
  /\ \A k \in 1 .. Len(in') :
       /\ in'[k].item = in[k + m].item
       /\ IsText(k)' =>
            in'[k].frame = in[k + m].frame \/ (k = 1 /\ in'[k].frame = 0)

\* The input is a sequence.
LEMMA InputSeq ==
  ASSUME Types
  PROVE  /\ in \in Seq(Items) /\ Len(in) \in Nat
         /\ Len(in) = 0 <=> in = <<>>
<1>1. in \in Seq(Items)
  BY DEF Types
<1> HIDE DEF Items
<1> QED  BY <1>1, LenProperties, EmptySeq

\* Items of the input.
LEMMA InputItems ==
  ASSUME Types, NEW k \in 1 .. Len(in)
  PROVE  /\ in[k] \in Items /\ in[k].item \in {"header", "blank", "text"}
         /\ IsText(k) => in[k].frame \in 0 .. Len(frames)
         /\ in[k].item = "blank" => in[k] = Blank
         /\ in[k].item = "header" => in[k].length \in Lengths
<1>1. in[k] \in Items
  BY ElementOfSeq DEF Types
<1>2. Len(frames) \in Nat
  BY FrameTypes DEF Types
<1>3. CASE in[k] \in [item : {"header"},
                      key : {AcceptedKey, WrittenKey, "other"},
                      length : Lengths]
  BY <1>1, <1>3 DEF IsText
<1>4. CASE in[k] = Blank
  BY <1>1, <1>4 DEF IsText, Blank
<1>5. CASE \E i \in 0 .. Len(frames) : in[k] = Text(i)
  BY <1>1, <1>2, <1>5 DEF IsText, Text
<1> QED  BY <1>1, <1>3, <1>4, <1>5 DEF Items

\* The lines and texts that are read are taken.
LEMMA TakesTail ==
  ASSUME Types, in # <<>>, in' = Tail(in), UNCHANGED client
  PROVE  Takes(1)
<1>1. in \in Seq(Items) /\ Items' = Items
  BY DEF Types, Items
<1>2. /\ in' \in Seq(Items) /\ Len(in') = Len(in) - 1 /\ Len(in) \in Nat
      /\ Len(in) > 0
      /\ \A k \in 1 .. Len(in') : in'[k] = in[k + 1]
  BY <1>1, HeadTailProperties, LenProperties, EmptySeq
<1> QED  BY <1>2 DEF Takes

LEMMA TakesTwo ==
  ASSUME Types, Len(in) > 1, in' = Tail(Tail(in)),
         UNCHANGED client
  PROVE  Takes(2)
<1> DEFINE rest == Tail(in)
<1>1. in \in Seq(Items) /\ Len(in) \in Nat /\ in # <<>>
  BY InputSeq
<1>2. /\ rest \in Seq(Items) /\ Len(rest) = Len(in) - 1
      /\ \A k \in 1 .. Len(rest) : rest[k] = in[k + 1]
  BY <1>1, HeadTailProperties
<1>3. in' = Tail(rest)
  OBVIOUS
<1> HIDE DEF rest
<1>4. rest # <<>>
  BY <1>1, <1>2, EmptySeq
<1>5. /\ in' \in Seq(Items) /\ Len(in') = Len(in) - 2
      /\ \A k \in 1 .. Len(in') : in'[k] = rest[k + 1]
  BY <1>1, <1>2, <1>3, <1>4, HeadTailProperties
<1>6. \A k \in 1 .. Len(in') : in'[k] = in[k + 2]
  BY <1>1, <1>2, <1>5
<1> QED  BY <1>1, <1>5, <1>6 DEF Takes

LEMMA TakesAll ==
  ASSUME Types, in' = <<>>, UNCHANGED client
  PROVE  Takes(Len(in))
<1>1. Len(in) \in Nat /\ Len(in') = 0 /\ in' \in Seq(Items)
  BY InputSeq, EmptySeq
<1>2. Items' = Items
  BY DEF Items
<1> QED  BY <1>1, <1>2 DEF Takes

LEMMA TakesNothing ==
  ASSUME Types, UNCHANGED in, UNCHANGED client PROVE Takes(0)
<1>1. in \in Seq(Items) /\ Len(in) \in Nat
  BY InputSeq
<1>2. \A k \in 1 .. Len(in) : k + 0 = k
  BY <1>1
<1> QED  BY <1>1, <1>2 DEF Takes

\* What is left is in its order.
LEMMA TakesTurns ==
  ASSUME Types, Turns, NEW m, Takes(m)
  PROVE  /\ Turns'
         /\ \A k \in 1 .. Len(in') :
              IsWhole(k)' => /\ k + m \in 1 .. Len(in) /\ IsWhole(k + m)
                             /\ in'[k].frame = in[k + m].frame
<1>1. /\ Len(in) \in Nat /\ m \in 0 .. Len(in) /\ Len(in') = Len(in) - m
      /\ \A k \in 1 .. Len(in') : /\ k + m \in 1 .. Len(in)
                                  /\ in'[k].item = in[k + m].item
  <2>1. Len(in) \in Nat /\ m \in 0 .. Len(in) /\ Len(in') = Len(in) - m
    BY InputSeq DEF Takes
  <2>2. \A k \in 1 .. Len(in') : k + m \in 1 .. Len(in)
    BY <2>1
  <2> QED  BY <2>1, <2>2 DEF Takes
<1>2. \A k \in 1 .. Len(in') :
        IsText(k)' => /\ IsText(k + m)
                      /\ \/ in'[k].frame = in[k + m].frame
                         \/ k = 1 /\ in'[k].frame = 0
  BY <1>1 DEF Takes, IsText
<1>3. ASSUME NEW k \in 1 .. Len(in'), k + 1 \in 1 .. Len(in')
      PROVE  /\ in'[k].item = "header" => in'[k + 1].item = "blank"
             /\ in'[k].item = "blank" => in'[k + 1].item = "text"
             /\ in'[k].item = "text" => in'[k + 1].item = "header"
  <2>1. /\ k + m \in 1 .. Len(in) /\ (k + m) + 1 \in 1 .. Len(in)
        /\ in'[k].item = in[k + m].item
        /\ in'[k + 1].item = in[(k + m) + 1].item
    <3>1. (k + m) + 1 = (k + 1) + m
      BY <1>1
    <3> QED  BY <1>1, <1>3, <3>1
  <2> QED  BY <2>1 DEF Turns
<1>4. ASSUME NEW j \in 1 .. Len(in'), NEW k \in 1 .. Len(in'), j < k,
             IsText(j)', IsText(k)'
      PROVE  in'[j].frame < in'[k].frame
  <2>1. /\ j + m \in 1 .. Len(in) /\ k + m \in 1 .. Len(in) /\ j + m < k + m
        /\ IsText(j + m) /\ IsText(k + m)
    BY <1>1, <1>2, <1>4
  <2>2. in[j + m].frame < in[k + m].frame
    BY <2>1 DEF Turns
  <2>3. in[j + m].frame \in Nat /\ in[k + m].frame \in Nat
    BY <2>1, InputItems
  <2>4. in'[k].frame = in[k + m].frame
    BY <1>1, <1>2, <1>4
  <2>5. in'[j].frame = in[j + m].frame \/ in'[j].frame = 0
    BY <1>2, <1>4
  <2> QED  BY <2>2, <2>3, <2>4, <2>5
<1>5. Turns'
  BY <1>3, <1>4 DEF Turns
<1>6. \A k \in 1 .. Len(in') :
        IsWhole(k)' => /\ k + m \in 1 .. Len(in) /\ IsWhole(k + m)
                       /\ in'[k].frame = in[k + m].frame
  BY <1>1, <1>2 DEF IsWhole
<1> QED  BY <1>5, <1>6

\* Reading without a message at its end keeps the order of the replies.
LEMMA TakesOrder ==
  ASSUME InputInv, ReplyInv, NEW m, Takes(m), UNCHANGED replies,
         pc' # "handle" \/ message' = 0
  PROVE  ReplyInv'
<1>1. \A k \in 1 .. Len(in') :
        IsWhole(k)' => /\ k + m \in 1 .. Len(in) /\ IsWhole(k + m)
                       /\ in'[k].frame = in[k + m].frame
  BY TakesTurns DEF InputInv
<1>2. Order'
  BY <1>1 DEF ReplyInv, Order
<1>3. Fitting'
  BY DEF ReplyInv, Fitting, Takes
<1> QED  BY <1>2, <1>3 DEF ReplyInv

\* A line is a header, the empty line, or what is left of a text, with the
\* header after it unless the text ends with a newline.
LEMMA TakesLine ==
  ASSUME Types, ~LastLine, in' = AfterLine, UNCHANGED client
  PROVE  /\ \E m \in Nat : Takes(m)
         /\ Line.item = "header" => Line.length \in Lengths
         /\ Line.item = "blank" => in[1].item = "blank" /\ Takes(1)
<1>1. Len(in) \in Nat /\ in # <<>> /\ Len(in) > 0 /\ 1 \in 1 .. Len(in)
  BY InputSeq DEF LastLine
<1>2. in[1].item = "header" => in[1].length \in Lengths
  BY <1>1, InputItems
<1>3. CASE in[1].item = "text" /\ ~newline
  <2>1. Len(in) > 1
    <3>1. Len(in) # 1
      BY <1>3 DEF LastLine
    <3>2. Len(in) \in Nat /\ Len(in) > 0
      BY <1>1
    <3>3. \A n \in Nat : n > 0 /\ n # 1 => n > 1
      OBVIOUS
    <3> QED  BY ONLY <3>1, <3>2, <3>3
  <2>2. Takes(2)
    BY <1>3, <2>1, TakesTwo DEF AfterLine
  <2> QED  BY <1>3, <2>2 DEF Line, Junk, Lengths
<1>4. CASE ~ (in[1].item = "text" /\ ~newline)
  <2>1. Takes(1)
    BY <1>1, <1>4, TakesTail DEF AfterLine
  <2> QED  BY <1>2, <1>4, <2>1 DEF Line, Junk, Lengths
<1> QED  BY <1>3, <1>4

\* What a step of ReadMessage leaves behind.
LEMMA TakesInput ==
  ASSUME InputInv, NEW m, Takes(m), UNCHANGED replies,
         eof' \in BOOLEAN, torn' \in {torn, FALSE},
         pc' \in {"loop", "headers", "body", "handle", "exited",
                  "terminated"},
         length' \in Measured,
         message' \in 0 .. Len(frames),
         AtBody'
  PROVE  InputInv'
<1>1. Items' = Items
  BY DEF Takes, Items
<1>2. Types'
  <2>1. torn' \in BOOLEAN /\ (torn' => sent' < 3 * Len(frames'))
    <3>1. torn' \in {torn, FALSE}
      OBVIOUS
    <3>2. torn \in BOOLEAN /\ (torn => sent < 3 * Len(frames))
      BY DEF InputInv, Types
    <3>3. frames' = frames /\ sent' = sent
      BY DEF Takes
    <3>4. CASE torn' = torn
      BY ONLY <3>2, <3>3, <3>4, Zenon
    <3>5. CASE torn' = FALSE
      BY ONLY <3>5, Zenon
    <3> QED  BY ONLY <3>1, <3>4, <3>5, Zenon
  <2> HIDE DEF Items
  <2> QED  BY <1>1, <2>1 DEF InputInv, Types, Takes
<1>3. Turns'
  BY TakesTurns DEF InputInv
<1> QED  BY <1>2, <1>3 DEF InputInv

\* A body is read for a length that may be one.
LEMMA HeadersEnd ==
  ASSUME NEW l \in Measured, AfterHeaders(l)
  PROVE  /\ pc' \in {"loop", "terminated", "body"}
         /\ pc' = "body" => l \in {"exact", "short", "long"}
<1>1. CASE l \in {"not found", "zero"}
  BY <1>1 DEF AfterHeaders
<1>2. CASE l = "negative"
  BY <1>2 DEF AfterHeaders
<1>3. CASE l \in {"exact", "short", "long"}
  <2>1. l \notin {"not found", "zero"} /\ l # "negative"
    BY <1>3
  <2>2. pc' = "body"
    BY <2>1 DEF AfterHeaders
  <2> QED  BY <1>3, <2>2
<1> QED  BY <1>1, <1>2, <1>3 DEF Measured

\* What the last line says of the length is what a header may say.
LEMMA LastIsLength ==
  ASSUME Types, NEW l \in LastLengths
  PROVE  l \in Lengths \union {length}
<1>1. CASE torn /\ in = <<>> /\ Torn.item = "header" /\ Torn.key = AcceptedKey
  <2>1. Torn.length \in Lengths
    <3>1. /\ Len(frames) \in Nat /\ sent + 1 \in 1 .. 3 * Len(frames)
          /\ \A i \in 1 .. Len(frames) : frames[i] \in Frame
      <4>1. /\ Len(frames) \in Nat
            /\ \A i \in 1 .. Len(frames) : frames[i] \in Frame
        BY FrameTypes DEF Types
      <4>2. sent \in 0 .. 3 * Len(frames) /\ sent < 3 * Len(frames)
        BY <1>1 DEF Types
      <4> QED  BY <4>1, <4>2
    <3>2. PICK i \in 1 .. Len(frames) : sent + 1 \in {3 * i - 2, 3 * i - 1, 3 * i}
      BY <3>1, EncodePlace
    <3>3. Torn \in {Header(frames[i]), Blank, Text(i)}
      BY <3>1, <3>2, EncodeItems DEF Torn
    <3>4. Torn = Header(frames[i])
      BY <1>1, <3>3 DEF Blank, Text
    <3> QED  BY <3>1, <3>4 DEF Header, Frame
  <2>2. l \in {length, "unusable", Torn.length}
    BY <1>1 DEF LastLengths
  <2> QED  BY <2>1, <2>2 DEF Lengths
<1>2. CASE ~ (torn /\ in = <<>> /\ Torn.item = "header" /\ Torn.key = AcceptedKey)
  BY <1>2 DEF LastLengths
<1> QED  BY <1>1, <1>2

\* Run and the lines of the header.
LEMMA LineSteps ==
  ASSUME InputInv, ReplyInv,
         Loop \/ ReadHeader \/ ReadBlank \/ ReadPastEnd
  PROVE  InputInv' /\ ReplyInv'
<1>1. /\ UNCHANGED <<client, message, replies>>
      /\ message \in 0 .. Len(frames) /\ eof \in BOOLEAN
      /\ length \in Measured /\ torn' \in {torn, FALSE}
  BY DEF Loop, ReadHeader, ReadBlank, ReadPastEnd, InputInv, Types
<1>2. CASE Loop
  <2>1. /\ UNCHANGED <<in, eof>> /\ pc' \in {"exited", "headers"}
        /\ length' = "not found" /\ length' \in Measured
    BY <1>2 DEF Loop, Measured
  <2>2. Takes(0)
    BY <1>1, <2>1, TakesNothing DEF InputInv
  <2>3. AtBody'
    BY <2>1 DEF AtBody
  <2> QED  BY <1>1, <2>1, <2>2, <2>3, TakesInput, TakesOrder
<1>3. CASE ReadHeader
  <2>1. /\ in' = AfterLine /\ ~LastLine /\ UNCHANGED eof
        /\ pc' \in {"headers", "loop"}
        /\ \/ length' = length
           \/ length' = Line.length /\ Line.length # "unusable"
        /\ Line.item = "header"
    BY <1>3 DEF ReadHeader
  <2>2. Line.length \in Lengths /\ \E m \in Nat : Takes(m)
    BY <1>1, <2>1, TakesLine DEF InputInv
  <2>3. PICK m \in Nat : Takes(m)
    BY <2>2
  <2>4. AtBody'
    BY <2>1 DEF AtBody
  <2>5. length' \in Measured
    BY <1>1, <2>1, <2>2 DEF Measured, Lengths
  <2> QED  BY <1>1, <2>1, <2>3, <2>4, <2>5, TakesInput, TakesOrder
<1>4. CASE ReadBlank
  <2>1. /\ in' = AfterLine /\ ~LastLine /\ UNCHANGED <<eof, length>>
        /\ Line.item = "blank" /\ AfterHeaders(length)
    BY <1>4 DEF ReadBlank
  <2>2. in[1].item = "blank" /\ Takes(1)
    BY <1>1, <2>1, TakesLine DEF InputInv
  <2>3. /\ pc' \in {"loop", "terminated", "body"}
        /\ pc' = "body" => length' \in {"exact", "short", "long"}
    BY <1>1, <2>1, HeadersEnd
  <2>4. in' = <<>> \/ IsText(1)'
    <3>1. /\ Len(in) \in Nat /\ in' \in Seq(Items) /\ Len(in') = Len(in) - 1
          /\ \A k \in 1 .. Len(in') : in'[k].item = in[k + 1].item
      BY <2>2, InputSeq DEF InputInv, Takes
    <3>2. CASE Len(in') = 0
      <4> HIDE DEF Items
      <4> QED  BY <3>1, <3>2, EmptySeq
    <3>3. CASE Len(in') # 0
      <4>1. 1 \in 1 .. Len(in) /\ 1 + 1 \in 1 .. Len(in) /\ 1 \in 1 .. Len(in')
        BY <3>1, <3>3, LenProperties
      <4>2. in[1 + 1].item = "text"
        BY <2>2, <4>1 DEF InputInv, Turns
      <4> QED  BY <3>1, <4>1, <4>2 DEF IsText
    <3> QED  BY <3>2, <3>3
  <2>5. AtBody'
    BY <2>3, <2>4 DEF AtBody
  <2> QED  BY <1>1, <2>1, <2>2, <2>3, <2>5, TakesInput, TakesOrder
<1>5. CASE ReadPastEnd
  <2>1. PICK l \in LastLengths :
          \/ l = "unusable" /\ pc' = "loop" /\ UNCHANGED length
          \/ l # "unusable" /\ AfterHeaders(l) /\ length' = l
    BY <1>5 DEF ReadPastEnd
  <2>2. in' = <<>> /\ eof' = TRUE
    BY <1>5 DEF ReadPastEnd
  <2>3. Takes(Len(in))
    BY <1>1, <2>2, TakesAll DEF InputInv
  <2>4. l # "unusable" => l \in Measured
    BY <1>1, <2>1, LastIsLength DEF InputInv, Lengths, Measured
  <2>5. length' \in Measured
    BY <1>1, <2>1, <2>4
  <2>6. /\ pc' \in {"loop", "terminated", "body"}
        /\ pc' = "body" => length' \in {"exact", "short", "long"}
    BY <1>1, <2>1, <2>4, HeadersEnd
  <2>7. AtBody'
    BY <2>2, <2>6 DEF AtBody
  <2> QED  BY <1>1, <2>2, <2>3, <2>5, <2>6, <2>7, TakesInput, TakesOrder
<1> QED  BY <1>2, <1>3, <1>4, <1>5

\* A sequence with one more element before it.
LEMMA Pushed ==
  ASSUME NEW S, NEW e \in S, NEW s \in Seq(S)
  PROVE  /\ <<e>> \o s \in Seq(S) /\ Len(<<e>> \o s) = Len(s) + 1
         /\ (<<e>> \o s)[1] = e
         /\ \A k \in 1 .. Len(s) : (<<e>> \o s)[k + 1] = s[k]
<1> DEFINE one == <<e>>
<1>1. one \in Seq(S) /\ Len(one) = 1 /\ one[1] = e /\ Len(s) \in Nat
  BY LenProperties
<1> HIDE DEF one
<1>2. /\ one \o s \in Seq(S) /\ Len(one \o s) = Len(one) + Len(s)
      /\ \A k \in 1 .. Len(one) + Len(s) :
           (one \o s)[k] = IF k <= Len(one) THEN one[k] ELSE s[k - Len(one)]
  BY <1>1, ConcatProperties
<1>3. (one \o s)[1] = e
  BY <1>1, <1>2
<1>4. ASSUME NEW k \in 1 .. Len(s)
      PROVE  (one \o s)[k + 1] = s[k]
  <2>1. k + 1 \in 1 .. Len(one) + Len(s) /\ ~(k + 1 <= Len(one))
        /\ (k + 1) - Len(one) = k
    BY <1>1
  <2> QED  BY <1>2, <2>1
<1>5. Len(one \o s) = Len(s) + 1
  BY <1>1, <1>2
<1> QED  BY <1>2, <1>3, <1>4, <1>5 DEF one

\* Less than the text, or more, leaves an item that is no frame's.
LEMMA TakesShort ==
  ASSUME Types, in # <<>>, IsText(1), in' = <<Text(0)>> \o Tail(in),
         UNCHANGED client
  PROVE  Takes(0)
<1>1. in \in Seq(Items) /\ Len(in) \in Nat /\ Len(in) > 0
  BY InputSeq
<1>2. Text(0) \in Items /\ Items' = Items
  <2>1. Len(frames) \in Nat
    BY FrameTypes DEF Types
  <2>2. 0 \in 0 .. Len(frames)
    BY <2>1
  <2> QED  BY <2>2 DEF Items
<1> HIDE DEF Items
<1> DEFINE rest == Tail(in)
<1>3. /\ rest \in Seq(Items) /\ Len(rest) = Len(in) - 1
      /\ \A k \in 1 .. Len(rest) : rest[k] = in[k + 1]
  BY <1>1, HeadTailProperties
<1>4. in' = <<Text(0)>> \o rest
  OBVIOUS
<1> HIDE DEF rest
<1>5. /\ in' \in Seq(Items) /\ Len(in') = Len(rest) + 1
      /\ in'[1] = Text(0)
      /\ \A k \in 1 .. Len(rest) : in'[k + 1] = rest[k]
  <2> DEFINE item == Text(0)
             new == <<item>> \o rest
  <2>1. in' = new /\ item \in Items
    BY <1>2, <1>4
  <2> HIDE DEF item
  <2>2. /\ new \in Seq(Items) /\ Len(new) = Len(rest) + 1 /\ new[1] = item
        /\ \A k \in 1 .. Len(rest) : new[k + 1] = rest[k]
    BY <1>3, <2>1, Pushed
  <2> HIDE DEF new
  <2> QED  BY <2>1, <2>2 DEF item
<1>6. Len(in') = Len(in) - 0
  BY <1>1, <1>3, <1>5
<1>7. ASSUME NEW k \in 1 .. Len(in')
      PROVE  /\ in'[k].item = in[k + 0].item
             /\ IsText(k)' =>
                  in'[k].frame = in[k + 0].frame \/ (k = 1 /\ in'[k].frame = 0)
  <2>1. k + 0 = k
    BY <1>1, <1>6
  <2>2. CASE k = 1
    BY <1>5, <2>1, <2>2 DEF IsText, Text
  <2>3. CASE k # 1
    <3>1. k - 1 \in 1 .. Len(rest) /\ (k - 1) + 1 = k
      BY <1>1, <1>3, <1>6, <2>3
    <3>2. in'[k] = rest[k - 1] /\ rest[k - 1] = in[k]
      BY <1>3, <1>5, <3>1
    <3> QED  BY <2>1, <3>2
  <2> QED  BY <2>2, <2>3
<1>8. 0 \in 0 .. Len(in)
  BY <1>1
<1> QED  BY <1>2, <1>5, <1>6, <1>7, <1>8 DEF Takes

LEMMA TakesLong ==
  ASSUME Types, Turns, Len(in) > 1, IsText(1),
         in' = <<Junk>> \o Tail(Tail(in)), UNCHANGED client
  PROVE  Takes(1)
<1>1. in \in Seq(Items) /\ Len(in) \in Nat /\ in # <<>>
  BY InputSeq
<1>2. Junk \in Items /\ Items' = Items
  BY DEF Items, Junk, Lengths
<1> HIDE DEF Items
<1> DEFINE one == Tail(in)
           rest == Tail(one)
<1>3. /\ one \in Seq(Items) /\ Len(one) = Len(in) - 1
      /\ \A k \in 1 .. Len(one) : one[k] = in[k + 1]
  BY <1>1, HeadTailProperties
<1>4. in' = <<Junk>> \o rest
  OBVIOUS
<1> HIDE DEF one
<1>5. one # <<>>
  <2>1. Len(one) # 0
    BY <1>1, <1>3
  <2> QED  BY <2>1, EmptySeq
<1>6. /\ rest \in Seq(Items) /\ Len(rest) = Len(one) - 1
      /\ \A k \in 1 .. Len(rest) : rest[k] = one[k + 1]
  BY <1>3, <1>5, HeadTailProperties
<1> HIDE DEF rest
<1>7. /\ in' \in Seq(Items) /\ Len(in') = Len(rest) + 1
      /\ in'[1] = Junk
      /\ \A k \in 1 .. Len(rest) : in'[k + 1] = rest[k]
  <2> DEFINE item == Junk
             new == <<item>> \o rest
  <2>1. in' = new /\ item \in Items
    BY <1>2, <1>4
  <2> HIDE DEF item
  <2>2. /\ new \in Seq(Items) /\ Len(new) = Len(rest) + 1 /\ new[1] = item
        /\ \A k \in 1 .. Len(rest) : new[k + 1] = rest[k]
    BY <1>6, <2>1, Pushed
  <2> HIDE DEF new
  <2> QED  BY <2>1, <2>2 DEF item
<1>8. Len(in') = Len(in) - 1
  BY <1>1, <1>3, <1>6, <1>7
<1>9. in[1 + 1].item = "header"
  <2>1. 1 \in 1 .. Len(in) /\ 1 + 1 \in 1 .. Len(in)
    BY <1>1
  <2> QED  BY <2>1 DEF Turns, IsText
<1>10. ASSUME NEW k \in 1 .. Len(in')
       PROVE  /\ in'[k].item = in[k + 1].item
              /\ IsText(k)' => in'[k].frame = in[k + 1].frame
  <2>1. CASE k = 1
    BY <1>7, <1>9, <2>1 DEF IsText, Junk
  <2>2. CASE k # 1
    <3>1. /\ k - 1 \in 1 .. Len(rest) /\ (k - 1) + 1 = k
          /\ k \in 1 .. Len(one)
      BY <1>1, <1>3, <1>6, <1>8, <2>2
    <3>2. in'[k] = rest[k - 1] /\ rest[k - 1] = one[k] /\ one[k] = in[k + 1]
      BY <1>3, <1>6, <1>7, <3>1
    <3> QED  BY <3>2
  <2> QED  BY <2>1, <2>2
<1>11. 1 \in 0 .. Len(in)
  BY <1>1
<1> QED  BY <1>2, <1>7, <1>8, <1>10, <1>11 DEF Takes

\* in_.read.
LEMMA BodyStep ==
  ASSUME InputInv, ReplyInv, ReadBody PROVE InputInv' /\ ReplyInv'
<1>1. /\ UNCHANGED <<client, length, replies>> /\ Types
      /\ torn' \in {torn, FALSE}
      /\ message \in 0 .. Len(frames) /\ eof \in BOOLEAN
      /\ length \in Measured
      /\ Len(frames) \in Nat
  <2>1. Types /\ Len(frames) \in Nat
    BY FrameTypes DEF InputInv, Types
  <2> QED  BY <2>1 DEF ReadBody, Types
<1>2. in = <<>> \/ IsText(1)
  BY DEF ReadBody, InputInv, AtBody
<1>3. CASE in' = <<>> /\ eof' = TRUE /\ pc' = "loop" /\ UNCHANGED message
  <2>1. Takes(Len(in))
    BY <1>1, <1>3, TakesAll
  <2>2. AtBody'
    BY <1>3 DEF AtBody
  <2> QED  BY <1>1, <1>3, <2>1, <2>2, TakesInput, TakesOrder
<1>4. CASE /\ in # <<>> /\ pc' = "handle" /\ UNCHANGED eof
           /\ in' = Tail(in) /\ message' = in[1].frame
  <2>1. Takes(1)
    BY <1>1, <1>4, TakesTail
  <2>2. AtBody'
    BY <1>4 DEF AtBody
  <2>3. /\ Len(in) \in Nat /\ 1 \in 1 .. Len(in) /\ IsText(1)
        /\ message' \in 0 .. Len(frames)
    <3>1. Len(in) \in Nat /\ Len(in) # 0 /\ IsText(1)
      BY <1>1, <1>2, <1>4, InputSeq
    <3>2. 1 \in 1 .. Len(in)
      BY <3>1
    <3>3. in[1].frame \in 0 .. Len(frames)
      BY <1>1, <3>1, <3>2, InputItems
    <3> QED  BY <1>4, <3>1, <3>2, <3>3
  <2>4. InputInv'
    BY <1>1, <1>4, <2>1, <2>2, <2>3, TakesInput
  <2>5. \A k \in 1 .. Len(in') :
          IsWhole(k)' => /\ k + 1 \in 1 .. Len(in) /\ IsWhole(k + 1)
                         /\ in'[k].frame = in[k + 1].frame
    BY <2>1, TakesTurns DEF InputInv
  <2>6. \A k \in 1 .. Len(in') : IsWhole(k)' => message' < in'[k].frame
    <3> SUFFICES ASSUME NEW k \in 1 .. Len(in'), IsWhole(k)'
                 PROVE  message' < in'[k].frame
      OBVIOUS
    <3>1. /\ k + 1 \in 1 .. Len(in) /\ IsText(k + 1)
          /\ in'[k].frame = in[k + 1].frame
      BY <2>5 DEF IsWhole
    <3>2. Len(in') \in Nat /\ 1 < k + 1
      BY <2>3, <2>1 DEF Takes
    <3>3. in[1].frame < in[k + 1].frame
      BY <2>3, <3>1, <3>2 DEF InputInv, Turns
    <3> QED  BY <1>4, <3>1, <3>3
  <2>7. message' # 0 => \A i \in 1 .. Len(replies) : replies[i].to < message'
    <3> SUFFICES ASSUME message' # 0, NEW i \in 1 .. Len(replies)
                 PROVE  replies[i].to < message'
      OBVIOUS
    <3>1. IsWhole(1)
      BY <1>4, <2>3 DEF IsWhole
    <3>2. replies[i].to < in[1].frame
      BY <2>3, <3>1 DEF ReplyInv, Order
    <3> QED  BY <1>4, <3>2
  <2>8. Order'
    <3>1. \A i, j \in 1 .. Len(replies') :
            i < j => replies'[i].to < replies'[j].to
      BY <1>1 DEF ReplyInv, Order
    <3>2. \A i \in 1 .. Len(replies'), k \in 1 .. Len(in') :
            IsWhole(k)' => replies'[i].to < in'[k].frame
      BY <1>1, <2>5 DEF ReplyInv, Order
    <3>3. pc' = "handle" /\ message' # 0 =>
            /\ \A i \in 1 .. Len(replies') : replies'[i].to < message'
            /\ \A k \in 1 .. Len(in') : IsWhole(k)' => message' < in'[k].frame
      BY <1>1, <2>6, <2>7
    <3> QED  BY <3>1, <3>2, <3>3 DEF Order
  <2>9. Fitting'
    BY <1>1 DEF ReplyInv, Fitting
  <2> QED  BY <2>4, <2>8, <2>9 DEF ReplyInv
<1>5. ASSUME pc' = "handle", UNCHANGED eof, message' = 0,
             \/ in # <<>> /\ in' = <<Text(0)>> \o Tail(in)
             \/ /\ in # <<>> /\ Len(in) > 1
                /\ in' = <<Junk>> \o Tail(Tail(in))
             \/ in' = <<>>
      PROVE  InputInv' /\ ReplyInv'
  <2>1. AtBody'
    BY <1>5 DEF AtBody
  <2>2. message' \in 0 .. Len(frames)
    <3>1. message' = 0 /\ Len(frames) \in Nat
      BY <1>1, <1>5
    <3> QED  BY <3>1
  <2>3. Takes(0) \/ Takes(1) \/ Takes(Len(in))
    BY <1>1, <1>2, <1>5, TakesShort, TakesLong, TakesAll DEF InputInv
  <2> QED  BY <1>1, <1>5, <2>1, <2>2, <2>3, TakesInput, TakesOrder
<1> QED  BY <1>3, <1>4, <1>5 DEF ReadBody

-------------------------------------------------------------------------------
(* Run.                                                                    *)

\* What comes of calling a handler.
LEMMA HandlerOutcomes ==
  ASSUME NEW method \in Handlers, NEW params \in Params
  PROVE  Outcomes(method, params) \subseteq {"result", "unprintable", "throws"}
<1>1. CASE method \in PlainMethods
  BY <1>1 DEF Outcomes
<1>2. CASE method \notin PlainMethods /\ params = "malformed"
  BY <1>2 DEF Outcomes
<1>3. CASE method = "tools/call" /\ params \in {"unknown", "registered"}
  BY <1>3 DEF Outcomes, PlainMethods
<1>4. CASE /\ method \in {"resources/read", "prompts/get"}
           /\ params \in {"unknown", "registered"}
  BY <1>4 DEF Outcomes, PlainMethods
<1> QED  BY <1>1, <1>2, <1>3, <1>4 DEF Handlers, Params

\* A reply at most, to the message at hand.
LEMMA Reply ==
  ASSUME Types, HandleRequest
  PROVE  /\ message \in 1 .. Len(frames) /\ Current.valid
         /\ pc' \in {"loop", "terminated"}
         /\ \/ UNCHANGED replies /\ ~(pc' = "loop" /\ Current.wantsReply)
            \/ \E kind \in Kinds :
                 /\ Current.wantsReply
                 /\ kind = "MethodNotFound" <=> ~HasHandler(Current.method)
                 /\ replies' = Append(replies, [to |-> message, kind |-> kind])
<1>1. /\ Len(frames) \in Nat
      /\ \A i \in 1 .. Len(frames) : frames[i] \in Frame
  BY FrameTypes DEF Types
<1>2. message \in 1 .. Len(frames) /\ Current.valid
  <2>1. message \in 0 .. Len(frames) /\ message # 0 /\ Current.valid
    BY DEF HandleRequest, Valid, Current, Types
  <2> QED  BY <1>1, <2>1
<1>3. /\ Current.method \in Handlers \union {"nothing"}
      /\ Current.params \in Params
  <2>1. Current \in Message
    BY <1>1, <1>2 DEF Current, Frame
  <2>2. Current # [valid |-> FALSE]
    BY <1>2
  <2>3. Current \in [valid : {TRUE}, wantsReply : BOOLEAN,
                     method : Handlers \union {"nothing"}, params : Params]
    BY <2>1, <2>2 DEF Message
  <2> QED  BY <2>3
<1>4. \E kind \in Kinds \union {"unprintable"} :
        /\ WriteMessage(kind)
        /\ kind = "MethodNotFound" <=> ~HasHandler(Current.method)
  <2>1. CASE ~HasHandler(Current.method)
    <3>1. WriteMessage("MethodNotFound")
      BY <2>1 DEF HandleRequest
    <3>2. "MethodNotFound" \in Kinds \union {"unprintable"}
      BY DEF Kinds
    <3> QED  BY <2>1, <3>1, <3>2
  <2>2. CASE HasHandler(Current.method)
    <3>1. PICK outcome \in Outcomes(Current.method, Current.params) :
            WriteMessage(IF outcome = "throws" THEN "InternalError"
                         ELSE outcome)
      BY <2>2 DEF HandleRequest
    <3>2. outcome \in {"result", "unprintable", "throws"}
      BY <1>3, <2>2, <3>1, HandlerOutcomes DEF HasHandler
    <3> DEFINE kind == IF outcome = "throws" THEN "InternalError" ELSE outcome
    <3>3. /\ kind \in Kinds \union {"unprintable"}
          /\ kind # "MethodNotFound"
      BY <3>2 DEF Kinds
    <3>4. WriteMessage(kind)
      BY <3>1
    <3> HIDE DEF kind
    <3> QED  BY <2>2, <3>3, <3>4
  <2> QED  BY <2>1, <2>2
<1>5. PICK kind \in Kinds \union {"unprintable"} :
        /\ WriteMessage(kind)
        /\ kind = "MethodNotFound" <=> ~HasHandler(Current.method)
  BY <1>4
<1>6. CASE Current.wantsReply /\ kind # "unprintable"
  <2>1. /\ pc' = "loop" /\ kind \in Kinds
        /\ replies' = Append(replies, [to |-> message, kind |-> kind])
    BY <1>5, <1>6 DEF WriteMessage
  <2> QED  BY <1>2, <1>5, <1>6, <2>1
<1>7. CASE ~(Current.wantsReply /\ kind # "unprintable")
  <2>1. /\ UNCHANGED replies /\ pc' \in {"loop", "terminated"}
        /\ ~(pc' = "loop" /\ Current.wantsReply)
    BY <1>5, <1>7 DEF WriteMessage
  <2> QED  BY <1>2, <2>1
<1> QED  BY <1>6, <1>7

\* Run handles a message.
LEMMA HandleSteps ==
  ASSUME InputInv, ReplyInv, Discard \/ HandleRequest
  PROVE  InputInv' /\ ReplyInv'
<1>1. /\ UNCHANGED <<client, torn, in, eof, length, message>>
      /\ pc = "handle" /\ Types
      /\ Len(frames) \in Nat
  <2>1. Types /\ Len(frames) \in Nat
    BY FrameTypes DEF InputInv, Types
  <2> QED  BY <2>1 DEF Discard, HandleRequest
<1>2. /\ eof \in BOOLEAN /\ length \in Measured
      /\ message \in 0 .. Len(frames)
      /\ replies \in Seq([to : 1 .. Len(frames), kind : Kinds])
  BY <1>1 DEF Types
<1>3. Takes(0)
  BY <1>1, TakesNothing
<1>4. CASE UNCHANGED replies /\ pc' \in {"loop", "terminated"}
  <2>1. AtBody'
    BY <1>4 DEF AtBody
  <2> QED  BY <1>1, <1>2, <1>3, <1>4, <2>1, TakesInput, TakesOrder
<1>5. ASSUME HandleRequest, pc' \in {"loop", "terminated"},
             message \in 1 .. Len(frames), Current.valid,
             NEW kind \in Kinds, Current.wantsReply,
             kind = "MethodNotFound" <=> ~HasHandler(Current.method),
             replies' = Append(replies, [to |-> message, kind |-> kind])
      PROVE  InputInv' /\ ReplyInv'
  <2> DEFINE reply == [to |-> message, kind |-> kind]
             Reply0 == [to : 1 .. Len(frames), kind : Kinds]
  <2>1. reply \in Reply0 /\ reply.to = message /\ reply.kind = kind
    BY <1>5
  <2>2. replies \in Seq(Reply0) /\ replies' = Append(replies, reply)
    BY <1>2, <1>5
  <2> HIDE DEF reply, Reply0
  <2>3. /\ replies' \in Seq(Reply0) /\ Len(replies) \in Nat
        /\ Len(replies') = Len(replies) + 1
        /\ replies'[Len(replies) + 1] = reply
        /\ \A i \in 1 .. Len(replies) : replies'[i] = replies[i]
    BY <2>1, <2>2, AppendProperties, LenProperties
  <2>4. \A i \in 1 .. Len(replies') :
          i \in 1 .. Len(replies) \/ i = Len(replies) + 1
    BY <2>3
  <2>5. Types'
    <3>1. replies' \in Seq([to : 1 .. Len(frames'), kind : Kinds])
      BY <1>1, <2>3 DEF Reply0
    <3>2. pc' \in {"loop", "headers", "body", "handle", "exited",
                   "terminated"}
      BY <1>5
    <3>3. in' \in Seq(Items') /\ Items' = Items
      BY <1>1 DEF Types, Items
    <3> QED  BY <1>1, <3>1, <3>2, <3>3 DEF Types
  <2>6. Turns'
    BY <1>3, TakesTurns DEF InputInv
  <2>7. AtBody'
    BY <1>5 DEF AtBody
  <2>8. /\ \A i \in 1 .. Len(replies) : replies[i].to < message
        /\ \A k \in 1 .. Len(in) : IsWhole(k) => message < in[k].frame
    <3>1. message # 0
      BY <1>1, <1>5
    <3> QED  BY <1>1, <3>1 DEF ReplyInv, Order
  <2>9. \A i, j \in 1 .. Len(replies') :
          i < j => replies'[i].to < replies'[j].to
    <3> SUFFICES ASSUME NEW i \in 1 .. Len(replies'),
                        NEW j \in 1 .. Len(replies'), i < j
                 PROVE  replies'[i].to < replies'[j].to
      OBVIOUS
    <3>1. i \in 1 .. Len(replies) /\ replies'[i] = replies[i]
      BY <2>3
    <3>2. CASE j \in 1 .. Len(replies)
      BY <2>3, <3>1, <3>2 DEF ReplyInv, Order
    <3>3. CASE j = Len(replies) + 1
      BY <2>1, <2>3, <2>8, <3>1, <3>3
    <3> QED  BY <2>4, <3>2, <3>3
  <2>10. \A i \in 1 .. Len(replies'), k \in 1 .. Len(in') :
           IsWhole(k)' => replies'[i].to < in'[k].frame
    <3> SUFFICES ASSUME NEW i \in 1 .. Len(replies'),
                        NEW k \in 1 .. Len(in), IsWhole(k)
                 PROVE  replies'[i].to < in[k].frame
      BY <1>1 DEF IsWhole, IsText
    <3>1. CASE i \in 1 .. Len(replies)
      BY <2>3, <3>1 DEF ReplyInv, Order
    <3>2. CASE i = Len(replies) + 1
      BY <2>1, <2>3, <2>8, <3>2
    <3> QED  BY <2>4, <3>1, <3>2
  <2>11. Order'
    <3>1. pc' # "handle"
      BY <1>5
    <3> QED  BY <2>9, <2>10, <3>1 DEF Order
  <2>12. Fitting'
    <3> SUFFICES ASSUME NEW i \in 1 .. Len(replies')
                 PROVE  LET m == frames[replies'[i].to].message IN
                          /\ m.valid /\ m.wantsReply
                          /\ replies'[i].kind = "MethodNotFound"
                               <=> ~HasHandler(m.method)
      BY <1>1 DEF Fitting
    <3>1. CASE i \in 1 .. Len(replies)
      BY <2>3, <3>1 DEF ReplyInv, Fitting
    <3>2. CASE i = Len(replies) + 1
      <4>1. replies'[i].to = message /\ replies'[i].kind = kind
        BY <2>1, <2>3, <3>2
      <4> QED  BY <1>5, <4>1 DEF Current
    <3> QED  BY <2>4, <3>1, <3>2
  <2> QED  BY <2>5, <2>6, <2>7, <2>11, <2>12 DEF InputInv, ReplyInv
<1>6. CASE Discard
  BY <1>4, <1>6 DEF Discard
<1>7. CASE HandleRequest
  BY <1>1, <1>4, <1>5, <1>7, Reply
<1> QED  BY <1>6, <1>7

\* No step breaks the shape of the input or the order of the replies.
LEMMA NextInv ==
  ASSUME InputInv, ReplyInv, [Next]_vars PROVE InputInv' /\ ReplyInv'
<1>1. CASE Step
  BY <1>1, LineSteps, BodyStep, HandleSteps DEF Step
<1>2. CASE UNCHANGED vars
  <2>1. UNCHANGED <<client, torn, in, eof, pc, length, message, replies>>
    BY <1>2 DEF vars
  <2>2. Types'
    BY <2>1 DEF InputInv, Types, Items
  <2>3. Turns' /\ AtBody'
    BY <2>1 DEF InputInv, Turns, AtBody, IsText
  <2>4. Order' /\ Fitting'
    BY <2>1 DEF ReplyInv, Order, Fitting, IsWhole, IsText
  <2> QED  BY <2>2, <2>3, <2>4 DEF InputInv, ReplyInv
<1> QED  BY <1>1, <1>2 DEF Next, Ended

\* In every reachable state.
LEMMA Reachable == Spec => [](InputInv /\ ReplyInv)
<1>1. Init => InputInv /\ ReplyInv
  BY InitInv
<1>2. (InputInv /\ ReplyInv) /\ [Next]_vars => (InputInv /\ ReplyInv)'
  BY NextInv
<1> QED  BY <1>1, <1>2, PTL DEF Spec

\* The stream, the locals of ReadMessage and the output keep their types
\* (stdio_jsonrpc.cpp:145-190).
THEOREM StdioTypes == Spec => []TypeOK
<1>1. InputInv => TypeOK
  <2> SUFFICES ASSUME Types PROVE TypeOK
    BY DEF InputInv
  <2>1. Len(frames) \in Nat /\ Len(frames) <= MaxFrames
    BY FrameTypes DEF Types
  <2>2. in \in Seq(ItemType)
    <3>1. Items \subseteq ItemType
      <4>1. \A i \in 0 .. Len(frames) : i \in 0 .. MaxFrames
        BY <2>1, FramesAssumption
      <4> QED  BY <4>1 DEF Items, ItemType
    <3>2. in \in Seq(Items)
      BY DEF Types
    <3> HIDE DEF Items
    <3> QED  BY <3>1, <3>2, SeqDef
  <2>3. length \in Lengths \union {"not found"}
    BY DEF Types, Measured, Lengths
  <2> QED  BY <2>2, <2>3 DEF Types, TypeOK, Kinds
<1> QED  BY <1>1, Reachable, PTL

\* Whatever the input, replies go to requests with an id, in the order of
\* the requests, and no request gets two (stdio_jsonrpc.cpp:103-143).
THEOREM RepliesInOrder == Spec => []RepliesAreToRequests
<1>1. InputInv /\ ReplyInv => RepliesAreToRequests
  <2> SUFFICES ASSUME Types, Order, Fitting PROVE RepliesAreToRequests
    BY DEF InputInv, ReplyInv
  <2>1. DOMAIN replies = 1 .. Len(replies)
    BY LenProperties DEF Types
  <2> QED  BY <2>1 DEF Order, Fitting, RepliesAreToRequests
<1> QED  BY <1>1, Reachable, PTL

-------------------------------------------------------------------------------
(* While all is well framed.                                               *)

\* r items have been read, and the others are as the client sent them.
At(r) ==
  /\ Len(in) = sent - r
  /\ \A k \in 1 .. Len(in) : in[k] = Encode(frames)[r + k]

\* Run is somewhere in the frame after the first i, which are answered.
InFrame(i) ==
  /\ AnsweredUpTo(i)
  /\ ~eof
  /\ \/ pc = "loop" /\ At(3 * i)
     \/ pc = "headers" /\ length = "not found" /\ At(3 * i)
     \/ pc = "headers" /\ length = "exact" /\ At(3 * i + 1)
     \/ pc = "body" /\ length = "exact" /\ At(3 * i + 2)
     \/ pc = "handle" /\ message = i + 1 /\ At(3 * i + 3)

\* Of the first n frames, well framed, all are answered, or the next one is
\* at hand, unless a reply that is not UTF-8 has ended the program.
OnItsWay(n) ==
  \/ AnsweredUpTo(n)
  \/ pc = "terminated"
  \/ \E i \in Nat : i < n /\ InFrame(i)

FramingInv ==
  \A n \in 0 .. Len(frames) : FramedUpTo(n, AcceptedKey) => OnItsWay(n)

\* The frame at hand is whole, and its items come next.
LEMMA FrameAtHand ==
  ASSUME Types, NEW n \in 0 .. Len(frames), FramedUpTo(n, AcceptedKey),
         NEW i \in Nat, i < n
  PROVE  /\ i + 1 \in 1 .. Len(frames) /\ Len(frames) \in Nat
         /\ sent \in Nat /\ 3 * i + 3 <= sent
         /\ Encode(frames)[3 * i + 1].item = "header"
         /\ Encode(frames)[3 * i + 1].key = AcceptedKey
         /\ Encode(frames)[3 * i + 1].length = "exact"
         /\ Encode(frames)[3 * i + 2].item = "blank"
         /\ Encode(frames)[3 * i + 3].item = "text"
         /\ Encode(frames)[3 * i + 3].frame = i + 1
<1>1. /\ Len(frames) \in Nat /\ sent \in 0 .. 3 * Len(frames)
      /\ \A k \in 1 .. Len(frames) : frames[k] \in Frame
  BY FrameTypes DEF Types
<1> DEFINE j == i + 1
<1>2. /\ j \in 1 .. n /\ j \in 1 .. Len(frames) /\ j \in Nat /\ 3 * n <= sent
  BY <1>1 DEF FramedUpTo
<1>3. /\ 3 * i + 1 = 3 * j - 2 /\ 3 * i + 2 = 3 * j - 1 /\ 3 * i + 3 = 3 * j
      /\ 3 * i + 3 <= sent /\ sent \in Nat
  BY <1>1, <1>2
<1>4. frames[j].key = AcceptedKey /\ frames[j].length = "exact"
  BY <1>2 DEF FramedUpTo
<1>5. frames[j] \in Frame
  BY <1>1, <1>2
<1> HIDE DEF j
<1>6. /\ Encode(frames)[3 * j - 2] = Header(frames[j])
      /\ Encode(frames)[3 * j - 1] = Blank
      /\ Encode(frames)[3 * j] = Text(j)
  BY <1>1, <1>2, EncodeItems
<1>7. /\ Header(frames[j]).item = "header" /\ Blank.item = "blank"
      /\ Header(frames[j]).key = AcceptedKey
      /\ Header(frames[j]).length = "exact"
      /\ Text(j).item = "text" /\ Text(j).frame = j
  BY <1>2, <1>4, <1>5, ItemKinds
<1> QED  BY <1>1, <1>2, <1>3, <1>6, <1>7 DEF j

\* The next item.
LEMMA NextItem ==
  ASSUME Types, NEW r \in Nat, At(r), r < sent
  PROVE  /\ in # <<>> /\ in[1] = Encode(frames)[r + 1]
         /\ Len(in) \in Nat /\ Len(in) = sent - r
         /\ in' = Tail(in) /\ UNCHANGED client => At(r + 1)'
<1>1. Len(in) \in Nat /\ Len(in) = sent - r /\ sent \in Nat
  <2>1. Len(frames) \in Nat /\ sent \in 0 .. 3 * Len(frames)
    BY FrameTypes DEF Types
  <2>2. Len(in) \in Nat /\ Len(in) = sent - r
    BY InputSeq DEF At
  <2> QED  BY <2>1, <2>2
<1>2. in # <<>> /\ 1 \in 1 .. Len(in)
  <2>1. Len(in) # 0 /\ 1 \in 1 .. Len(in)
    BY <1>1
  <2> QED  BY <2>1, InputSeq
<1>3. ASSUME in' = Tail(in), UNCHANGED client
      PROVE  At(r + 1)'
  <2>1. /\ in \in Seq(Items) /\ Len(in') = Len(in) - 1
        /\ \A k \in 1 .. Len(in') : in'[k] = in[k + 1]
    <3>1. in \in Seq(Items)
      BY InputSeq
    <3> HIDE DEF Items
    <3> QED  BY <1>2, <1>3, <3>1, HeadTailProperties
  <2>2. Len(in') = sent - (r + 1)
    BY <1>1, <2>1
  <2>3. ASSUME NEW k \in 1 .. Len(in')
        PROVE  in'[k] = Encode(frames)[(r + 1) + k]
    <3>1. k + 1 \in 1 .. Len(in) /\ r + (k + 1) = (r + 1) + k
      BY <1>1, <2>1
    <3>2. in'[k] = in[k + 1] /\ in[k + 1] = Encode(frames)[r + (k + 1)]
      BY <2>1, <3>1 DEF At
    <3> QED  BY <3>1, <3>2
  <2>4. UNCHANGED <<frames, sent>> /\ Encode(frames)' = Encode(frames)
    BY <1>3 DEF Encode
  <2> QED  BY <2>2, <2>3, <2>4 DEF At
<1> QED  BY <1>1, <1>2, <1>3 DEF At

\* What has been replied to stays so.
LEMMA Grows ==
  ASSUME InputInv, Step
  PROVE  /\ UNCHANGED client
         /\ \A i : Replied(i) => Replied(i)'
<1>1. UNCHANGED client
  BY DEF Step, Loop, ReadHeader, ReadBlank, ReadPastEnd, ReadBody, Discard,
         HandleRequest
<1>2. CASE UNCHANGED replies
  BY <1>1, <1>2 DEF Replied
<1>3. CASE HandleRequest
  <2>1. /\ replies \in Seq([to : 1 .. Len(frames), kind : Kinds])
        /\ message \in 1 .. Len(frames)
    BY <1>3, Reply DEF InputInv, Types
  <2>2. PICK kind \in Kinds :
          UNCHANGED replies
          \/ replies' = Append(replies, [to |-> message, kind |-> kind])
    <3>1. \E kind : kind \in Kinds
      BY DEF Kinds
    <3> QED  BY <1>3, <3>1, Reply DEF InputInv
  <2>3. ASSUME replies' = Append(replies, [to |-> message, kind |-> kind])
        PROVE  \A i : Replied(i) => Replied(i)'
    <3> DEFINE reply == [to |-> message, kind |-> kind]
               Reply0 == [to : 1 .. Len(frames), kind : Kinds]
    <3>1. reply \in Reply0 /\ replies \in Seq(Reply0)
          /\ replies' = Append(replies, reply)
      BY <2>1, <2>3
    <3> HIDE DEF reply, Reply0
    <3>2. /\ replies' \in Seq(Reply0) /\ Len(replies) \in Nat
          /\ Len(replies') = Len(replies) + 1
          /\ \A k \in 1 .. Len(replies) : replies'[k] = replies[k]
          /\ DOMAIN replies = 1 .. Len(replies)
          /\ DOMAIN replies' = 1 .. Len(replies')
      BY <3>1, AppendProperties, LenProperties
    <3>3. \A k \in DOMAIN replies :
            k \in DOMAIN replies' /\ replies'[k] = replies[k]
      BY <3>2
    <3> QED  BY <3>3 DEF Replied
  <2> QED  BY <1>2, <1>1, <2>2, <2>3 DEF Replied
<1>4. UNCHANGED replies \/ HandleRequest
  BY DEF Step, Loop, ReadHeader, ReadBlank, ReadPastEnd, ReadBody, Discard
<1> QED  BY <1>1, <1>2, <1>3, <1>4

\* The message at hand is replied to when it is a request with an id.
LEMMA AnswersCurrent ==
  ASSUME InputInv, Discard \/ HandleRequest
  PROVE  /\ UNCHANGED <<in, eof, message>> /\ pc' \in {"loop", "terminated"}
         /\ pc' = "loop" /\ Valid /\ Current.wantsReply => Replied(message)'
<1>1. CASE Discard
  BY <1>1 DEF Discard
<1>2. CASE HandleRequest
  <2>1. UNCHANGED <<in, eof, message>> /\ pc' \in {"loop", "terminated"}
    BY <1>2, Reply DEF HandleRequest, InputInv
  <2>2. ASSUME pc' = "loop", Current.wantsReply
        PROVE  Replied(message)'
    <3>1. PICK kind \in Kinds :
            replies' = Append(replies, [to |-> message, kind |-> kind])
      BY <1>2, <2>2, Reply DEF InputInv
    <3>2. /\ replies \in Seq([to : 1 .. Len(frames), kind : Kinds])
          /\ message \in 1 .. Len(frames)
      BY <1>2, Reply DEF InputInv, Types
    <3> DEFINE reply == [to |-> message, kind |-> kind]
               Reply0 == [to : 1 .. Len(frames), kind : Kinds]
    <3>3. /\ reply \in Reply0 /\ reply.to = message
          /\ replies \in Seq(Reply0) /\ replies' = Append(replies, reply)
      BY <3>1, <3>2
    <3> HIDE DEF reply, Reply0
    <3>4. /\ Len(replies) \in Nat /\ Len(replies') = Len(replies) + 1
          /\ replies'[Len(replies) + 1] = reply
          /\ DOMAIN replies' = 1 .. Len(replies')
      BY <3>3, AppendProperties, LenProperties
    <3>5. Len(replies) + 1 \in DOMAIN replies'
      BY <3>4
    <3> QED  BY <2>1, <3>3, <3>4, <3>5 DEF Replied
  <2> QED  BY <2>1, <2>2
<1> QED  BY <1>1, <1>2

\* A step within a frame goes on in it or answers it.
LEMMA FrameStep ==
  ASSUME InputInv, Step, NEW n \in 0 .. Len(frames),
         FramedUpTo(n, AcceptedKey), NEW i \in Nat, i < n, InFrame(i)
  PROVE  \/ pc' = "terminated"
         \/ InFrame(i)'
         \/ AnsweredUpTo(i + 1)' /\ InFrame(i + 1)'
<1>1. /\ i + 1 \in 1 .. Len(frames) /\ Len(frames) \in Nat
      /\ sent \in Nat /\ 3 * i + 3 <= sent
      /\ Encode(frames)[3 * i + 1].item = "header"
      /\ Encode(frames)[3 * i + 1].key = AcceptedKey
      /\ Encode(frames)[3 * i + 1].length = "exact"
      /\ Encode(frames)[3 * i + 2].item = "blank"
      /\ Encode(frames)[3 * i + 3].item = "text"
      /\ Encode(frames)[3 * i + 3].frame = i + 1
  BY FrameAtHand DEF InputInv
<1>2. /\ UNCHANGED client /\ Types
      /\ \A k : Replied(k) => Replied(k)'
  BY Grows DEF InputInv
<1>3. AnsweredUpTo(i)' /\ ~eof
  BY <1>2 DEF InFrame, AnsweredUpTo
<1>4. CASE pc = "loop" /\ At(3 * i)
  <2>1. Loop
    BY <1>4 DEF Step, ReadHeader, ReadBlank, ReadPastEnd, ReadBody, Discard,
                HandleRequest
  <2>2. /\ pc' = "headers" /\ length' = "not found"
        /\ UNCHANGED <<in, eof, frames, sent>>
    BY <1>3, <2>1 DEF Loop, InputOver
  <2>3. At(3 * i)'
    BY <1>4, <2>2 DEF At, Encode
  <2> QED  BY <1>3, <2>2, <2>3 DEF InFrame
<1>5. CASE pc = "headers" /\ length = "not found" /\ At(3 * i)
  <2>1. 3 * i \in Nat /\ 3 * i < sent /\ 3 * i + 2 < sent
    BY <1>1
  <2>2. /\ in # <<>> /\ in[1] = Encode(frames)[3 * i + 1]
        /\ Len(in) \in Nat /\ Len(in) = sent - 3 * i
        /\ in' = Tail(in) => At(3 * i + 1)'
    BY <1>2, <1>5, <2>1, NextItem
  <2>3. /\ in[1].item = "header" /\ in[1].key = AcceptedKey
        /\ in[1].length = "exact"
    BY <1>1, <2>2
  <2>4. ~LastLine /\ Line = in[1] /\ AfterLine = Tail(in)
    BY <2>2, <2>3 DEF LastLine, Line, AfterLine
  <2>5. ReadHeader
    BY <1>5, <2>3, <2>4 DEF Step, Loop, ReadBlank, ReadPastEnd, ReadBody,
                            Discard, HandleRequest
  <2>6. /\ in' = Tail(in) /\ pc' = "headers" /\ length' = "exact"
        /\ UNCHANGED eof
    BY <1>5, <2>3, <2>4, <2>5 DEF ReadHeader
  <2> QED  BY <1>3, <2>2, <2>6 DEF InFrame
<1>6. CASE pc = "headers" /\ length = "exact" /\ At(3 * i + 1)
  <2>1. 3 * i + 1 \in Nat /\ 3 * i + 1 < sent /\ (3 * i + 1) + 1 = 3 * i + 2
    BY <1>1
  <2>2. /\ in # <<>> /\ in[1] = Encode(frames)[3 * i + 2]
        /\ in' = Tail(in) => At(3 * i + 2)'
    BY <1>2, <1>6, <2>1, NextItem
  <2>3. in[1].item = "blank"
    BY <1>1, <2>2
  <2>4. ~LastLine /\ Line = in[1] /\ AfterLine = Tail(in)
    BY <2>2, <2>3 DEF LastLine, Line, AfterLine
  <2>5. ReadBlank
    BY <1>6, <2>3, <2>4 DEF Step, Loop, ReadHeader, ReadPastEnd, ReadBody,
                            Discard, HandleRequest
  <2>6. in' = Tail(in) /\ AfterHeaders(length) /\ UNCHANGED <<eof, length>>
    BY <2>4, <2>5 DEF ReadBlank
  <2>7. length \notin {"not found", "zero"} /\ length # "negative"
    BY <1>6
  <2>8. pc' = "body"
    BY <2>6, <2>7 DEF AfterHeaders
  <2> QED  BY <1>3, <1>6, <2>2, <2>6, <2>8 DEF InFrame
<1>7. CASE pc = "body" /\ length = "exact" /\ At(3 * i + 2)
  <2>1. 3 * i + 2 \in Nat /\ 3 * i + 2 < sent /\ (3 * i + 2) + 1 = 3 * i + 3
    BY <1>1
  <2>2. /\ in # <<>> /\ in[1] = Encode(frames)[3 * i + 3]
        /\ in' = Tail(in) => At(3 * i + 3)'
    BY <1>2, <1>7, <2>1, NextItem
  <2>3. in[1].frame = i + 1
    BY <1>1, <2>2
  <2>4. ReadBody
    BY <1>7 DEF Step, Loop, ReadHeader, ReadBlank, ReadPastEnd, Discard,
                HandleRequest
  <2>5. in' = Tail(in) /\ message' = in[1].frame /\ pc' = "handle" /\ UNCHANGED eof
    BY <1>7, <2>2, <2>4 DEF ReadBody
  <2> QED  BY <1>3, <2>2, <2>3, <2>5 DEF InFrame
<1>8. CASE pc = "handle" /\ message = i + 1 /\ At(3 * i + 3)
  <2>1. Discard \/ HandleRequest
    BY <1>8 DEF Step, Loop, ReadHeader, ReadBlank, ReadPastEnd, ReadBody
  <2>2. /\ UNCHANGED <<in, eof, message>> /\ pc' \in {"loop", "terminated"}
        /\ pc' = "loop" /\ Valid /\ Current.wantsReply => Replied(message)'
    BY <2>1, AnswersCurrent
  <2>3. CASE pc' = "loop"
    <3>1. /\ i + 1 # 0 /\ 3 * (i + 1) = 3 * i + 3
          /\ \A k \in 1 .. i + 1 : k \in 1 .. i \/ k = i + 1
      BY <1>1
    <3>2. LET m == frames[i + 1].message IN
            m.valid /\ m.wantsReply => Replied(i + 1)'
      BY <1>8, <2>2, <2>3, <3>1 DEF Valid, Current, Replied
    <3>3. AnsweredUpTo(i + 1)'
      BY <1>2, <1>3, <3>1, <3>2 DEF AnsweredUpTo
    <3>4. At(3 * (i + 1))'
      BY <1>2, <1>8, <2>2, <3>1 DEF At, Encode
    <3> QED  BY <1>3, <2>2, <2>3, <3>3, <3>4 DEF InFrame
  <2> QED  BY <2>2, <2>3
<1> QED  BY <1>4, <1>5, <1>6, <1>7, <1>8 DEF InFrame

\* So the first frames stay on their way.
LEMMA FramingStep ==
  ASSUME InputInv, FramingInv, [Next]_vars PROVE FramingInv'
<1>1. CASE Step
  <2>1. /\ UNCHANGED client
        /\ \A k : Replied(k) => Replied(k)'
    BY <1>1, Grows
  <2> SUFFICES ASSUME NEW n \in 0 .. Len(frames), FramedUpTo(n, AcceptedKey)
               PROVE  OnItsWay(n)'
    BY <2>1 DEF FramingInv, FramedUpTo
  <2>2. OnItsWay(n) /\ n \in Nat
    <3>1. Len(frames) \in Nat
      BY FrameTypes DEF InputInv, Types
    <3> QED  BY <3>1 DEF FramingInv
  <2>3. CASE AnsweredUpTo(n)
    <3>1. AnsweredUpTo(n)'
      BY <2>1, <2>3 DEF AnsweredUpTo
    <3> QED  BY <3>1 DEF OnItsWay
  <2>4. CASE pc = "terminated"
    BY <1>1, <2>4 DEF Step, Loop, ReadHeader, ReadBlank, ReadPastEnd, ReadBody,
                      Discard, HandleRequest
  <2>5. ASSUME NEW i \in Nat, i < n, InFrame(i)
        PROVE  OnItsWay(n)'
    <3>1. CASE pc' = "terminated"
      BY <3>1 DEF OnItsWay
    <3>2. CASE InFrame(i)'
      BY <2>5, <3>2 DEF OnItsWay
    <3>3. CASE AnsweredUpTo(i + 1)' /\ InFrame(i + 1)'
      <4>1. i + 1 \in Nat /\ (i + 1 < n \/ i + 1 = n)
        BY <2>2, <2>5
      <4> QED  BY <3>3, <4>1 DEF OnItsWay
    <3> QED  BY <1>1, <2>5, <3>1, <3>2, <3>3, FrameStep
  <2> QED  BY <2>2, <2>3, <2>4, <2>5 DEF OnItsWay
<1>2. CASE UNCHANGED vars
  <2>1. UNCHANGED <<frames, sent, in, eof, pc, length, message, replies>>
    BY <1>2 DEF vars
  <2> SUFFICES ASSUME NEW n \in 0 .. Len(frames), FramedUpTo(n, AcceptedKey)
               PROVE  OnItsWay(n)'
    BY <2>1 DEF FramingInv, FramedUpTo
  <2>2. \A i \in Nat : AnsweredUpTo(i) => AnsweredUpTo(i)'
    BY <2>1 DEF AnsweredUpTo, Replied
  <2>3. \A r \in Nat : At(r) => At(r)'
    BY <2>1 DEF At, Encode
  <2>4. \A i \in Nat : InFrame(i) => InFrame(i)'
    <3> SUFFICES ASSUME NEW i \in Nat, InFrame(i) PROVE InFrame(i)'
      OBVIOUS
    <3>1. /\ 3 * i \in Nat /\ 3 * i + 1 \in Nat /\ 3 * i + 2 \in Nat
          /\ 3 * i + 3 \in Nat
      OBVIOUS
    <3> QED  BY <2>1, <2>2, <2>3, <3>1 DEF InFrame
  <2>5. n \in Nat /\ OnItsWay(n)
    <3>1. Len(frames) \in Nat
      BY FrameTypes DEF InputInv, Types
    <3> QED  BY <3>1 DEF FramingInv
  <2> QED  BY <2>1, <2>2, <2>4, <2>5 DEF OnItsWay
<1> QED  BY <1>1, <1>2 DEF Next, Ended

\* Text that is no JSON, unknown methods, failing handlers and notifications
\* do not disturb the framing: a server that exits at the end of its input
\* has answered every request before the first misframed message
\* (stdio_jsonrpc.cpp:111-143).
THEOREM FramedAnswered == Spec => []FramedRequestsAnswered
<1>1. Init => FramingInv
  <2> SUFFICES ASSUME Init, NEW n \in 0 .. Len(frames) PROVE OnItsWay(n)
    BY DEF FramingInv
  <2>1. Len(frames) \in Nat
    BY FrameTypes DEF Init
  <2>2. CASE n = 0
    <3>1. AnsweredUpTo(0)
      BY DEF AnsweredUpTo
    <3> QED  BY <2>2, <3>1 DEF OnItsWay
  <2>3. CASE n # 0
    <3>1. 0 \in Nat /\ 0 < n /\ 3 * 0 = 0
      BY <2>1, <2>3
    <3>2. At(0)
      <4>1. /\ Len(in) = sent /\ sent \in Nat
            /\ \A k \in 1 .. Len(in) : in[k] = Encode(frames)[k]
        <5>1. sent \in 0 .. 3 * Len(frames)
          BY DEF Init
        <5>2. sent \in Nat
          BY <2>1, <5>1
        <5> QED  BY <5>2, InitInput
      <4>2. sent - 0 = sent
        BY <4>1
      <4>3. ASSUME NEW k \in 1 .. Len(in)
            PROVE  in[k] = Encode(frames)[0 + k]
        <5>1. 0 + k = k
          BY <4>1
        <5> QED  BY <4>1, <5>1
      <4> QED  BY <4>1, <4>2, <4>3 DEF At
    <3>3. InFrame(0)
      <4>1. AnsweredUpTo(0)
        BY DEF AnsweredUpTo
      <4>2. ~eof /\ pc = "loop"
        BY DEF Init
      <4> QED  BY <3>1, <3>2, <4>1, <4>2 DEF InFrame
    <3> QED  BY <3>1, <3>3 DEF OnItsWay
  <2> QED  BY <2>2, <2>3
<1>2. InputInv /\ FramingInv /\ [Next]_vars => FramingInv'
  BY FramingStep
<1>3. FramingInv => FramedRequestsAnswered
  <2> SUFFICES ASSUME FramingInv, pc = "exited", NEW n \in 0 .. Len(frames),
                      FramedUpTo(n, AcceptedKey)
               PROVE  AnsweredUpTo(n)
    BY DEF FramedRequestsAnswered
  <2>1. OnItsWay(n)
    BY DEF FramingInv
  <2>2. \A i \in Nat : ~InFrame(i)
    BY DEF InFrame
  <2> QED  BY <2>1, <2>2 DEF OnItsWay
<1>4. Spec => []InputInv
  BY Reachable, PTL
<1> QED  BY <1>1, <1>2, <1>3, <1>4, PTL DEF Spec

-------------------------------------------------------------------------------
(* What follows a misframed message when the texts do not end with a       *)
(* newline.                                                                *)

NextKind == [header |-> "blank", blank |-> "text", text |-> "header"]

\* What Run reads as headers begins in the middle of a message, and whatever
\* it has read of one is no message.
Lost ==
  /\ pc \in {"loop", "headers", "handle"}
  /\ pc = "headers" => length = "not found"
  /\ pc = "handle" => message = 0
  /\ in # <<>> => ~ (in[1].item = "header" /\ in[1].key = AcceptedKey)

\* Run has ended, or a body is to be read and there is nothing left.
Over == pc \in {"exited", "terminated"} \/ (pc = "body" /\ in = <<>>)

\* The length is the one frame i + 1 announces.
Announced(i) ==
  /\ i + 1 \in 1 .. Len(frames)
  /\ frames[i + 1].key = AcceptedKey /\ frames[i + 1].length = length

\* The first i frames were well framed, and Run is in the next one.
OnTrack(i) ==
  /\ FramedUpTo(i, AcceptedKey)
  /\ \/ pc = "loop" /\ At(3 * i)
     \/ pc = "headers" /\ length = "not found" /\ At(3 * i)
     \/ pc = "headers" /\ Announced(i) /\ At(3 * i + 1)
     \/ pc = "body" /\ Announced(i) /\ At(3 * i + 2)
     \/ /\ pc = "handle" /\ message = i + 1 /\ At(3 * i + 3)
        /\ FramedUpTo(i + 1, AcceptedKey)

TrackInv == ~newline => Lost \/ Over \/ \E i \in Nat : OnTrack(i)

\* What comes after the items that are taken.
LEMMA AfterTaken ==
  ASSUME Types, Turns, NEW m, Takes(m), m # 0, in' # <<>>
  PROVE  m \in 1 .. Len(in) /\ in'[1].item = NextKind[in[m].item]
<1>1. /\ Len(in) \in Nat /\ m \in 1 .. Len(in) /\ Len(in') = Len(in) - m
      /\ in' \in Seq(Items)
  <2>1. /\ Len(in) \in Nat /\ m \in 0 .. Len(in) /\ Len(in') = Len(in) - m
        /\ in' \in Seq(Items)
    BY InputSeq DEF Takes
  <2> QED  BY <2>1
<1>2. in[m].item \in {"header", "blank", "text"}
  BY <1>1, InputItems
<1>3. Len(in') # 0 /\ Len(in') \in Nat
  <2> HIDE DEF Items
  <2> QED  BY <1>1, EmptySeq, LenProperties
<1>4. 1 \in 1 .. Len(in') /\ m + 1 \in 1 .. Len(in) /\ 1 + m = m + 1
  BY <1>1, <1>3
<1>5. in'[1].item = in[m + 1].item
  BY <1>4 DEF Takes
<1>6. /\ in[m].item = "header" => in[m + 1].item = "blank"
      /\ in[m].item = "blank" => in[m + 1].item = "text"
      /\ in[m].item = "text" => in[m + 1].item = "header"
  BY <1>1, <1>4 DEF Turns
<1> QED  BY <1>1, <1>2, <1>5, <1>6 DEF NextKind

\* The same for one item.
LEMMA AfterTail ==
  ASSUME Types, Turns, in # <<>>, in' = Tail(in), UNCHANGED client,
         in' # <<>>
  PROVE  in'[1].item = NextKind[in[1].item]
BY TakesTail, AfterTaken

\* Without another line there is nothing left.
LEMMA PastEndStep ==
  ASSUME ReadPastEnd PROVE (Lost \/ Over)'
<1>1. in' = <<>>
  BY DEF ReadPastEnd
<1>2. pc' \in {"loop", "terminated", "body"}
  <2>1. ASSUME NEW l, AfterHeaders(l)
        PROVE  pc' \in {"loop", "terminated", "body"}
    <3>1. CASE l \in {"not found", "zero"}
      BY <2>1, <3>1 DEF AfterHeaders
    <3>2. CASE l = "negative"
      BY <2>1, <3>2 DEF AfterHeaders
    <3>3. CASE l \notin {"not found", "zero"} /\ l # "negative"
      BY <2>1, <3>3 DEF AfterHeaders
    <3> QED  BY <3>1, <3>2, <3>3
  <2> QED  BY <2>1 DEF ReadPastEnd
<1> QED  BY <1>1, <1>2 DEF Lost, Over

\* A body of which nothing is left is no message.
LEMMA OverStep ==
  ASSUME Over, Step PROVE (Lost \/ Over)'
<1>1. pc = "body" /\ in = <<>> /\ ReadBody
  BY DEF Over, Step, Loop, ReadHeader, ReadBlank, ReadPastEnd, ReadBody,
         Discard, HandleRequest
<1>2. /\ in' = <<>>
      /\ pc' = "loop" \/ (pc' = "handle" /\ message' = 0)
  BY <1>1 DEF ReadBody
<1> QED  BY <1>2 DEF Lost

\* A server that is in the middle of a message does not find the next one.
LEMMA LostStep ==
  ASSUME InputInv, ~newline, Lost, Step PROVE (Lost \/ Over)'
<1>1. /\ Types /\ Turns
      /\ Len(in) \in Nat /\ (Len(in) = 0 <=> in = <<>>)
  BY InputSeq DEF InputInv
<1>2. CASE Loop
  <2>1. pc' \in {"exited", "headers"} /\ length' = "not found" /\ UNCHANGED in
    BY <1>2 DEF Loop
  <2> QED  BY <2>1 DEF Lost, Over
<1>3. CASE ReadHeader
  <2>1. /\ ~LastLine /\ Line.item = "header" /\ in' = AfterLine
        /\ in # <<>> /\ pc = "headers" /\ UNCHANGED client
    BY <1>3 DEF ReadHeader, LastLine
  <2>2. CASE in[1].item = "text"
    <3>1. Line.key # AcceptedKey /\ in' = Tail(Tail(in)) /\ Len(in) > 1
      <4>1. Len(in) # 1
        BY <2>1, <2>2 DEF LastLine
      <4>2. Len(in) > 1
        <5>1. \A n \in Nat : n # 0 /\ n # 1 => n > 1
          OBVIOUS
        <5>2. Len(in) \in Nat /\ Len(in) # 0
          BY <1>1, <2>1
        <5> QED  BY ONLY <4>1, <5>1, <5>2
      <4>3. Line = Junk /\ in' = Tail(Tail(in))
        BY <2>1, <2>2 DEF Line, AfterLine
      <4> QED  BY <4>2, <4>3 DEF Junk, AcceptedKey
    <3>2. pc' = "headers" /\ length' = "not found"
      BY <1>3, <3>1 DEF ReadHeader, Lost
    <3>3. in' # <<>> => in'[1].item = "blank"
      <4>1. Takes(2)
        BY <1>1, <2>1, <3>1, TakesTwo
      <4>2. 1 \in 1 .. Len(in) /\ 1 + 1 \in 1 .. Len(in) /\ 1 + 1 = 2
        BY <1>1, <3>1
      <4>3. in[2].item = "header"
        BY <1>1, <2>2, <4>2 DEF Turns
      <4> QED  BY <1>1, <4>1, <4>3, AfterTaken DEF NextKind
    <3> QED  BY <3>2, <3>3 DEF Lost
  <2>3. CASE in[1].item # "text"
    <3>1. Line = in[1] /\ in' = Tail(in)
      BY <2>1, <2>3 DEF Line, AfterLine
    <3>2. Line.key # AcceptedKey
      BY <2>1, <3>1 DEF Lost
    <3>3. pc' = "headers" /\ length' = "not found"
      BY <1>3, <3>2 DEF ReadHeader, Lost
    <3>4. in' # <<>> => in'[1].item = "blank"
      BY <1>1, <2>1, <3>1, AfterTail DEF NextKind
    <3> QED  BY <3>3, <3>4 DEF Lost
  <2> QED  BY <2>2, <2>3
<1>4. CASE ReadBlank
  <2>1. /\ ~LastLine /\ Line.item = "blank" /\ in' = AfterLine
        /\ in # <<>> /\ UNCHANGED client /\ AfterHeaders(length)
        /\ length = "not found"
    BY <1>4 DEF ReadBlank, LastLine, Lost
  <2>2. in[1].item # "text"
    BY <2>1 DEF Line, Junk
  <2>3. in[1].item = "blank" /\ in' = Tail(in)
    BY <2>1, <2>2 DEF Line, AfterLine
  <2>4. in' # <<>> => in'[1].item = "text"
    <3>1. NextKind["blank"] = "text"
      BY DEF NextKind
    <3> QED  BY <1>1, <2>1, <2>3, <3>1, AfterTail
  <2>5. pc' = "loop"
    BY <2>1 DEF AfterHeaders
  <2> QED  BY <2>4, <2>5 DEF Lost
<1>5. CASE ReadPastEnd
  BY <1>5, PastEndStep
<1>6. CASE ReadBody
  BY <1>6 DEF ReadBody, Lost
<1>7. CASE Discard
  <2>1. pc' = "loop" /\ UNCHANGED in
    BY <1>7 DEF Discard
  <2> QED  BY <2>1 DEF Lost
<1>8. CASE HandleRequest
  BY <1>8 DEF HandleRequest, Valid, Lost
<1> QED  BY <1>2, <1>3, <1>4, <1>5, <1>6, <1>7, <1>8 DEF Step

\* The items of the frame after the first i.
LEMMA FrameItems ==
  ASSUME Types, NEW i \in Nat, NEW j \in {1, 2, 3}, 3 * i + j <= sent
  PROVE  /\ i + 1 \in 1 .. Len(frames)
         /\ Encode(frames)[3 * i + 1].item = "header"
         /\ Encode(frames)[3 * i + 1].key = frames[i + 1].key
         /\ Encode(frames)[3 * i + 1].length = frames[i + 1].length
         /\ Encode(frames)[3 * i + 2].item = "blank"
         /\ Encode(frames)[3 * i + 3].item = "text"
         /\ Encode(frames)[3 * i + 3].frame = i + 1
<1>1. /\ Len(frames) \in Nat /\ sent \in 0 .. 3 * Len(frames)
      /\ \A k \in 1 .. Len(frames) : frames[k] \in Frame
  BY FrameTypes DEF Types
<1> DEFINE n == i + 1
<1>2. n \in 1 .. Len(frames) /\ n \in Nat
  BY <1>1
<1>3. 3 * i + 1 = 3 * n - 2 /\ 3 * i + 2 = 3 * n - 1 /\ 3 * i + 3 = 3 * n
  OBVIOUS
<1>4. frames[n] \in Frame
  BY <1>1, <1>2
<1> HIDE DEF n
<1>5. /\ Encode(frames)[3 * n - 2] = Header(frames[n])
      /\ Encode(frames)[3 * n - 1] = Blank
      /\ Encode(frames)[3 * n] = Text(n)
  BY <1>1, <1>2, EncodeItems
<1>6. /\ Header(frames[n]).item = "header" /\ Blank.item = "blank"
      /\ Header(frames[n]).key = frames[n].key
      /\ Header(frames[n]).length = frames[n].length
      /\ Text(n).item = "text" /\ Text(n).frame = n
  BY <1>2, <1>4, ItemKinds
<1> QED  BY <1>2, <1>3, <1>5, <1>6 DEF n

\* In the frame after the first i, Run goes on to the next place or the next
\* frame, is lost, or ends.
LEMMA TrackStep ==
  ASSUME InputInv, ~newline, NEW i \in Nat, OnTrack(i), Step
  PROVE  (Lost \/ Over)' \/ OnTrack(i)' \/ OnTrack(i + 1)'
<1>1. /\ Types /\ Turns /\ UNCHANGED client
      /\ Len(in) \in Nat /\ (Len(in) = 0 <=> in = <<>>)
      /\ FramedUpTo(i, AcceptedKey)
  BY InputSeq, Grows DEF InputInv, OnTrack
<1>2. \A n : FramedUpTo(n, AcceptedKey) => FramedUpTo(n, AcceptedKey)'
  BY <1>1 DEF FramedUpTo
<1>3. sent \in Nat
  <2>1. Len(frames) \in Nat /\ sent \in 0 .. 3 * Len(frames)
    BY <1>1, FrameTypes DEF Types
  <2> QED  BY <2>1
<1>4. ASSUME NEW r \in Nat, At(r), in # <<>>
      PROVE  r < sent /\ r + 1 <= sent
  <2>1. Len(in) = sent - r /\ Len(in) # 0
    BY <1>1, <1>4 DEF At
  <2>2. Len(in) \in Nat
    BY <1>1
  <2> QED  BY <1>3, <1>4, <2>1, <2>2
<1>5. CASE pc = "loop" /\ At(3 * i)
  <2>1. Loop
    BY <1>5 DEF Step, ReadHeader, ReadBlank, ReadPastEnd, ReadBody, Discard,
                HandleRequest
  <2>2. /\ pc' \in {"exited", "headers"} /\ length' = "not found"
        /\ UNCHANGED in
    BY <2>1 DEF Loop
  <2>3. At(3 * i)'
    BY <1>1, <1>5, <2>2 DEF At, Encode
  <2> QED  BY <1>1, <1>2, <2>2, <2>3 DEF Over, OnTrack
<1>6. CASE pc = "headers" /\ length = "not found" /\ At(3 * i)
  <2>1. CASE ReadPastEnd
    BY <2>1, PastEndStep
  <2>2. CASE in # <<>>
    <3>1. /\ 3 * i \in Nat /\ 3 * i < sent /\ 3 * i + 1 <= sent
          /\ 1 \in {1, 2, 3}
      <4>1. 3 * i \in Nat
        OBVIOUS
      <4> QED  BY <1>4, <1>6, <2>2, <4>1
    <3>2. /\ in[1] = Encode(frames)[3 * i + 1]
          /\ in' = Tail(in) => At(3 * i + 1)'
      BY <1>1, <1>6, <3>1, NextItem
    <3>3. /\ i + 1 \in 1 .. Len(frames)
          /\ in[1].item = "header" /\ in[1].key = frames[i + 1].key
          /\ in[1].length = frames[i + 1].length
      BY <1>1, <3>1, <3>2, FrameItems
    <3>4. ~LastLine /\ Line = in[1] /\ AfterLine = Tail(in)
      BY <2>2, <3>3 DEF LastLine, Line, AfterLine
    <3>5. ReadHeader
      BY <1>6, <3>3, <3>4 DEF Step, Loop, ReadBlank, ReadPastEnd, ReadBody,
                              Discard, HandleRequest
    <3>6. in' = Tail(in)
      BY <3>4, <3>5 DEF ReadHeader
    <3>7. in' # <<>> => in'[1].item = "blank"
      <4>1. NextKind["header"] = "blank"
        BY DEF NextKind
      <4> QED  BY <1>1, <2>2, <3>3, <3>6, <4>1, AfterTail
    <3>8. \/ pc' \in {"loop", "headers"} /\ length' = "not found"
          \/ /\ pc' = "headers" /\ frames[i + 1].key = AcceptedKey
             /\ frames[i + 1].length = length'
      BY <1>6, <3>3, <3>4, <3>5 DEF ReadHeader
    <3>9. CASE pc' \in {"loop", "headers"} /\ length' = "not found"
      BY <3>7, <3>9 DEF Lost
    <3>10. CASE /\ pc' = "headers" /\ frames[i + 1].key = AcceptedKey
                /\ frames[i + 1].length = length'
      <4>1. Announced(i)'
        BY <1>1, <3>3, <3>10 DEF Announced
      <4> QED  BY <1>1, <1>2, <3>2, <3>6, <3>10, <4>1 DEF OnTrack
    <3> QED  BY <3>8, <3>9, <3>10
  <2>3. CASE in = <<>>
    <3>1. ReadPastEnd
      BY <1>6, <2>3 DEF Step, Loop, ReadHeader, ReadBlank, ReadBody, Discard,
                        HandleRequest, LastLine
    <3> QED  BY <2>1, <3>1
  <2> QED  BY <2>2, <2>3
<1>7. CASE pc = "headers" /\ Announced(i) /\ At(3 * i + 1)
  <2>1. CASE ReadPastEnd
    BY <2>1, PastEndStep
  <2>2. CASE in # <<>>
    <3>1. /\ 3 * i + 1 \in Nat /\ 3 * i + 1 < sent
          /\ (3 * i + 1) + 1 = 3 * i + 2 /\ 3 * i + 2 <= sent
          /\ 2 \in {1, 2, 3}
      <4>1. 3 * i + 1 \in Nat /\ (3 * i + 1) + 1 = 3 * i + 2
        OBVIOUS
      <4> QED  BY <1>4, <1>7, <2>2, <4>1
    <3>2. /\ in[1] = Encode(frames)[3 * i + 2]
          /\ in' = Tail(in) => At(3 * i + 2)'
      BY <1>1, <1>7, <3>1, NextItem
    <3>3. in[1].item = "blank"
      BY <1>1, <3>1, <3>2, FrameItems
    <3>4. ~LastLine /\ Line = in[1] /\ AfterLine = Tail(in)
      BY <2>2, <3>3 DEF LastLine, Line, AfterLine
    <3>5. ReadBlank
      BY <1>7, <3>3, <3>4 DEF Step, Loop, ReadHeader, ReadPastEnd, ReadBody,
                              Discard, HandleRequest
    <3>6. in' = Tail(in) /\ AfterHeaders(length) /\ UNCHANGED length
      BY <3>4, <3>5 DEF ReadBlank
    <3>7. in' # <<>> => in'[1].item = "text"
      <4>1. NextKind["blank"] = "text"
        BY DEF NextKind
      <4> QED  BY <1>1, <2>2, <3>3, <3>6, <4>1, AfterTail
    <3>8. CASE length \in {"not found", "zero"}
      <4>1. pc' = "loop"
        BY <3>6, <3>8 DEF AfterHeaders
      <4> QED  BY <3>7, <4>1 DEF Lost
    <3>9. CASE length = "negative"
      <4>1. pc' = "terminated"
        BY <3>6, <3>9 DEF AfterHeaders
      <4> QED  BY <4>1 DEF Over
    <3>10. CASE length \notin {"not found", "zero"} /\ length # "negative"
      <4>1. pc' = "body"
        BY <3>6, <3>10 DEF AfterHeaders
      <4>2. Announced(i)'
        BY <1>1, <1>7, <3>6 DEF Announced
      <4> QED  BY <1>1, <1>2, <3>2, <3>6, <4>1, <4>2 DEF OnTrack
    <3> QED  BY <3>8, <3>9, <3>10
  <2>3. CASE in = <<>>
    <3>1. ReadPastEnd
      BY <1>7, <2>3 DEF Step, Loop, ReadHeader, ReadBlank, ReadBody, Discard,
                        HandleRequest, LastLine
    <3> QED  BY <2>1, <3>1
  <2> QED  BY <2>2, <2>3
<1>8. CASE pc = "body" /\ Announced(i) /\ At(3 * i + 2)
  <2>1. ReadBody
    BY <1>8 DEF Step, Loop, ReadHeader, ReadBlank, ReadPastEnd, Discard,
                HandleRequest
  <2>2. CASE in' = <<>> /\ (pc' = "loop" \/ (pc' = "handle" /\ message' = 0))
    BY <2>2 DEF Lost
  <2>3. CASE in # <<>> /\ pc' = "handle" /\ in' = <<Text(0)>> \o Tail(in) /\ message' = 0
    <3>1. in \in Seq(Items) /\ Text(0).item = "text"
      BY <1>1, InputSeq DEF Text
    <3>2. Takes(0)
      BY <1>1, <2>3, <2>1, TakesShort DEF InputInv, AtBody, ReadBody
    <3>3. in' # <<>> => in'[1].item = "text"
      <4>1. 1 \in 1 .. Len(in)
        BY <1>1, <2>3
      <4>2. in[1].item = "text"
        BY <1>8, <2>3 DEF InputInv, AtBody, IsText
      <4>3. 1 \in 1 .. Len(in') /\ 1 + 0 = 1
        BY <1>1, <3>2, <4>1 DEF Takes
      <4> QED  BY <3>2, <4>2, <4>3 DEF Takes
    <3> QED  BY <2>3, <3>3 DEF Lost
  <2>4. CASE in # <<>> /\ pc' = "handle" /\ in' = <<Junk>> \o Tail(Tail(in)) /\ message' = 0
             /\ Len(in) > 1
    <3>1. in'[1].key # AcceptedKey
      <4>1. Tail(Tail(in)) \in Seq(Items)
        <5>1. in \in Seq(Items) /\ in # <<>>
          BY <1>1, <2>4, InputSeq
        <5> HIDE DEF Items
        <5>2. Tail(in) \in Seq(Items) /\ Len(Tail(in)) = Len(in) - 1
          BY <5>1, HeadTailProperties
        <5>3. Len(Tail(in)) # 0
          BY <1>1, <2>4, <5>2
        <5>4. Tail(in) # <<>>
          BY <5>2, <5>3, EmptySeq
        <5> QED  BY <5>2, <5>4, HeadTailProperties
      <4>2. in'[1] = Junk
        <5> DEFINE rest == Tail(Tail(in))
        <5> HIDE DEF rest, Items
        <5>1. rest \in Seq(Items) /\ in' = <<Junk>> \o rest
          BY <2>4, <4>1 DEF rest
        <5> QED  BY <5>1
      <4> QED  BY <4>2 DEF Junk, AcceptedKey
    <3> QED  BY <2>4, <3>1 DEF Lost
  <2>5. CASE /\ in # <<>> /\ pc' = "handle" /\ length = "exact"
             /\ in' = Tail(in) /\ message' = in[1].frame
    <3>1. /\ 3 * i + 2 \in Nat /\ 3 * i + 2 < sent
          /\ (3 * i + 2) + 1 = 3 * i + 3 /\ 3 * i + 3 <= sent
          /\ 3 \in {1, 2, 3}
      <4>1. 3 * i + 2 \in Nat /\ (3 * i + 2) + 1 = 3 * i + 3
        OBVIOUS
      <4> QED  BY <1>4, <1>8, <2>5, <4>1
    <3>2. /\ in[1] = Encode(frames)[3 * i + 3]
          /\ At(3 * i + 3)'
      BY <1>1, <1>8, <2>5, <3>1, NextItem
    <3>3. message' = i + 1
      BY <1>1, <2>5, <3>1, <3>2, FrameItems
    <3>4. FramedUpTo(i + 1, AcceptedKey)
      <4>1. 3 * (i + 1) <= sent /\ \A k \in 1 .. i + 1 : k \in 1 .. i \/ k = i + 1
        BY <3>1
      <4> QED  BY <1>1, <1>8, <2>5, <4>1 DEF FramedUpTo, Announced
    <3> QED  BY <1>1, <1>2, <2>5, <3>2, <3>3, <3>4 DEF OnTrack
  <2>6. \/ in' = <<>> /\ (pc' = "loop" \/ (pc' = "handle" /\ message' = 0))
        \/ /\ in # <<>> /\ pc' = "handle" /\ message' = 0
           /\ in' = <<Text(0)>> \o Tail(in)
        \/ /\ in # <<>> /\ pc' = "handle" /\ message' = 0
           /\ in' = <<Junk>> \o Tail(Tail(in)) /\ Len(in) > 1
        \/ /\ in # <<>> /\ pc' = "handle" /\ length = "exact"
           /\ in' = Tail(in) /\ message' = in[1].frame
    BY <2>1 DEF ReadBody
  <2> QED  BY <2>2, <2>3, <2>4, <2>5, <2>6
<1>9. CASE /\ pc = "handle" /\ message = i + 1 /\ At(3 * i + 3)
           /\ FramedUpTo(i + 1, AcceptedKey)
  <2>1. Discard \/ HandleRequest
    BY <1>9 DEF Step, Loop, ReadHeader, ReadBlank, ReadPastEnd, ReadBody
  <2>2. UNCHANGED in /\ pc' \in {"loop", "terminated"}
    BY <2>1, AnswersCurrent
  <2>3. At(3 * (i + 1))'
    <3>1. 3 * (i + 1) = 3 * i + 3
      OBVIOUS
    <3> QED  BY <1>1, <1>9, <2>2, <3>1 DEF At, Encode
  <2> QED  BY <1>2, <1>9, <2>2, <2>3 DEF Over, OnTrack
<1> QED  BY <1>5, <1>6, <1>7, <1>8, <1>9 DEF OnTrack

\* A reply goes to the message at hand.
LEMMA Repliers ==
  ASSUME InputInv, Step
  PROVE  \A k \in DOMAIN replies' :
           \/ k \in DOMAIN replies /\ replies'[k] = replies[k]
           \/ pc = "handle" /\ message # 0 /\ replies'[k].to = message
<1>1. CASE UNCHANGED replies
  BY <1>1
<1>2. CASE HandleRequest
  <2>1. /\ replies \in Seq([to : 1 .. Len(frames), kind : Kinds])
        /\ message \in 1 .. Len(frames)
        /\ pc = "handle" /\ message # 0
    BY <1>2, Reply DEF InputInv, Types, HandleRequest, Valid
  <2>2. PICK kind \in Kinds :
          UNCHANGED replies
          \/ replies' = Append(replies, [to |-> message, kind |-> kind])
    <3>1. \E kind : kind \in Kinds
      BY DEF Kinds
    <3> QED  BY <1>2, <3>1, Reply DEF InputInv
  <2>3. CASE replies' = Append(replies, [to |-> message, kind |-> kind])
    <3> DEFINE reply == [to |-> message, kind |-> kind]
               Reply0 == [to : 1 .. Len(frames), kind : Kinds]
    <3>1. reply \in Reply0 /\ replies \in Seq(Reply0)
          /\ replies' = Append(replies, reply) /\ reply.to = message
      BY <2>1, <2>3
    <3> HIDE DEF reply, Reply0
    <3>2. /\ Len(replies) \in Nat
          /\ Len(replies') = Len(replies) + 1
          /\ \A k \in 1 .. Len(replies) : replies'[k] = replies[k]
          /\ replies'[Len(replies) + 1] = reply
          /\ DOMAIN replies = 1 .. Len(replies)
          /\ DOMAIN replies' = 1 .. Len(replies')
      BY <3>1, AppendProperties, LenProperties
    <3>3. \A k \in DOMAIN replies' :
            k \in DOMAIN replies \/ k = Len(replies) + 1
      BY <3>2
    <3> QED  BY <2>1, <3>1, <3>2, <3>3
  <2> QED  BY <1>1, <2>2, <2>3
<1>3. UNCHANGED replies \/ HandleRequest
  BY DEF Step, Loop, ReadHeader, ReadBlank, ReadPastEnd, ReadBody, Discard
<1> QED  BY <1>1, <1>2, <1>3

\* Only a server that is on its track has a message to reply to.
LEMMA RepliesOnTrack ==
  ASSUME InputInv, TrackInv, AnswersEndAtMisframing, Step
  PROVE  AnswersEndAtMisframing'
<1>1. UNCHANGED client
  BY Grows
<1>2. ASSUME ~newline, NEW k \in DOMAIN replies'
      PROVE  FramedUpTo(replies'[k].to, AcceptedKey)
  <2>1. CASE k \in DOMAIN replies /\ replies'[k] = replies[k]
    BY <1>2, <2>1 DEF AnswersEndAtMisframing
  <2>2. CASE pc = "handle" /\ message # 0 /\ replies'[k].to = message
    <3>1. PICK i \in Nat : OnTrack(i)
      BY <1>2, <2>2 DEF TrackInv, Lost, Over
    <3>2. message = i + 1 /\ FramedUpTo(i + 1, AcceptedKey)
      BY <2>2, <3>1 DEF OnTrack
    <3> QED  BY <2>2, <3>2
  <2> QED  BY <1>2, <2>1, <2>2, Repliers
<1> QED  BY <1>1, <1>2 DEF AnswersEndAtMisframing, FramedUpTo

\* Run stays on its track, or is lost for good.
LEMMA StaysOnTrack ==
  ASSUME InputInv, TrackInv, Step PROVE TrackInv'
<1> SUFFICES ASSUME ~newline'
             PROVE  (Lost \/ Over)' \/ \E i \in Nat : OnTrack(i)'
  BY DEF TrackInv
<1>1. ~newline
  BY Grows
<1>2. CASE Lost \/ Over
  BY <1>1, <1>2, LostStep, OverStep
<1>3. ASSUME NEW i \in Nat, OnTrack(i)
      PROVE  (Lost \/ Over)' \/ \E j \in Nat : OnTrack(j)'
  <2>1. i + 1 \in Nat
    OBVIOUS
  <2>2. (Lost \/ Over)' \/ OnTrack(i)' \/ OnTrack(i + 1)'
    BY <1>1, <1>3, TrackStep
  <2> QED  BY <2>1, <2>2
<1> QED  BY <1>1, <1>2, <1>3 DEF TrackInv

\* When the texts do not end with a newline, the first misframed message is
\* the last the server takes anything from: whatever it reads after it, it
\* takes no text for a message, and every reply is to a message that is
\* framed well, after others that are (stdio_jsonrpc.cpp:37-108).
THEOREM LostAtMisframing == Spec => []AnswersEndAtMisframing
<1>1. Init => TrackInv /\ AnswersEndAtMisframing
  <2> SUFFICES ASSUME Init PROVE TrackInv /\ AnswersEndAtMisframing
    OBVIOUS
  <2>1. At(0) /\ sent \in Nat
    <3>1. Len(frames) \in Nat /\ sent \in 0 .. 3 * Len(frames)
      BY FrameTypes DEF Init
    <3>2. sent \in Nat
      BY <3>1
    <3>3. /\ Len(in) = sent
          /\ \A k \in 1 .. Len(in) : in[k] = Encode(frames)[k]
      BY InitInput
    <3>4. sent - 0 = sent /\ \A k \in 1 .. Len(in) : 0 + k = k
      BY <3>2, <3>3
    <3> QED  BY <3>2, <3>3, <3>4 DEF At
  <2>2. OnTrack(0)
    <3>1. 3 * 0 = 0 /\ 0 <= sent /\ 1 .. 0 = {}
      BY <2>1
    <3>2. FramedUpTo(0, AcceptedKey)
      BY <3>1 DEF FramedUpTo
    <3>3. At(3 * 0) /\ pc = "loop"
      BY <2>1, <3>1 DEF Init
    <3> QED  BY <3>2, <3>3 DEF OnTrack
  <2>3. DOMAIN replies = {}
    <3>1. replies \in Seq({}) /\ Len(replies) = 0
      BY EmptySeq DEF Init
    <3>2. DOMAIN replies = 1 .. 0
      BY <3>1, LenProperties
    <3> QED  BY <3>2
  <2> QED  BY <2>2, <2>3 DEF TrackInv, AnswersEndAtMisframing
<1>2. InputInv /\ TrackInv /\ AnswersEndAtMisframing /\ [Next]_vars
        => (TrackInv /\ AnswersEndAtMisframing)'
  <2> SUFFICES ASSUME InputInv, TrackInv, AnswersEndAtMisframing, [Next]_vars
               PROVE  (TrackInv /\ AnswersEndAtMisframing)'
    OBVIOUS
  <2>1. CASE Step
    BY <2>1, StaysOnTrack, RepliesOnTrack
  <2>2. CASE UNCHANGED vars
    <3>1. /\ \A i : FramedUpTo(i, AcceptedKey)' = FramedUpTo(i, AcceptedKey)
          /\ \A i : At(i)' = At(i) /\ Announced(i)' = Announced(i)
      BY <2>2 DEF vars, Announced, FramedUpTo, At, Encode
    <3>2. \A i : OnTrack(i) => OnTrack(i)'
      BY <2>2, <3>1 DEF vars, OnTrack
    <3>3. TrackInv'
      BY <2>2, <3>2 DEF vars, TrackInv, Lost, Over
    <3>4. AnswersEndAtMisframing'
      BY <2>2 DEF vars, AnswersEndAtMisframing, FramedUpTo
    <3> QED  BY <3>3, <3>4
  <2> QED  BY <2>1, <2>2 DEF Next, Ended
<1>3. Spec => []InputInv
  BY Reachable, PTL
<1> QED  BY <1>1, <1>2, <1>3, PTL DEF Spec

-------------------------------------------------------------------------------
(* How many steps Run makes.                                               *)
\* What bounds the steps still to come: the items of the input, its end, and
\* where Run is.
Rank(p) ==
  [body |-> 4, handle |-> 3, loop |-> 2, headers |-> 1, exited |-> 0,
   terminated |-> 0][p]
Remaining == 5 * (Len(in) + (IF eof THEN 0 ELSE 1)) + Rank(pc)

\* A server of std::cin looks for no further message when its input is over.
EndSeen == eof /\ ~own => pc # "headers"

\* The rank of every place is small.
LEMMA RankIsNat ==
  ASSUME NEW p \in {"loop", "headers", "body", "handle", "exited", "terminated"}
  PROVE  Rank(p) \in 0 .. 4
BY DEF Rank

\* What remains is a number of steps.
LEMMA RemainingIsNat == InputInv => Remaining \in Nat
<1> SUFFICES ASSUME InputInv PROVE Remaining \in Nat
  OBVIOUS
<1>1. Len(in) \in Nat /\ Rank(pc) \in 0 .. 4
  BY InputSeq, RankIsNat DEF InputInv, Types
<1> QED  BY <1>1 DEF Remaining

\* The end of std::cin is noticed in the loop.
LEMMA EndSeenStays ==
  ASSUME EndSeen, [Next]_vars PROVE EndSeen'
<1>1. CASE Loop
  BY <1>1 DEF Loop, InputOver, EndSeen
<1>2. CASE ReadHeader \/ ReadBlank
  BY <1>2 DEF ReadHeader, ReadBlank, AfterHeaders, EndSeen
<1>3. CASE ReadPastEnd
  <2>1. ASSUME NEW l, AfterHeaders(l) PROVE pc' # "headers"
    <3>1. CASE l \in {"not found", "zero"}
      BY <2>1, <3>1 DEF AfterHeaders
    <3>2. CASE l = "negative"
      BY <2>1, <3>2 DEF AfterHeaders
    <3>3. CASE l \notin {"not found", "zero", "negative"}
      <4>1. l \notin {"not found", "zero"} /\ l # "negative"
        BY <3>3
      <4>2. pc' = "body"
        BY <2>1, <4>1 DEF AfterHeaders
      <4> QED  BY <4>2
    <3> QED  BY <3>1, <3>2, <3>3
  <2>2. pc' # "headers"
    BY <1>3, <2>1 DEF ReadPastEnd
  <2> QED  BY <2>2 DEF EndSeen
<1>4. CASE ReadBody \/ Discard
  BY <1>4 DEF ReadBody, Discard, EndSeen
<1>5. CASE HandleRequest
  <2>1. pc' \in {"loop", "terminated"}
    BY <1>5 DEF HandleRequest, WriteMessage
  <2> QED  BY <2>1 DEF EndSeen
<1>6. CASE UNCHANGED vars
  BY <1>6 DEF vars, EndSeen
<1> QED  BY <1>1, <1>2, <1>3, <1>4, <1>5, <1>6 DEF Next, Step, Ended

\* A line that is read is gone.
LEMMA LineTaken ==
  ASSUME InputInv, ReadHeader \/ ReadBlank
  PROVE  Len(in') < Len(in) /\ Len(in') \in Nat /\ Len(in) \in Nat
<1>1. /\ Types /\ ~LastLine /\ in' = AfterLine
  BY DEF InputInv, ReadHeader, ReadBlank
<1>2. in # <<>> /\ Len(in) \in Nat
  BY <1>1, InputSeq DEF LastLine
<1>0. Len(in) > 0
  <2>1. Len(in) # 0
    BY <1>1, <1>2, InputSeq
  <2>2. Len(in) \in Nat
    BY <1>2
  <2> QED  BY <2>1, <2>2
<1>3. UNCHANGED client
  BY DEF ReadHeader, ReadBlank
<1>4. CASE in[1].item = "text" /\ ~newline
  <2>1. Len(in) # 1
    BY <1>1, <1>4 DEF LastLine
  <2>0. Len(in) > 1
    <3>1. \A n \in Nat : n > 0 /\ n # 1 => n > 1
      OBVIOUS
    <3>2. Len(in) \in Nat /\ Len(in) > 0
      BY <1>0, <1>2
    <3> HIDE DEF InputInv
    <3> QED  BY ONLY <2>1, <3>1, <3>2
  <2>4. Types /\ in' = Tail(Tail(in))
    BY <1>1, <1>4 DEF AfterLine
  <2>2. Takes(2)
    BY <1>3, <2>0, <2>4, TakesTwo
  <2>3. Len(in') = Len(in) - 2 /\ Len(in) > 1
    BY <1>2, <2>0, <2>2 DEF Takes
  <2>5. Len(in) \in Nat
    BY <1>2
  <2> QED  BY <2>3, <2>5
<1>5. CASE ~ (in[1].item = "text" /\ ~newline)
  <2>1. Takes(1)
    BY <1>1, <1>2, <1>3, <1>5, TakesTail DEF AfterLine
  <2>2. Len(in') = Len(in) - 1
    BY <1>2, <2>1 DEF Takes
  <2>3. Len(in) \in Nat /\ Len(in) > 0
    BY <1>0, <1>2
  <2> QED  BY <2>2, <2>3
<1> QED  BY <1>4, <1>5

\* A body that is read is gone, but for what a wrong length leaves.
LEMMA BodyTaken ==
  ASSUME InputInv, ReadBody
  PROVE  Len(in') <= Len(in) /\ Len(in') \in Nat /\ Len(in) \in Nat
<1>1. /\ Types /\ UNCHANGED client
      /\ Len(in) \in Nat
      /\ in = <<>> \/ IsText(1)
  <2>1. Types
    BY DEF InputInv
  <2> QED  BY <2>1, InputSeq DEF ReadBody, InputInv, AtBody
<1>2. Takes(Len(in)) \/ Takes(1) \/ Takes(0)
  <2>1. CASE in' = <<>>
    BY <1>1, <2>1, TakesAll
  <2>2. CASE in # <<>> /\ in' = Tail(in)
    BY <1>1, <2>2, TakesTail
  <2>3. CASE in # <<>> /\ in' = <<Text(0)>> \o Tail(in)
    BY <1>1, <2>3, TakesShort
  <2>4. CASE in # <<>> /\ Len(in) > 1 /\ in' = <<Junk>> \o Tail(Tail(in))
    BY <1>1, <2>4, TakesLong DEF InputInv
  <2> QED  BY <2>1, <2>2, <2>3, <2>4 DEF ReadBody
<1>3. \A m \in 0 .. Len(in) : Takes(m) => Len(in') <= Len(in) /\ Len(in') \in Nat
  BY <1>1 DEF Takes
<1>4. \A m : Takes(m) => m \in 0 .. Len(in)
  BY DEF Takes
<1> QED  BY <1>1, <1>2, <1>3, <1>4

\* A step with fewer items, or as many and the end of the input not before,
\* leads to a lower rank or takes an item.
LEMMA Fewer ==
  ASSUME InputInv, InputInv',
         \/ /\ Len(in') <= Len(in) /\ (eof => eof')
            /\ Rank(pc') < Rank(pc)
         \/ /\ Len(in') < Len(in) /\ (eof => eof')
         \/ /\ Len(in') <= Len(in) /\ ~eof /\ eof'
            /\ Rank(pc') <= 4
  PROVE  Remaining' < Remaining
<1> DEFINE left(e) == IF e THEN 0 ELSE 1
<1>1. Len(in) \in Nat /\ Len(in') \in Nat
  <2>1. Types /\ Types'
    BY DEF InputInv
  <2>2. in \in Seq(Items) /\ in' \in Seq(Items')
    BY <2>1 DEF Types
  <2> HIDE DEF Items
  <2> QED  BY <2>2, LenProperties
<1>2. /\ Rank(pc) \in 0 .. 4 /\ Rank(pc') \in 0 .. 4
      /\ eof \in BOOLEAN /\ eof' \in BOOLEAN
  BY RankIsNat DEF InputInv, Types
<1>3. PICK n \in Nat, e \in {0, 1}, r \in 0 .. 4 :
        /\ n = Len(in) /\ e = left(eof) /\ r = Rank(pc)
        /\ Remaining = 5 * (n + e) + r
  <2>1. left(eof) \in {0, 1}
    BY <1>2
  <2> QED  BY <1>1, <1>2, <2>1 DEF Remaining
<1>4. PICK n1 \in Nat, e1 \in {0, 1}, r1 \in 0 .. 4 :
        /\ n1 = Len(in') /\ e1 = left(eof') /\ r1 = Rank(pc')
        /\ Remaining' = 5 * (n1 + e1) + r1
  <2>1. left(eof') \in {0, 1}
    BY <1>2
  <2>2. Remaining' = 5 * (Len(in') + left(eof')) + Rank(pc')
    BY DEF Remaining, Rank
  <2> QED  BY <1>1, <1>2, <2>1, <2>2
<1>5. \/ n1 <= n /\ e1 <= e /\ r1 < r
      \/ n1 < n /\ e1 <= e
      \/ n1 <= n /\ e1 < e
  <2>1. CASE Len(in') <= Len(in) /\ (eof => eof') /\ Rank(pc') < Rank(pc)
    <3>1. e1 <= e
      BY <1>2, <1>3, <1>4, <2>1
    <3> QED  BY <1>3, <1>4, <2>1, <3>1
  <2>2. CASE Len(in') < Len(in) /\ (eof => eof')
    <3>1. e1 <= e
      BY <1>2, <1>3, <1>4, <2>2
    <3> QED  BY <1>3, <1>4, <2>2, <3>1
  <2>3. CASE Len(in') <= Len(in) /\ ~eof /\ eof'
    <3>1. e1 = 0 /\ e = 1
      BY <1>3, <1>4, <2>3
    <3> QED  BY <1>3, <1>4, <2>3, <3>1
  <2> QED  BY <2>1, <2>2, <2>3
<1> HIDE DEF Remaining, Rank, left
<1>6. 5 * (n1 + e1) + r1 < 5 * (n + e) + r
  BY <1>5
<1> QED  BY <1>3, <1>4, <1>6

\* A step of a server of std::cin leaves it fewer to make.
LEMMA StepCounts ==
  ASSUME InputInv, InputInv', EndSeen, ~own, Step
  PROVE  Remaining' < Remaining
<1>1. CASE Loop
  <2>0. pc = "loop" /\ pc' \in {"exited", "headers"} /\ UNCHANGED <<in, eof>>
    BY <1>1 DEF Loop
  <2>1. Rank(pc') < Rank(pc) /\ UNCHANGED <<in, eof>>
    BY <2>0 DEF Rank
  <2>2. Len(in') <= Len(in)
    <3>1. Types
      BY DEF InputInv
    <3>2. Len(in) \in Nat
      BY <3>1, InputSeq
    <3> QED  BY <2>1, <3>2
  <2> QED  BY <2>1, <2>2, Fewer
<1>2. CASE ReadHeader \/ ReadBlank
  <2>1. Len(in') < Len(in) /\ UNCHANGED eof
    BY <1>2, LineTaken DEF ReadHeader, ReadBlank
  <2> QED  BY <2>1, Fewer
<1>3. CASE ReadPastEnd
  <2>1. ~eof /\ eof'
    <3>1. eof \in BOOLEAN
      BY DEF InputInv, Types
    <3> QED  BY <1>3, <3>1 DEF ReadPastEnd, EndSeen
  <2>2. Len(in') <= Len(in)
    <3>1. Types
      BY DEF InputInv
    <3>2. Len(in) \in Nat /\ Len(in') = 0
      BY <1>3, <3>1, InputSeq DEF ReadPastEnd
    <3> QED  BY <3>2
  <2>3. Rank(pc') <= 4
    BY RankIsNat DEF InputInv, Types
  <2> QED  BY <2>1, <2>2, <2>3, Fewer
<1>4. CASE ReadBody
  <2>1. pc = "body" /\ pc' \in {"loop", "handle"} /\ (eof => eof')
    BY <1>4 DEF ReadBody
  <2>2. Rank(pc') < Rank(pc)
    BY <2>1 DEF Rank
  <2> QED  BY <1>4, <2>1, <2>2, BodyTaken, Fewer
<1>5. CASE Discard \/ HandleRequest
  <2>1. pc = "handle" /\ pc' \in {"loop", "terminated"} /\ UNCHANGED <<in, eof>>
    BY <1>5 DEF Discard, HandleRequest, WriteMessage
  <2>2. Rank(pc') < Rank(pc)
    BY <2>1 DEF Rank
  <2>3. Len(in') <= Len(in)
    <3>1. Types
      BY DEF InputInv
    <3>2. Len(in) \in Nat
      BY <3>1, InputSeq
    <3> QED  BY <2>1, <3>2
  <2> QED  BY <2>1, <2>2, <2>3, Fewer
<1> QED  BY <1>1, <1>2, <1>3, <1>4, <1>5 DEF Step

\* Every step of a server that reads std::cin, whatever the input and
\* however it is framed, brings Run nearer to its end: it makes no more than
\* Remaining steps, 5 * (sent + 1) + 2 from the start.
THEOREM StepsRunOut ==
  Spec => /\ [](Remaining \in Nat)
          /\ [][~own => Remaining' < Remaining]_vars
<1>1. Init => EndSeen
  BY DEF Init, EndSeen
<1>2. EndSeen /\ [Next]_vars => EndSeen'
  BY EndSeenStays
<1>3. /\ InputInv /\ ReplyInv /\ EndSeen /\ [Next]_vars /\ (InputInv /\ ReplyInv)'
      => [~own => Remaining' < Remaining]_vars
  BY StepCounts DEF Next, Ended
<1>4. InputInv => Remaining \in Nat
  BY RemainingIsNat
<1> QED  BY <1>1, <1>2, <1>3, <1>4, Reachable, PTL DEF Spec

-------------------------------------------------------------------------------
(* There is always a step to make.                                         *)

\* The guard of Step: where Run is, what is left of the input and what the
\* handler may do.
CanStep ==
  \/ pc = "loop"
  \/ pc = "headers" /\ (LastLine \/ Line.item \in {"header", "blank"})
  \/ pc = "body" /\ (in = <<>> \/ length \in {"exact", "short", "long"})
  \/ /\ pc = "handle"
     /\ Valid /\ HasHandler(Current.method) =>
          Outcomes(Current.method, Current.params) # {}

\* A handler ends in one way or another.
LEMMA SomeOutcome ==
  ASSUME NEW method \in Handlers, NEW params \in Params
  PROVE  Outcomes(method, params) # {}
<1>1. CASE method \in PlainMethods
  BY <1>1 DEF Outcomes
<1>2. CASE method \notin PlainMethods /\ params = "malformed"
  BY <1>2 DEF Outcomes
<1>3. CASE method = "tools/call" /\ params \in {"unknown", "registered"}
  BY <1>3 DEF Outcomes, PlainMethods
<1>4. CASE /\ method \in {"resources/read", "prompts/get"}
           /\ params \in {"unknown", "registered"}
  BY <1>4 DEF Outcomes, PlainMethods
<1> QED  BY <1>1, <1>2, <1>3, <1>4 DEF Handlers, Params

\* Run never stops anywhere but at its end: whatever the line before it, the
\* length it has read or the message at hand, one of its steps is possible.
THEOREM RunGoesOn ==
  Spec => [](pc \notin {"exited", "terminated"} => CanStep)
<1>1. InputInv => (pc \notin {"exited", "terminated"} => CanStep)
  <2> SUFFICES ASSUME InputInv, pc \notin {"exited", "terminated"} PROVE CanStep
    OBVIOUS
  <2>1. Types /\ AtBody
    BY DEF InputInv
  <2>2. pc \in {"loop", "headers", "body", "handle"}
    BY <2>1 DEF Types
  <2>3. CASE pc = "loop"
    BY <2>3 DEF CanStep
  <2>4. CASE pc = "headers"
    <3>1. ~LastLine => Line.item \in {"header", "blank"}
      <4> SUFFICES ASSUME ~LastLine PROVE Line.item \in {"header", "blank"}
        OBVIOUS
      <4>1. Len(in) \in Nat /\ Len(in) # 0
        BY <2>1, InputSeq DEF LastLine
      <4>2. 1 \in 1 .. Len(in)
        BY <4>1
      <4>3. in[1].item \in {"header", "blank", "text"}
        BY <2>1, <4>2, InputItems
      <4> QED  BY <4>3 DEF Line, Junk
    <3> QED  BY <2>4, <3>1 DEF CanStep
  <2>5. CASE pc = "body"
    BY <2>1, <2>5 DEF AtBody, CanStep
  <2>6. CASE pc = "handle"
    <3>1. ASSUME Valid, HasHandler(Current.method)
          PROVE  Outcomes(Current.method, Current.params) # {}
      <4>1. message \in 1 .. Len(frames) /\ frames[message] \in Frame
        <5>1. Len(frames) \in Nat
              /\ \A i \in 1 .. Len(frames) : frames[i] \in Frame
          BY <2>1, FrameTypes DEF Types
        <5>2. message \in 0 .. Len(frames) /\ message # 0
          BY <2>1, <3>1 DEF Types, Valid
        <5>3. message \in 1 .. Len(frames)
          BY <5>1, <5>2
        <5> QED  BY <5>1, <5>3
      <4>2. Current \in Message /\ Current.valid
        BY <3>1, <4>1 DEF Frame, Current, Valid
      <4>5. \A m \in Message : m.valid => m.params \in Params
        <5> SUFFICES ASSUME NEW m \in Message, m.valid PROVE m.params \in Params
          OBVIOUS
        <5>1. m # [valid |-> FALSE]
          OBVIOUS
        <5> QED  BY <5>1 DEF Message
      <4>3. Current.params \in Params
        BY <4>2, <4>5
      <4>4. Current.method \in Handlers
        BY <3>1 DEF HasHandler
      <4> QED  BY <4>3, <4>4, SomeOutcome
    <3> QED  BY <2>6, <3>1 DEF CanStep
  <2> QED  BY <2>2, <2>3, <2>4, <2>5, <2>6
<1> QED  BY <1>1, Reachable, PTL
===============================================================================
