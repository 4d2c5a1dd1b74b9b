--------------------------- MODULE FramingProofs ---------------------------
(* What holds of the frames of a response for every limit, every size of   *)
(* slice and every text and body, whatever the bounds.                     *)
EXTENDS Framing, SequenceTheorems, TLAPS

Spans == [from : Nat, to : Nat]

Bounds == {0} \cup {ends[k] : k \in DOMAIN ends}

Fit(span) == span.to - span.from \in 0..max /\ {span.from, span.to} \subseteq Bounds

(* A sequence of spans that covers the bytes up to last. *)
Chain(s, last) ==
  /\ s = <<>> => last = 0
  /\ s # <<>> => s[1].from = 0 /\ s[Len(s)].to = last
  /\ \A i \in 1..(Len(s) - 1) : s[i].to = s[i + 1].from

(* The loop of split_header_text. *)
SplitInv ==
  /\ Chain(chunks, from)
  /\ \A i \in DOMAIN chunks : Fit(chunks[i])
  /\ from \in Bounds /\ from <= Total /\ bytes = Total - from
  /\ ends # <<>> => bytes <= max

(* The loop of send over the slices of a body. *)
SliceInv ==
  /\ left <= given
  /\ at \in {"split", "error"} => frames = <<>> /\ given = 0
  /\ at \in {"open", "complete"} => left = 0
  /\ frames # <<>> /\ frames[Len(frames)].type = 1 => given = left

IInv == FramingTypeOK /\ SplitInv /\ SliceInv /\ FramesFit /\ NothingLost /\ EndsOnce

Frame == [type : {0, 1}, payload : Spans, headerEnd : BOOLEAN, streamEnd : BOOLEAN]

-----------------------------------------------------------------------------
LEMMA AppendIn ==
  ASSUME NEW S, NEW s \in Seq(S), NEW x \in S
  PROVE  /\ Append(s, x) \in Seq(S)
         /\ Append(s, x) # <<>>
         /\ Len(Append(s, x)) = Len(s) + 1
         /\ Append(s, x)[Len(s) + 1] = x
         /\ \A i \in 1..Len(s) : Append(s, x)[i] = s[i]
OBVIOUS

(* A span that begins where a chain ends prolongs it.                      *)
LEMMA ChainAppend ==
  ASSUME NEW s \in Seq(Spans), NEW a \in Nat, NEW b \in Nat, Chain(s, a)
  PROVE  Chain(Append(s, Span(a, b)), b) /\ Append(s, Span(a, b)) \in Seq(Spans)
<1> DEFINE x == Span(a, b)
           u == Append(s, x)
<1>1. x \in Spans /\ x.from = a /\ x.to = b
  BY DEF Spans, Span
<1>2. /\ u \in Seq(Spans) /\ u # <<>> /\ Len(u) = Len(s) + 1 /\ u[Len(s) + 1] = x
      /\ \A i \in 1..Len(s) : u[i] = s[i]
  BY <1>1, AppendIn
<1>3. Len(s) \in Nat /\ (s = <<>> <=> Len(s) = 0)
  OBVIOUS
<1>4. u[1].from = 0 /\ u[Len(u)].to = b
  <2>1. CASE s = <<>>
    BY <1>1, <1>2, <1>3, <2>1 DEF Chain
  <2>2. CASE s # <<>>
    BY <1>1, <1>2, <1>3, <2>2 DEF Chain
  <2> QED
    BY <2>1, <2>2
<1>5. ASSUME NEW i \in 1..(Len(u) - 1) PROVE u[i].to = u[i + 1].from
  <2>1. CASE i = Len(s)
    BY <1>1, <1>2, <1>3, <2>1 DEF Chain
  <2>2. CASE i # Len(s)
    <3>1. i \in 1..(Len(s) - 1) /\ i \in 1..Len(s) /\ i + 1 \in 1..Len(s)
      BY <1>2, <1>3, <2>2
    <3> QED
      BY <1>2, <3>1 DEF Chain
  <2> QED
    BY <2>1, <2>2
<1> HIDE DEF u
<1> QED
  BY <1>2, <1>4, <1>5 DEF Chain, u

LEMMA TotalType ==
  ASSUME FramingTypeOK
  PROVE  Total \in Nat /\ Total \in Bounds
BY DEF FramingTypeOK, Total, Bounds

(* What split_header_text returns.                                         *)
LEMMA PiecesFit ==
  ASSUME FramingTypeOK, SplitInv, max > 0
  PROVE  /\ Pieces \in Seq(Spans) /\ Pieces # <<>>
         /\ Chain(Pieces, Total)
         /\ \A i \in DOMAIN Pieces : Fit(Pieces[i])
<1> DEFINE all == IF from < Total THEN Append(chunks, Span(from, Total)) ELSE chunks
<1>0. /\ chunks \in Seq(Spans) /\ from \in Nat /\ Total \in Nat /\ max \in Int
      /\ Total \in Bounds /\ from \in Bounds
  BY FramingAssumption, TotalType DEF FramingTypeOK, SplitInv, Spans
<1>1. all \in Seq(Spans) /\ Chain(all, Total)
  <2>1. CASE from < Total
    BY <1>0, <2>1, ChainAppend DEF SplitInv
  <2>2. CASE ~ from < Total
    BY <1>0, <2>2 DEF SplitInv
  <2> QED
    BY <2>1, <2>2
<1>2. \A i \in DOMAIN all : Fit(all[i])
  <2>1. CASE from < Total
    <3>1. Fit(Span(from, Total))
      <4>1. Total - from \in 0..max
        BY <1>0, <2>1 DEF SplitInv, Total
      <4> QED
        BY <1>0, <4>1 DEF Fit, Span
    <3>2. Span(from, Total) \in Spans
      BY <1>0 DEF Span, Spans
    <3>3. \A i \in DOMAIN all : all[i] = Span(from, Total) \/ (i \in DOMAIN chunks /\ all[i] = chunks[i])
      BY <1>0, <2>1, <3>2, AppendIn
    <3> QED
      BY <3>1, <3>3 DEF SplitInv
  <2>2. CASE ~ from < Total
    BY <2>2 DEF SplitInv
  <2> QED
    BY <2>1, <2>2
<1> HIDE DEF all
<1>3. CASE all = <<>>
  <2>1. Pieces = <<Span(0, 0)>> /\ Total = 0
    BY <1>1, <1>3 DEF Pieces, all, Chain
  <2>2. Span(0, 0) \in Spans /\ Fit(Span(0, 0))
    BY <1>0 DEF Span, Spans, Fit, Bounds
  <2> QED
    BY <2>1, <2>2 DEF Chain, Span
<1>4. CASE all # <<>>
  <2>1. Pieces = all
    BY <1>4 DEF Pieces, all
  <2> QED
    BY <1>1, <1>2, <1>4, <2>1
<1> QED
  BY <1>3, <1>4

LEMMA FrameTypes ==
  ASSUME NEW span \in Spans, NEW last \in BOOLEAN
  PROVE  HeaderFrame(span, last) \in Frame /\ DataFrame(span, last) \in Frame
BY DEF HeaderFrame, DataFrame, Frame

LEMMA HeaderFrameIs ==
  ASSUME NEW span, NEW last \in BOOLEAN
  PROVE  LET f == HeaderFrame(span, last) IN
         f.type = 1 /\ f.payload = span /\ (f.headerEnd <=> last) /\ ~ f.streamEnd
<1> SUFFICES LET f == [type |-> 1, payload |-> span, headerEnd |-> last, streamEnd |-> FALSE] IN
             f.type = 1 /\ f.payload = span /\ (f.headerEnd <=> last) /\ ~ f.streamEnd
  BY Zenon DEF HeaderFrame
<1> QED
  OBVIOUS

-----------------------------------------------------------------------------
LEMMA InitInv == FramingInit => IInv
<1> SUFFICES ASSUME FramingInit PROVE IInv
  OBVIOUS
<1>1. FramingTypeOK
  <2>1. Ids \subseteq Int
    BY FramingAssumption
  <2>2. ends \in Seq(Nat) /\ chunks \in Seq(Spans) /\ frames \in Seq(Frame)
    BY DEF FramingInit
  <2>3. id \in Int
    BY <2>1 DEF FramingInit
  <2> QED
    BY <2>2, <2>3 DEF FramingInit, FramingTypeOK, Spans, Frame
<1>2. SplitInv /\ SliceInv
  BY DEF FramingInit, SplitInv, SliceInv, Chain, Bounds, Total
<1>3. FramesFit /\ NothingLost /\ EndsOnce
  BY DEF FramingInit, FramesFit, NothingLost, EndsOnce
<1> QED
  BY <1>1, <1>2, <1>3 DEF IInv

(* What does not change the frames and what they are about leaves alone    *)
(* what is said of them.                                                   *)
LEMMA SameFrames ==
  ASSUME IInv, at \in {"split", "error"}, UNCHANGED <<frames, given>>,
         at' \in {"split", "error"}
  PROVE  FramesFit' /\ NothingLost' /\ EndsOnce'
BY DEF IInv, SliceInv, FramesFit, NothingLost, EndsOnce

LEMMA RefuseStep == IInv /\ Refuse => IInv'
<1> SUFFICES ASSUME IInv, Refuse PROVE IInv'
  OBVIOUS
<1>1. FramesFit' /\ NothingLost' /\ EndsOnce'
  BY SameFrames DEF Refuse, bodyVars
<1>2. FramingTypeOK' /\ SplitInv' /\ SliceInv'
  BY DEF IInv, FramingTypeOK, SplitInv, SliceInv, Refuse, headVars, bodyVars, Bounds, Fit, Total
<1> QED
  BY <1>1, <1>2 DEF IInv

LEMMA TakeCharStep ==
  ASSUME IInv, NEW size \in CharSizes, size <= max, TakeChar(size), UNCHANGED max
  PROVE  /\ ends' \in Seq(Nat) /\ from' \in Nat /\ bytes' \in Nat /\ chunks' \in Seq(Spans)
         /\ SplitInv'
<1> DEFINE cut == from < Total /\ bytes + size > max
<1>0. /\ ends \in Seq(Nat) /\ from \in Nat /\ bytes \in Nat /\ chunks \in Seq(Spans)
      /\ Total \in Nat /\ Total \in Bounds /\ max \in Int /\ size \in Nat \ {0}
  BY FramingAssumption, TotalType DEF IInv, FramingTypeOK, Spans, CharSizes
<1>1. /\ ends' \in Seq(Nat) /\ ends' # <<>> /\ Total' = Total + size
      /\ Bounds \subseteq Bounds'
  <2>1. /\ ends' = Append(ends, Total + size) /\ Total + size \in Nat
        /\ DOMAIN ends = 1..Len(ends)
    BY <1>0 DEF TakeChar
  <2>2. /\ ends' \in Seq(Nat) /\ ends' # <<>> /\ Len(ends') = Len(ends) + 1
        /\ ends'[Len(ends) + 1] = Total + size
        /\ \A i \in 1..Len(ends) : ends'[i] = ends[i]
        /\ DOMAIN ends' = 1..(Len(ends) + 1)
    BY <1>0, <2>1, AppendIn
  <2>3. Total' = Total + size
    BY <2>2 DEF Total
  <2>4. \A k \in DOMAIN ends : k \in DOMAIN ends' /\ ends'[k] = ends[k]
    BY <1>0, <2>1, <2>2
  <2> QED
    BY <2>2, <2>3, <2>4 DEF Bounds
<1>2. \A span : Fit(span) => Fit(span)'
  BY <1>1 DEF Fit
<1>3. CASE cut
  <2>1. chunks' = Append(chunks, Span(from, Total)) /\ from' = Total /\ bytes' = size
    BY <1>3 DEF TakeChar
  <2>2. Chain(chunks', from') /\ chunks' \in Seq(Spans)
    BY <1>0, <2>1, ChainAppend DEF IInv, SplitInv
  <2>3. Fit(Span(from, Total))
    <3>1. Total - from \in 0..max
      BY <1>0, <1>3 DEF IInv, SplitInv, Total
    <3> QED
      BY <1>0, <3>1 DEF IInv, SplitInv, Fit, Span
  <2>4. Span(from, Total) \in Spans
    BY <1>0 DEF Span, Spans
  <2>5. \A i \in DOMAIN chunks' :
          chunks'[i] = Span(from, Total) \/ (i \in DOMAIN chunks /\ chunks'[i] = chunks[i])
    BY <1>0, <2>1, <2>4, AppendIn
  <2>6. \A i \in DOMAIN chunks' : Fit(chunks'[i])
    BY <2>3, <2>5 DEF IInv, SplitInv
  <2>7. \A i \in DOMAIN chunks' : Fit(chunks[i])'
    BY <1>2, <2>6
  <2>8. Chain(chunks, from)'
    BY <2>2 DEF Chain
  <2>9. (from \in Bounds /\ from <= Total /\ bytes = Total - from /\ (ends # <<>> => bytes <= max))'
    BY <1>0, <1>1, <2>1
  <2> QED
    BY <1>0, <1>1, <2>1, <2>2, <2>7, <2>8, <2>9 DEF SplitInv
<1>4. CASE ~ cut
  <2>1. chunks' = chunks /\ from' = from /\ bytes' = bytes + size
    BY <1>4 DEF TakeChar
  <2>2. bytes + size <= max
    BY <1>0, <1>4 DEF IInv, SplitInv
  <2>3. \A i \in DOMAIN chunks' : Fit(chunks[i])'
    BY <1>2, <2>1 DEF IInv, SplitInv
  <2>4. Chain(chunks, from)'
    BY <2>1 DEF IInv, SplitInv, Chain
  <2>5. (from \in Bounds /\ from <= Total /\ bytes = Total - from /\ (ends # <<>> => bytes <= max))'
    BY <1>0, <1>1, <2>1, <2>2 DEF IInv, SplitInv
  <2> QED
    BY <1>0, <1>1, <2>1, <2>3, <2>4, <2>5 DEF SplitInv
<1> QED
  BY <1>3, <1>4

LEMMA NextCharStep ==
  ASSUME NEW size \in CharSizes, IInv, NextChar(size)
  PROVE  IInv'
<1>1. FramesFit' /\ NothingLost' /\ EndsOnce'
  BY SameFrames DEF NextChar, bodyVars
<1>2. SliceInv'
  BY DEF NextChar, bodyVars, IInv, SliceInv
<1>3. CASE size > max
  <2>1. UNCHANGED <<id, max, ends, from, bytes, chunks, left, more, messages, given, frames>> /\ at' = "error"
    BY <1>3 DEF NextChar, headVars, bodyVars
  <2>2. FramingTypeOK' /\ SplitInv'
    BY <2>1 DEF IInv, FramingTypeOK, SplitInv, Bounds, Fit, Total
  <2> QED
    BY <1>1, <1>2, <2>2 DEF IInv
<1>4. CASE ~ size > max
  <2>1. /\ TakeChar(size) /\ UNCHANGED <<id, max, left, more, messages, given, frames>>
        /\ at' = at
    BY <1>4 DEF NextChar, bodyVars
  <2>2. size <= max
    BY <1>4, FramingAssumption DEF IInv, FramingTypeOK, CharSizes
  <2>3. /\ ends' \in Seq(Nat) /\ from' \in Nat /\ bytes' \in Nat /\ chunks' \in Seq(Spans)
        /\ SplitInv'
    BY <2>1, <2>2, TakeCharStep
  <2>4. FramingTypeOK'
    BY <2>1, <2>3 DEF IInv, FramingTypeOK, Spans
  <2> QED
    BY <1>1, <1>2, <2>3, <2>4 DEF IInv
<1> QED
  BY <1>3, <1>4

LEMMA SendHeadStep == IInv /\ SendHead => IInv'
<1> SUFFICES ASSUME IInv, SendHead PROVE IInv'
  OBVIOUS
<1> DEFINE n == Len(Pieces)
<1>0. /\ Pieces \in Seq(Spans) /\ Pieces # <<>> /\ Chain(Pieces, Total)
      /\ \A i \in DOMAIN Pieces : Fit(Pieces[i])
  BY PiecesFit DEF SendHead, IInv
<1>1. n \in Nat \ {0} /\ DOMAIN Pieces = 1..n /\ \A i \in 1..n : Pieces[i] \in Spans
  BY <1>0
<1>2. /\ frames' = [i \in 1..n |-> HeaderFrame(Pieces[i], i = n)]
      /\ at' = "open" /\ UNCHANGED <<id, max, ends, from, bytes, chunks, left, more, messages, given>>
  BY <1>1 DEF SendHead, headVars, bodyVars
<1> HIDE DEF n
<1>3. /\ frames' \in Seq(Frame) /\ Len(frames') = n /\ DOMAIN frames' = 1..n /\ frames' # <<>>
      /\ \A i \in 1..n : frames'[i] = HeaderFrame(Pieces[i], i = n)
  <2>1. \A i \in 1..n : HeaderFrame(Pieces[i], i = n) \in Frame
    <3> TAKE i \in 1..n
    <3>1. (i = n) \in BOOLEAN
      OBVIOUS
    <3> QED
      BY <1>1, <3>1, FrameTypes
  <2> QED
    BY <1>1, <1>2, <2>1
<1>4. \A i \in 1..n :
        /\ frames'[i].type = 1 /\ frames'[i].payload = Pieces[i]
        /\ (frames'[i].headerEnd <=> i = n) /\ ~ frames'[i].streamEnd
  <2> TAKE i \in 1..n
  <2> DEFINE b == i = n
             g == frames'[i]
  <2>1. b \in BOOLEAN /\ g = HeaderFrame(Pieces[i], b)
    BY <1>3
  <2> HIDE DEF b, g
  <2>2. g.type = 1 /\ g.payload = Pieces[i] /\ (g.headerEnd <=> b) /\ ~ g.streamEnd
    BY <2>1, HeaderFrameIs
  <2> QED
    BY <2>2 DEF b, g
<1>5. /\ left = 0 /\ given = 0 /\ left \in Nat /\ Total' = Total
  BY <1>2 DEF IInv, SliceInv, SendHead, FramingTypeOK, Total
<1>6. FramingTypeOK' /\ SplitInv' /\ SliceInv'
  <2>1. FramingTypeOK'
    BY <1>2, <1>3 DEF IInv, FramingTypeOK, Frame, Spans
  <2>2. SplitInv'
    BY <1>2 DEF IInv, SplitInv, Bounds, Fit, Total
  <2>3. SliceInv'
    BY <1>2, <1>5 DEF SliceInv
  <2> QED
    BY <2>1, <2>2, <2>3
<1>7. FramesFit'
  BY <1>0, <1>1, <1>2, <1>3, <1>4 DEF FramesFit, Fit, Bounds
<1>8. NothingLost'
  <2>1. /\ Pieces[1].from = 0 /\ Pieces[n].to = Total
        /\ \A i \in 1..(n - 1) : Pieces[i].to = Pieces[i + 1].from
    BY <1>0 DEF Chain, n
  <2>2. \A i \in 1..(n - 1) : i \in 1..n /\ i + 1 \in 1..n
    BY <1>1
  <2>3. \A i \in 1..(n - 1) : frames'[i].type = frames'[i + 1].type /\ Follows(i, i + 1)'
    BY <1>4, <2>1, <2>2 DEF Follows
  <2>4. 1 \in 1..n /\ n \in 1..n
    BY <1>1
  <2>5. frames'[1].type = 1 /\ frames'[1].payload.from = 0
        /\ frames'[n].type = 1 /\ frames'[n].payload.to = Total
    BY <1>4, <2>1, <2>4
  <2> QED
    BY <1>3, <1>5, <2>3, <2>5 DEF NothingLost
<1>9. EndsOnce'
  BY <1>1, <1>2, <1>3, <1>4 DEF EndsOnce, Headers
<1> QED
  BY <1>6, <1>7, <1>8, <1>9 DEF IInv

LEMMA SendBodyStep ==
  ASSUME NEW size \in 0..MaxBody, IInv, SendBody(size)
  PROVE  IInv'
<1>0. /\ size \in Nat /\ at = "open" /\ at' = "data" /\ left' = size /\ more' \in BOOLEAN
      /\ messages' = messages + 1 /\ given' = given + size
      /\ UNCHANGED <<id, max, ends, from, bytes, chunks, frames>>
  BY FramingAssumption DEF SendBody, headVars
<1>1. /\ left = 0 /\ given \in Nat /\ messages \in Nat /\ Len(frames) \in Nat
      /\ Total \in Nat /\ Total' = Total
  BY <1>0, TotalType DEF IInv, SliceInv, FramingTypeOK, Total
<1>2. FramingTypeOK' /\ SplitInv'
  <2>1. FramingTypeOK'
    BY <1>0, <1>1 DEF IInv, FramingTypeOK
  <2>2. SplitInv'
    BY <1>0, <1>1 DEF IInv, SplitInv, Bounds, Fit, Total
  <2> QED
    BY <2>1, <2>2
<1>3. SliceInv'
  BY <1>0, <1>1 DEF IInv, SliceInv
<1>4. FramesFit' /\ EndsOnce'
  BY <1>0 DEF IInv, FramesFit, EndsOnce, Headers
<1>5. NothingLost'
  BY <1>0, <1>1 DEF IInv, NothingLost, Follows
<1> QED
  BY <1>2, <1>3, <1>4, <1>5 DEF IInv

LEMMA SendSliceStep == IInv /\ SendSlice => IInv'
<1> SUFFICES ASSUME IInv, SendSlice PROVE IInv'
  OBVIOUS
<1> DEFINE n == Len(frames)
           span == Span(given - left, given - left + Slice)
           end == Slice = left /\ ~ more
           f == DataFrame(span, end)
<1>0. /\ left \in Nat /\ given \in Nat /\ left <= given /\ MaxData \in Nat \ {0} /\ more \in BOOLEAN
      /\ frames \in Seq(Frame) /\ n \in Nat /\ DOMAIN frames = 1..n
      /\ Total \in Nat /\ at = "data"
  BY FramingAssumption, TotalType DEF IInv, SliceInv, FramingTypeOK, Frame, Spans, SendSlice
<1>1. Slice \in Nat /\ Slice <= left /\ Slice <= MaxData /\ (left = 0 => Slice = 0)
  BY <1>0 DEF Slice
<1>2. span \in Spans /\ span.from = given - left /\ span.to = given - left + Slice
  BY <1>0, <1>1 DEF Span, Spans
<1>3. f \in Frame /\ f.type = 0 /\ f.payload = span /\ ~ f.headerEnd /\ (f.streamEnd <=> end)
  <2>1. end \in BOOLEAN
    OBVIOUS
  <2> HIDE DEF end, span
  <2> QED
    BY <1>2, <2>1, FrameTypes DEF DataFrame
<1>4. /\ frames' = Append(frames, f) /\ left' = left - Slice
      /\ at' = IF Slice < left THEN "data" ELSE IF more THEN "open" ELSE "complete"
      /\ UNCHANGED <<id, max, ends, from, bytes, chunks, more, messages, given>>
  BY DEF SendSlice, LastSlice, headVars
<1> HIDE DEF f, n
<1>5. /\ frames' \in Seq(Frame) /\ Len(frames') = n + 1 /\ DOMAIN frames' = 1..(n + 1)
      /\ frames' # <<>> /\ frames'[n + 1] = f /\ \A i \in 1..n : frames'[i] = frames[i]
  BY <1>0, <1>3, <1>4, AppendIn DEF n
<1>6. Total' = Total
  BY <1>4 DEF Total
<1>7. FramingTypeOK' /\ SplitInv'
  <2>1. FramingTypeOK'
    BY <1>0, <1>1, <1>4, <1>5 DEF IInv, FramingTypeOK, Frame, Spans
  <2>2. SplitInv'
    BY <1>4 DEF IInv, SplitInv, Bounds, Fit, Total
  <2> QED
    BY <2>1, <2>2
<1>8. SliceInv'
  BY <1>0, <1>1, <1>3, <1>4, <1>5 DEF SliceInv
<1>9. FramesFit'
  <2>1. f.payload.to - f.payload.from \in 0..MaxData
    BY <1>0, <1>1, <1>2, <1>3
  <2> QED
    BY <1>0, <1>3, <1>4, <1>5, <2>1 DEF IInv, FramesFit
<1>10. NothingLost'
  <2>1. /\ n # 0 /\ frames[1].type = 1 /\ frames[1].payload.from = 0
        /\ \A i \in 1..(n - 1) :
             IF frames[i].type = frames[i + 1].type
               THEN frames[i].payload.to = frames[i + 1].payload.from
               ELSE frames[i].payload.to = Total /\ frames[i + 1].payload.from = 0
        /\ frames[n].payload.to = IF frames[n].type = 1 THEN Total ELSE given - left
        /\ frames[n].type \in {0, 1} /\ (frames[n].type = 1 => given = left)
    <3>1. /\ frames # <<>> /\ frames[1].type = 1 /\ frames[1].payload.from = 0
          /\ \A i \in 1..(Len(frames) - 1) :
               IF frames[i].type = frames[i + 1].type
                 THEN frames[i].payload.to = frames[i + 1].payload.from
                 ELSE frames[i].payload.to = Total /\ frames[i + 1].payload.from = 0
          /\ frames[Len(frames)].payload.to
               = IF frames[Len(frames)].type = 1 THEN Total ELSE given - left
      BY <1>0 DEF IInv, NothingLost, Follows
    <3>2. n # 0 /\ n \in 1..n
      BY <1>0, <3>1 DEF n
    <3>3. frames[n] \in Frame
      BY <1>0, <3>2
    <3>4. frames[n].type \in {0, 1}
      BY <3>3 DEF Frame
    <3>5. frames[n].type = 1 => given = left
      BY <3>1 DEF IInv, SliceInv, n
    <3> QED
      BY <3>1, <3>2, <3>4, <3>5 DEF n
  <2>2. frames'[1].type = 1 /\ frames'[1].payload.from = 0
    BY <1>0, <1>5, <2>1
  <2>3. ASSUME NEW i \in 1..(Len(frames') - 1)
        PROVE  IF frames'[i].type = frames'[i + 1].type
                 THEN Follows(i, i + 1)'
                 ELSE frames'[i].payload.to = Total' /\ frames'[i + 1].payload.from = 0
    <3>1. CASE i = n
      <4>1. /\ frames'[n] = frames[n] /\ frames'[n + 1].type = 0
            /\ frames'[n + 1].payload.from = given - left
        BY <1>0, <1>2, <1>3, <1>5, <2>1
      <4>2. CASE frames[n].type = 1
        <5>1. given - left = 0
          BY <1>0, <2>1, <4>2
        <5> QED
          BY <1>6, <2>1, <3>1, <4>1, <4>2, <5>1
      <4>3. CASE frames[n].type = 0
        BY <2>1, <3>1, <4>1, <4>3 DEF Follows
      <4> QED
        BY <2>1, <4>2, <4>3
    <3>2. CASE i # n
      <4>1. i \in 1..(n - 1) /\ i \in 1..n /\ i + 1 \in 1..n
        BY <1>0, <1>5, <3>2
      <4> QED
        BY <1>5, <1>6, <2>1, <4>1 DEF Follows
    <3> QED
      BY <3>1, <3>2
  <2>4. frames'[Len(frames')].type = 0 /\ frames'[Len(frames')].payload.to = given' - left'
    BY <1>0, <1>1, <1>2, <1>3, <1>4, <1>5
  <2> QED
    BY <1>5, <2>2, <2>3, <2>4 DEF NothingLost
<1>11. EndsOnce'
  <2>1. /\ \A i \in 1..n : frames[i].headerEnd <=> (i \in Headers /\ i + 1 \notin Headers)
        /\ \A i \in 1..n : ~ frames[i].streamEnd
    BY <1>0 DEF IInv, EndsOnce
  <2>2. Headers' = Headers
    BY <1>0, <1>3, <1>5 DEF Headers
  <2>3. end <=> at' = "complete"
    BY <1>0, <1>1, <1>4
  <2> HIDE DEF end
  <2>4. ASSUME NEW i \in 1..(n + 1)
        PROVE  frames'[i].headerEnd <=> (i \in Headers' /\ i + 1 \notin Headers')
    <3>1. CASE i = n + 1
      <4>1. i \notin Headers
        BY <1>0, <3>1 DEF Headers
      <4> QED
        BY <1>3, <1>5, <2>2, <3>1, <4>1
    <3>2. CASE i # n + 1
      BY <1>0, <1>5, <2>1, <2>2, <3>2
    <3> QED
      BY <3>1, <3>2
  <2>5. ASSUME NEW i \in 1..(n + 1)
        PROVE  frames'[i].streamEnd <=> (at' = "complete" /\ i = n + 1)
    BY <1>0, <1>3, <1>5, <2>1, <2>3
  <2> QED
    BY <1>5, <2>4, <2>5 DEF EndsOnce
<1> QED
  BY <1>7, <1>8, <1>9, <1>10, <1>11 DEF IInv

LEMMA StutterStep == IInv /\ UNCHANGED framingVars => IInv'
<1> SUFFICES ASSUME IInv, UNCHANGED framingVars PROVE IInv'
  OBVIOUS
<1>1. FramingTypeOK' /\ SplitInv' /\ SliceInv'
  BY DEF IInv, framingVars, headVars, bodyVars, FramingTypeOK, SplitInv, SliceInv, Bounds, Fit, Total
<1>2. FramesFit' /\ NothingLost' /\ EndsOnce'
  BY DEF IInv, framingVars, headVars, bodyVars, FramesFit, NothingLost, EndsOnce, Headers, Follows, Total
<1> QED
  BY <1>1, <1>2 DEF IInv

LEMMA InvStep == IInv /\ [FramingNext]_framingVars => IInv'
BY RefuseStep, NextCharStep, SendHeadStep, SendBodyStep, SendSliceStep, StutterStep DEF FramingNext

LEMMA Invariant == FramingSpec => []IInv
BY InitInv, InvStep, PTL DEF FramingSpec

-----------------------------------------------------------------------------
(***************************************************************************)
(* Offsets and counters stay natural numbers, for every text, limit and    *)
(* body.                                                                   *)
(***************************************************************************)
THEOREM FramingTypeCorrect == FramingSpec => []FramingTypeOK
BY Invariant, PTL DEF IInv

(***************************************************************************)
(* split_header_text and _iter_data_chunks keep to their limits, and no    *)
(* character of a head is cut in two.                                      *)
(***************************************************************************)
THEOREM FramesFitHolds == FramingSpec => []FramesFit
BY Invariant, PTL DEF IInv

(***************************************************************************)
(* The frames of a response are its head and body, with no gap or overlap. *)
(***************************************************************************)
THEOREM NothingLostHolds == FramingSpec => []NothingLost
BY Invariant, PTL DEF IInv

(***************************************************************************)
(* Head and stream end once, each with its last frame.                     *)
(***************************************************************************)
THEOREM EndsOnceHolds == FramingSpec => []EndsOnce
BY Invariant, PTL DEF IInv

-----------------------------------------------------------------------------
(* The id of a frame: the digits of a number in base Byte put together     *)
(* again are that number.                                                  *)

LEMMA DivMod ==
  ASSUME NEW a \in Int, NEW b \in Int, b > 0
  PROVE  a = b * (a \div b) + (a % b)
BY SMTT(60)

LEMMA DivIs ==
  ASSUME NEW a \in Int, NEW b \in Nat \ {0}, NEW q \in Int, NEW r \in 0..(b - 1), a = b * q + r
  PROVE  a \div b = q /\ a % b = r
<1>1. a = b * (a \div b) + (a % b) /\ a % b \in 0..(b - 1) /\ a \div b \in Int
  <2>1. b \in Int /\ b > 0
    OBVIOUS
  <2>2. a \div b \in Int
    OBVIOUS
  <2>3. a % b \in 0..(b - 1)
    OBVIOUS
  <2>4. a = b * (a \div b) + (a % b)
    BY <2>1, DivMod
  <2> QED
    BY <2>2, <2>3, <2>4
<1> DEFINE p == a \div b
           s == a % b
<1>2. b * (p - q) = r - s
  BY <1>1
<1> HIDE DEF p, s
<1>3. p \in Int /\ s \in 0..(b - 1)
  BY <1>1 DEF p, s
<1>4. ~ (p - q >= 1)
  <2> SUFFICES ASSUME p - q >= 1 PROVE FALSE
    OBVIOUS
  <2>1. b * (p - q) >= b
    BY <1>3
  <2> QED
    BY <1>2, <1>3, <2>1
<1>5. ~ (p - q <= -1)
  <2> SUFFICES ASSUME p - q <= -1 PROVE FALSE
    OBVIOUS
  <2>1. b * (p - q) <= -b
    BY <1>3
  <2> QED
    BY <1>2, <1>3, <2>1
<1>6. p = q
  BY <1>3, <1>4, <1>5
<1>7. s = r
  BY <1>2, <1>3, <1>6
<1> QED
  BY <1>6, <1>7 DEF p, s

LEMMA Div ==
  ASSUME NEW a \in Nat, NEW b \in Nat \ {0}
  PROVE  a \div b \in Nat /\ a % b \in 0..(b - 1) /\ a = b * (a \div b) + (a % b)
<1>1. a = b * (a \div b) + (a % b) /\ a % b \in 0..(b - 1) /\ a \div b \in Int
  <2>1. b \in Int /\ b > 0
    OBVIOUS
  <2>2. a \div b \in Int
    OBVIOUS
  <2>3. a % b \in 0..(b - 1)
    OBVIOUS
  <2>4. a = b * (a \div b) + (a % b)
    BY <2>1, DivMod
  <2> QED
    BY <2>2, <2>3, <2>4
<1> DEFINE p == a \div b
<1>2. ~ (p <= -1)
  <2> SUFFICES ASSUME p <= -1 PROVE FALSE
    OBVIOUS
  <2>1. b * p <= -b
    BY <1>1
  <2> QED
    BY <1>1, <2>1
<1> QED
  BY <1>1, <1>2

(* Of a number, the digits from the lowest. *)
LEMMA DivTwice ==
  ASSUME NEW a \in Nat, NEW b \in Nat \ {0}, NEW c \in Nat \ {0}
  PROVE  a \div (b * c) = (a \div b) \div c
<1> DEFINE p == a \div b
           q == p \div c
           r == a % b
           s == p % c
<1>1. p \in Nat /\ r \in 0..(b - 1) /\ a = b * p + r
  BY Div
<1>2. q \in Nat /\ s \in 0..(c - 1) /\ p = c * q + s
  BY <1>1, Div
<1> HIDE DEF p, q, r, s
<1>3. a = (b * c) * q + (b * s + r)
  <2>1. b * p = b * (c * q) + b * s /\ b * (c * q) = (b * c) * q
    BY <1>1, <1>2
  <2> QED
    BY <1>1, <1>2, <2>1
<1>4. b * s + r \in 0..(b * c - 1)
  <2>1. b * s <= b * (c - 1) /\ b * (c - 1) = b * c - b /\ b * s >= 0
    BY <1>1, <1>2
  <2> QED
    BY <1>1, <1>2, <2>1
<1>5. b * c \in Nat \ {0}
  OBVIOUS
<1>6. a \div (b * c) = q
  BY <1>2, <1>3, <1>4, <1>5, DivIs
<1> QED
  BY <1>6 DEF q, p

LEMMA Positive ==
  /\ Byte \in Nat \ {0} /\ Byte * Byte \in Nat \ {0} /\ Byte * Byte * Byte \in Nat \ {0}
  /\ Word \in Nat \ {0}
<1>1. Byte \in Nat \ {0}
  BY FramingAssumption
<1>2. \A a, b \in Nat \ {0} : a * b \in Nat \ {0}
  OBVIOUS
<1>3. Byte * Byte \in Nat \ {0}
  BY <1>1, <1>2
<1>4. Byte * Byte * Byte \in Nat \ {0}
  BY <1>1, <1>2, <1>3
<1>5. Word \in Nat \ {0}
  BY <1>1, <1>2, <1>4 DEF Word
<1> QED
  BY <1>1, <1>3, <1>4, <1>5

(* Half of the words are those whose first byte is in the upper half. *)
LEMMA Halves ==
  ASSUME NEW q \in Nat, NEW r \in 0..(Byte * Byte * Byte - 1)
  PROVE  q >= Byte \div 2 <=> (Byte * Byte * Byte) * q + r >= Word \div 2
<1> DEFINE h == Byte \div 2
           C == Byte * Byte * Byte
<1>1. h \in Nat /\ Byte = 2 * h
  BY FramingAssumption
<1>2. C \in Nat \ {0} /\ Byte \in Nat \ {0}
  BY Positive
<1>3. Word = C * Byte
  BY DEF Word
<1> HIDE DEF h, C
<1>4. Word \div 2 = C * h
  <2>1. C * Byte = 2 * (C * h) + 0 /\ C * h \in Nat
    BY <1>1, <1>2
  <2> QED
    BY <1>1, <1>2, <1>3, <2>1, DivIs
<1>5. ASSUME q >= h PROVE C * q + r >= C * h
  <2>1. C * q >= C * h
    BY <1>1, <1>2, <1>5
  <2>2. C * q \in Nat /\ C * h \in Nat /\ r \in Nat
    BY <1>1, <1>2 DEF C
  <2> QED
    BY <2>1, <2>2
<1>6. ASSUME ~ (q >= h) PROVE ~ (C * q + r >= C * h)
  <2>1. q + 1 <= h
    BY <1>1, <1>6
  <2>2. C * (q + 1) <= C * h /\ C * (q + 1) = C * q + C
    BY <1>1, <1>2, <2>1
  <2>3. C * q \in Nat /\ C * h \in Nat /\ r \in Nat /\ r < C
    BY <1>1, <1>2 DEF C
  <2> QED
    BY <1>2, <2>2, <2>3
<1> QED
  BY <1>4, <1>5, <1>6 DEF h, C

(* Put together as decode_frame does. *)
LEMMA Digits ==
  ASSUME NEW u \in 0..(Word - 1)
  PROVE  \E q \in Nat, r \in 0..(Byte * Byte * Byte - 1) :
           LET D(k) == (u \div k) % Byte IN
           /\ D(Byte * Byte * Byte) = q
           /\ u = (Byte * Byte * Byte) * q + r
           /\ u = ((D(Byte * Byte * Byte) * Byte + D(Byte * Byte)) * Byte + D(Byte)) * Byte + D(1)
<1> DEFINE B == Byte
           q1 == u \div B
           q2 == q1 \div B
           q3 == q2 \div B
           r0 == u % B
           r1 == q1 % B
           r2 == q2 % B
<1>1. B \in Nat \ {0} /\ u \in Nat /\ u < Word
  BY Positive
<1>2. q1 \in Nat /\ r0 \in 0..(B - 1) /\ u = B * q1 + r0
  BY <1>1, Div
<1>3. q2 \in Nat /\ r1 \in 0..(B - 1) /\ q1 = B * q2 + r1
  BY <1>1, <1>2, Div
<1>4. q3 \in Nat /\ r2 \in 0..(B - 1) /\ q2 = B * q3 + r2
  BY <1>1, <1>3, Div
<1>5. u \div (B * B) = q2
  <2>1. u \div (B * B) = (u \div B) \div B
    BY <1>1, DivTwice
  <2> QED
    BY <2>1
<1>6. u \div (B * B * B) = q3
  <2>1. B * B \in Nat \ {0}
    BY Positive
  <2> DEFINE S == B * B
  <2>2. S \in Nat \ {0} /\ u \div S = q2
    BY <2>1, <1>5
  <2> HIDE DEF S, B, q2
  <2>3. u \div (S * B) = (u \div S) \div B
    BY <1>1, <2>2, DivTwice
  <2>4. u \div (S * B) = q2 \div B
    BY <2>2, <2>3
  <2> QED
    BY <2>4 DEF S, q3
<1>7. u \div 1 = u
  BY <1>1
<1> DEFINE r == B * B * r2 + B * r1 + r0
<1> HIDE DEF q1, q2, q3, r0, r1, r2
<1>8. u = (B * B * B) * q3 + r
  BY <1>1, <1>2, <1>3, <1>4
<1>9. r \in 0..(B * B * B - 1)
  <2>1. B * r1 + r0 \in 0..(B * B - 1)
    <3>1. B * r1 <= B * (B - 1) /\ B * (B - 1) = B * B - B /\ B * r1 >= 0
      BY <1>1, <1>3
    <3> QED
      BY <1>1, <1>2, <1>3, <3>1
  <2> DEFINE S == B * B
             t == B * r1 + r0
  <2>2. S \in Nat \ {0} /\ t \in 0..(S - 1) /\ r = S * r2 + t
    <3>1. S \in Nat \ {0}
      BY Positive
    <3> QED
      BY <1>1, <1>2, <1>3, <1>4, <2>1, <3>1
  <2>3. B * B * B = S * B
    OBVIOUS
  <2> HIDE DEF S, t, r
  <2>4. S * r2 <= S * (B - 1) /\ S * (B - 1) = S * B - S /\ S * r2 >= 0
    BY <1>1, <1>4, <2>2
  <2>5. r \in 0..(S * B - 1)
    BY <1>1, <1>4, <2>2, <2>4
  <2> QED
    BY <2>3, <2>5
<1>10. q3 < B
  <2> DEFINE C == B * B * B
  <2>1. C \in Nat \ {0} /\ Word = C * B
    BY Positive DEF Word
  <2>2. u = C * q3 + r /\ r >= 0
    BY <1>8, <1>9
  <2> HIDE DEF C, r
  <2> SUFFICES ASSUME q3 >= B PROVE FALSE
    BY <1>1, <1>4
  <2>3. C * q3 >= C * B
    BY <1>1, <1>4, <2>1
  <2> QED
    BY <1>1, <1>4, <1>9, <2>1, <2>2, <2>3
<1>11. q3 % B = q3
  <2>1. q3 = B * 0 + q3
    BY <1>1, <1>4
  <2> QED
    BY <1>1, <1>4, <1>10, <2>1, DivIs
<1> DEFINE D(k) == (u \div k) % Byte
<1>12. D(B * B * B) = q3 /\ D(B * B) = r2 /\ D(B) = r1 /\ D(1) = r0
  BY <1>5, <1>6, <1>7, <1>11 DEF r2, r1, r0, q1
<1> HIDE DEF D
<1>13. u = ((q3 * B + r2) * B + r1) * B + r0
  <2>1. q2 = q3 * B + r2
    BY <1>1, <1>4
  <2>2. q1 = q2 * B + r1
    BY <1>1, <1>3
  <2>3. u = q1 * B + r0
    BY <1>1, <1>2
  <2> QED
    BY <2>1, <2>2, <2>3
<1>14. u = ((D(B * B * B) * B + D(B * B)) * B + D(B)) * B + D(1)
  BY <1>12, <1>13
<1> HIDE DEF r
<1> QED
  BY <1>4, <1>8, <1>9, <1>12, <1>14 DEF D

LEMMA HalfWord ==
  Word \div 2 \in Nat /\ Word = 2 * (Word \div 2) /\ Byte <= Word \div 2 /\ Byte \div 2 < Word \div 2
<1> DEFINE h == Byte \div 2
           S == Byte * Byte
<1>1. h \in Nat /\ Byte = 2 * h /\ h > 1
  BY FramingAssumption
<1>2. S \in Nat \ {0} /\ Byte \in Nat \ {0}
  BY Positive
<1>3. Word = 2 * (S * Byte * h)
  <2>1. Word = S * Byte * Byte
    BY DEF Word
  <2> HIDE DEF S, h
  <2> QED
    BY <1>1, <1>2, <2>1
<1> DEFINE H == S * Byte * h
<1> HIDE DEF S, h
<1>4. H \in Nat
  BY <1>1, <1>2
<1>5. Word \div 2 = H
  <2> HIDE DEF H
  <2>1. Word = 2 * H + 0
    BY <1>3, <1>4 DEF H
  <2> QED
    BY <1>4, <2>1, DivIs
<1>6. Byte <= H
  <2>1. S * Byte >= Byte
    BY <1>2
  <2> DEFINE T == S * Byte
  <2>2. T \in Nat /\ T >= Byte
    BY <1>2, <2>1
  <2> HIDE DEF T
  <2>3. T * h >= T
    BY <1>1, <2>2
  <2> QED
    BY <1>1, <1>2, <2>2, <2>3 DEF T
<1>7. h < H
  BY <1>1, <1>2, <1>4, <1>6
<1> HIDE DEF H
<1> QED
  BY <1>3, <1>4, <1>5, <1>6, <1>7 DEF H, h

IdRange == (-(Word \div 2))..(Word \div 2 - 1)

LEMMA IdReads ==
  ASSUME NEW n \in IdRange
  PROVE  IdOf(IdBytes(n)) = n
<1> DEFINE u == n % Word
           C == Byte * Byte * Byte
           D(k) == (u \div k) % Byte
<1>1. Word \in Nat \ {0} /\ Word \div 2 \in Nat /\ Word = 2 * (Word \div 2)
  BY Positive, HalfWord
<1> DEFINE H == Word \div 2
<1>2. n \in Int /\ -H <= n /\ n < H
  BY <1>1 DEF IdRange
<1>3. u \in 0..(Word - 1) /\ (u >= H <=> n < 0) /\ u = IF n < 0 THEN n + Word ELSE n
  <2> HIDE DEF H
  <2>1. H \in Nat /\ Word = 2 * H
    BY <1>1 DEF H
  <2>2. CASE n < 0
    <3> DEFINE back == -1
    <3>1. n = Word * back + (n + Word) /\ n + Word \in 0..(Word - 1) /\ back \in Int
      BY <1>1, <1>2, <2>1, <2>2
    <3> HIDE DEF back
    <3>2. n % Word = n + Word
      BY <1>1, <1>2, <3>1, DivIs
    <3> QED
      BY <1>2, <2>1, <2>2, <3>1, <3>2
  <2>3. CASE ~ (n < 0)
    <3>1. n = Word * 0 + n /\ n \in 0..(Word - 1)
      BY <1>1, <1>2, <2>1, <2>3
    <3>2. n % Word = n
      BY <1>1, <1>2, <3>1, DivIs
    <3> QED
      BY <1>2, <2>1, <2>3, <3>1, <3>2
  <2> QED
    BY <2>2, <2>3
<1> HIDE DEF u, H
<1>4. PICK q \in Nat, r \in 0..(C - 1) :
        /\ D(C) = q /\ u = C * q + r
        /\ u = ((D(C) * Byte + D(Byte * Byte)) * Byte + D(Byte)) * Byte + D(1)
  BY <1>3, Digits
<1>5. q >= Byte \div 2 <=> u >= H
  BY <1>4, Halves DEF H
<1>6. IdBytes(n) = <<D(C), D(Byte * Byte), D(Byte), D(1)>>
  BY DEF IdBytes, u
<1> HIDE DEF D, C
<1>7. IdOf(IdBytes(n)) = IF q >= Byte \div 2 THEN u - Word ELSE u
  <2> DEFINE b == IdBytes(n)
  <2>1. b[1] = q /\ ((b[1] * Byte + b[2]) * Byte + b[3]) * Byte + b[4] = u
    BY <1>4, <1>6
  <2> HIDE DEF b
  <2>2. IdOf(b) = IF b[1] >= Byte \div 2
                    THEN (((b[1] * Byte + b[2]) * Byte + b[3]) * Byte + b[4]) - Word
                    ELSE ((b[1] * Byte + b[2]) * Byte + b[3]) * Byte + b[4]
    BY DEF IdOf
  <2>3. IdOf(b) = IF q >= Byte \div 2 THEN u - Word ELSE u
    BY <2>1, <2>2
  <2> QED
    BY <2>3 DEF b
<1> QED
  BY <1>1, <1>2, <1>3, <1>5, <1>7

LEMMA TwoAndFour ==
  ASSUME NEW T, NEW x \in Seq(T), NEW b \in Seq(T), Len(x) = 2, Len(b) = 4
  PROVE  /\ x \o b \in Seq(T) /\ Len(x \o b) = 6
         /\ (x \o b)[1] = x[1] /\ (x \o b)[2] = x[2]
         /\ (x \o b)[3] = b[1] /\ (x \o b)[4] = b[2]
         /\ (x \o b)[5] = b[3] /\ (x \o b)[6] = b[4]
<1> DEFINE p == x \o b
<1>1. p \in Seq(T) /\ Len(p) = Len(x) + Len(b)
  BY ConcatProperties
<1>2. \A i \in 1..(Len(x) + Len(b)) : p[i] = IF i <= Len(x) THEN x[i] ELSE b[i - Len(x)]
  BY ConcatProperties
<1> HIDE DEF p
<1>4. Len(p) = 6
  BY <1>1
<1>5. p[1] = x[1] /\ p[2] = x[2]
  BY <1>2
<1>6. \A i \in 3..6 : p[i] = b[i - 2]
  BY <1>2
<1>7. p[3] = b[1] /\ p[4] = b[2] /\ p[5] = b[3] /\ p[6] = b[4]
  BY <1>6
<1> QED
  BY <1>1, <1>4, <1>5, <1>7 DEF p

LEMMA PrefixReads ==
  ASSUME FramingTypeOK, id \in IdRange, NEW i \in DOMAIN frames
  PROVE  Decode(Prefix(frames[i])) =
           [type |-> frames[i].type, streamEnd |-> frames[i].streamEnd,
            headerEnd |-> frames[i].headerEnd, id |-> id]
<1> DEFINE f == frames[i]
           p == Prefix(f)
<1>1. f.type \in {0, 1} /\ f.streamEnd \in BOOLEAN /\ f.headerEnd \in BOOLEAN
  <2>1. frames \in Seq(Frame)
    BY DEF FramingTypeOK, Frame, Spans
  <2>2. f \in Frame
    BY <2>1
  <2> QED
    BY <2>2 DEF Frame
<1> DEFINE b == IdBytes(id)
<1>2. b \in Seq(Int) /\ Len(b) = 4
  <2>1. \A x, y, z, w \in Int : <<x, y, z, w>> \in Seq(Int) /\ Len(<<x, y, z, w>>) = 4
    OBVIOUS
  <2>2. \A k \in Nat \ {0} : \A u \in Int : (u \div k) % Byte \in Int
    BY FramingAssumption
  <2>3. id % Word \in Int
    BY Positive DEF FramingTypeOK
  <2> QED
    BY <2>1, <2>2, <2>3, Positive DEF IdBytes
<1> HIDE DEF f, b
<1>3. p = <<f.type, Flags(f)>> \o b
  BY DEF Prefix, f, b
<1> DEFINE x == <<f.type, Flags(f)>>
<1>4. x \in Seq(Int) /\ Len(x) = 2 /\ x[1] = f.type /\ x[2] = Flags(f)
  <2>1. f.type \in Int /\ Flags(f) \in Int
    BY <1>1 DEF Flags
  <2> QED
    BY <2>1
<1> HIDE DEF p, x
<1>5. /\ p[1] = f.type /\ p[2] = Flags(f)
      /\ LET s == SubSeq(p, 3, 6) IN s[1] = b[1] /\ s[2] = b[2] /\ s[3] = b[3] /\ s[4] = b[4]
  <2>1. p = x \o b
    BY <1>3 DEF x
  <2>2. p \in Seq(Int) /\ Len(p) = 6
    BY <1>2, <1>4, <2>1, TwoAndFour
  <2>3. p[1] = x[1] /\ p[2] = x[2] /\ p[3] = b[1] /\ p[4] = b[2] /\ p[5] = b[3] /\ p[6] = b[4]
    BY <1>2, <1>4, <2>1, TwoAndFour
  <2>4. \A k \in 1..4 : SubSeq(p, 3, 6)[k] = p[k + 2]
    BY <2>2
  <2> QED
    BY <1>4, <2>3, <2>4
<1>6. IdOf(SubSeq(p, 3, 6)) = id
  <2>1. IdOf(SubSeq(p, 3, 6)) = IdOf(b)
    BY <1>5 DEF IdOf
  <2> QED
    BY <2>1, IdReads DEF b
<1>7. (p[2] % 2 = 1) = f.streamEnd /\ ((p[2] \div 4) % 2 = 1) = f.headerEnd
  BY <1>1, <1>5 DEF Flags
<1>8. Decode(p) = [type |-> f.type, streamEnd |-> f.streamEnd, headerEnd |-> f.headerEnd, id |-> id]
  BY <1>5, <1>6, <1>7 DEF Decode
<1> QED
  BY <1>8 DEF f, p

(***************************************************************************)
(* Both ends of a connection agree about a frame: what decode_frame reads  *)
(* from the prefix that encode_frame has written is its type, its flags    *)
(* and its id, for every base of a byte and every set of ids that four     *)
(* signed bytes can hold.                                                  *)
(***************************************************************************)
THEOREM FramesDecodeHolds == FramingSpec => []FramesDecode
<1>1. FramingInit => id \in IdRange
  <2> SUFFICES ASSUME FramingInit PROVE id \in IdRange
    OBVIOUS
  <2> QED
    BY FramingAssumption DEF FramingInit, IdRange
<1>2. id \in IdRange /\ [FramingNext]_framingVars => (id \in IdRange)'
  BY DEF FramingNext, framingVars, Refuse, NextChar, SendHead, SendBody, SendSlice
<1>3. FramingTypeOK /\ id \in IdRange => FramesDecode
  BY PrefixReads DEF FramesDecode
<1> QED
  BY <1>1, <1>2, <1>3, FramingTypeCorrect, PTL DEF FramingSpec
=============================================================================
