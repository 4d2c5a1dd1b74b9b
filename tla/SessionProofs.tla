--------------------------- MODULE SessionProofs ---------------------------
(***************************************************************************)
(* What holds of a session for every set of streams, all watermarks and    *)
(* all bounds.                                                             *)
(***************************************************************************)
EXTENDS Session, TLAPS

QP == INSTANCE WriteQueueProofs WITH MaxQueue <- 0

-----------------------------------------------------------------------------
(* The frames that the session sends.                                      *)

LEMMA FrameType ==
  ASSUME NEW type \in MessageType, NEW flags \in SUBSET {"STREAM_END", "HEADER_END"},
         NEW s \in Streams, NEW n \in 0..1
  PROVE  Frame(type, flags, s, n) \in Frames
BY DEF Frame, Frames, FrameSet

LEMMA WindowUpdateType == \A s \in Streams : WindowUpdate(s, 1) \in Frames
BY DEF WindowUpdate, Frame, Frames, FrameSet, MessageType

LEMMA FrameFields ==
  ASSUME NEW f \in Frames
  PROVE  f.type \in MessageType /\ f.id \in Streams /\ f.payload \in 0..1
BY DEF Frames, FrameSet

LEMMA RouterFrameFields ==
  ASSUME NEW f \in RouterFrames
  PROVE  f.id \in Streams /\ f.payload \in Nat
BY DEF RouterFrames, FrameSet

LEMMA InboxHead ==
  ASSUME LinkTypeOK, inbox # <<>>
  PROVE  /\ Head(inbox) \in RouterFrames
         /\ Head(inbox).id \in Streams
         /\ Head(inbox).payload \in Nat
         /\ Tail(inbox) \in Seq(RouterFrames)
BY RouterFrameFields DEF LinkTypeOK

LEMMA TodoHead ==
  ASSUME AppTypeOK, NEW s \in Streams, todo[s] # <<>>
  PROVE  /\ Head(todo[s]) \in Frames
         /\ Head(todo[s]).payload \in 0..1
         /\ Tail(todo[s]) \in Seq(Frames)
<1>1. todo[s] \in Seq(Frames)
  BY DEF AppTypeOK
<1>2. Head(todo[s]) \in Frames /\ Tail(todo[s]) \in Seq(Frames)
  BY <1>1
<1> QED
  BY <1>2, FrameFields

-----------------------------------------------------------------------------
(* A step of the session is, for the queue, a step of WriteQueue or none.  *)

LEMMA SendFrameStep ==
  ASSUME NEW c \in Clients, NEW f \in Frames, Q!SendFrame(c, f)
  PROVE  [Q!Next]_queueVars
BY DEF Q!Next, Q!Room

LEMMA ResumeStep ==
  ASSUME NEW c \in Clients, Q!Resume(c)
  PROVE  [Q!Next]_queueVars
BY DEF Q!Next

LEMMA AbandonStep ==
  ASSUME NEW C \in SUBSET Clients, Q!Abandon(C)
  PROVE  [Q!Next]_queueVars
BY DEF Q!Next

LEMMA CloseStep ==
  ASSUME NEW C \in SUBSET Clients, Q!Close(C)
  PROVE  [Q!Next]_queueVars
BY DEF Q!Next, Q!Room

LEMMA EndSessionStep ==
  ASSUME ReaderTypeOK, NEW how, EndSession(how)
  PROVE  [Q!Next]_queueVars
<1>1. streams \cup {Reader} \in SUBSET Clients
  BY DEF ReaderTypeOK, Clients
<1> QED
  BY <1>1, CloseStep DEF EndSession

LEMMA ReaderQueueStep ==
  ASSUME TypeOK, ReaderStep \/ Cancel
  PROVE  [Q!Next]_queueVars
<1> USE DEF TypeOK
<1>r. Reader \in Clients
  BY DEF Clients
<1>1. CASE ReadHeader
  <2>1. WindowUpdate(Head(inbox).id, 1) \in Frames
    BY <1>1, InboxHead, WindowUpdateType DEF ReadHeader, Read, NextIs
  <2> QED
    BY <1>1, <1>r, <2>1, SendFrameStep DEF ReadHeader
<1>2. CASE ReadData \/ ReadWindowUpdate
  BY <1>2 DEF ReadData, ReadWindowUpdate
<1>3. CASE ReadReset
  <2>1. streams \cap {Head(inbox).id} \in SUBSET Clients
    BY DEF ReaderTypeOK, Clients
  <2> QED
    BY <1>3, <2>1, AbandonStep DEF ReadReset
<1>4. CASE ReadBad \/ ReadEnd \/ AckFails
  BY <1>4, EndSessionStep DEF ReadBad, ReadEnd, AckFails
<1>5. CASE AckSent
  BY <1>5, <1>r, ResumeStep DEF AckSent
<1>6. CASE Join
  BY <1>6 DEF Join
<1>7. CASE Cancel
  BY <1>7, EndSessionStep DEF Cancel, Q!Next
<1> QED
  BY <1>1, <1>2, <1>3, <1>4, <1>5, <1>6, <1>7 DEF ReaderStep

(* What the app sends in one message, and what the adapter sends for it.   *)

LEMMA HeadFrames ==
  ASSUME NEW s \in Streams, NEW n \in 1..MaxHead
  PROVE  LET frames == [i \in 1..n |-> Frame("HEADER", IF i = n THEN {"HEADER_END"} ELSE {}, s, 1)]
         IN frames \in Seq(Frames) /\ frames # <<>> /\ Head(frames) \in Frames
<1> DEFINE frames == [i \in 1..n |-> Frame("HEADER", IF i = n THEN {"HEADER_END"} ELSE {}, s, 1)]
<1>1. \A i \in 1..n : Frame("HEADER", IF i = n THEN {"HEADER_END"} ELSE {}, s, 1) \in Frames
  BY FrameType DEF MessageType
<1>2. n \in Nat \ {0}
  BY SessionAssumption
<1> HIDE DEF frames
<1>3. frames \in Seq(Frames) /\ Len(frames) = n
  BY <1>1, <1>2 DEF frames
<1> QED
  BY <1>2, <1>3 DEF frames

LEMMA BodyFrames ==
  ASSUME NEW s \in Streams, NEW n \in 0..MaxChunks, NEW more \in BOOLEAN
  PROVE  LET count == IF n = 0 THEN 1 ELSE n
             frames == [i \in 1..count |->
                          Frame("DATA", IF i = count /\ ~ more THEN {"STREAM_END"} ELSE {}, s,
                                IF n = 0 THEN 0 ELSE 1)]
         IN frames \in Seq(Frames) /\ frames # <<>> /\ Head(frames) \in Frames
<1> DEFINE count == IF n = 0 THEN 1 ELSE n
           frames == [i \in 1..count |->
                        Frame("DATA", IF i = count /\ ~ more THEN {"STREAM_END"} ELSE {}, s,
                              IF n = 0 THEN 0 ELSE 1)]
<1>1. \A i \in 1..count :
        Frame("DATA", IF i = count /\ ~ more THEN {"STREAM_END"} ELSE {}, s, IF n = 0 THEN 0 ELSE 1)
          \in Frames
  BY FrameType DEF MessageType
<1>2. count \in Nat \ {0}
  BY SessionAssumption
<1> HIDE DEF count
<1> HIDE DEF frames
<1>3. frames \in Seq(Frames) /\ Len(frames) = count
  BY <1>1, <1>2 DEF frames
<1>4. frames # <<>> /\ Head(frames) = frames[1] /\ frames[1] \in Frames
  BY <1>1, <1>2, <1>3 DEF frames
<1> QED
  BY <1>3, <1>4 DEF frames, count

LEMMA AutoFrames ==
  ASSUME NEW s \in Streams, NEW size \in 0..1
  PROVE  LET frames == <<Frame("HEADER", {"HEADER_END"}, s, 1), Frame("DATA", {"STREAM_END"}, s, size)>>
         IN frames \in Seq(Frames) /\ frames # <<>> /\ Head(frames) \in Frames
<1>1. /\ Frame("HEADER", {"HEADER_END"}, s, 1) \in Frames
      /\ Frame("DATA", {"STREAM_END"}, s, size) \in Frames
  BY FrameType DEF MessageType
<1> QED
  BY <1>1

LEMMA AfterFrameStep ==
  ASSUME AppTypeOK, NEW s \in Streams, todo[s] # <<>>, NEW pending, AfterFrame(s, pending)
  PROVE  [Q!Next]_queueVars
<1>1. s \in Clients
  BY DEF Clients
<1>2. CASE Tail(todo[s]) # <<>>
  <2>1. Head(Tail(todo[s])) \in Frames
    BY <1>2, TodoHead
  <2> QED
    BY <1>1, <1>2, <2>1, SendFrameStep DEF AfterFrame
<1>3. CASE Tail(todo[s]) = <<>>
  BY <1>1, <1>3, ResumeStep DEF AfterFrame
<1> QED
  BY <1>2, <1>3

LEMMA RaiseStep ==
  ASSUME NEW s \in Streams, Raise(s)
  PROVE  [Q!Next]_queueVars
<1>1. s \in Clients
  BY DEF Clients
<1>2. Frame("RST_STREAM", {}, s, 0) \in Frames
  BY FrameType DEF MessageType
<1> QED
  BY <1>1, <1>2, SendFrameStep, ResumeStep DEF Raise

LEMMA AppQueueStep ==
  ASSUME TypeOK, NEW s \in Streams, AppStep(s) \/ TaskStep(s) \/ CallTimeout(s)
  PROVE  [Q!Next]_queueVars
<1> USE DEF TypeOK
<1>s. s \in Clients /\ {s} \in SUBSET Clients
  BY DEF Clients
<1>1. CASE AppStart(s)
  <2>1. PICK n \in 1..MaxHead : StartSending(s, [i \in 1..n |->
          Frame("HEADER", IF i = n THEN {"HEADER_END"} ELSE {}, s, 1)])
    BY <1>1 DEF AppStart
  <2> QED
    BY <1>s, <2>1, HeadFrames, SendFrameStep DEF StartSending
<1>2. CASE AppBody(s)
  <2> DEFINE frames(n, more) ==
        LET count == IF n = 0 THEN 1 ELSE n IN
        [i \in 1..count |-> Frame("DATA", IF i = count /\ ~ more THEN {"STREAM_END"} ELSE {}, s,
                                  IF n = 0 THEN 0 ELSE 1)]
  <2>1. PICK n \in 0..MaxChunks, more \in BOOLEAN : StartSending(s, frames(n, more))
    BY <1>2 DEF AppBody
  <2>2. Head(frames(n, more)) \in Frames
    BY BodyFrames
  <2> HIDE DEF frames
  <2> QED
    BY <1>s, <2>1, <2>2, SendFrameStep DEF StartSending
<1>3. ASSUME NEW size \in 0..1, AutoResponse(s, size) PROVE [Q!Next]_queueVars
  BY <1>s, <1>3, AutoFrames, SendFrameStep DEF AutoResponse, StartSending
<1>4. CASE AppReceive(s) \/ TaskCancelled(s)
  BY <1>4 DEF AppReceive, TaskCancelled
<1>5. CASE AppReturn(s)
  BY <1>3, <1>5 DEF AppReturn
<1>6. CASE AppRaise(s)
  BY <1>6, RaiseStep DEF AppRaise
<1>7. CASE TaskStart(s)
  BY <1>3, <1>7 DEF TaskStart
<1>8. CASE FrameSent(s)
  <2>1. todo[s] # <<>>
    BY <1>8 DEF FrameSent, AppTypeOK
  <2> QED
    BY <1>8, <1>s, <2>1, AfterFrameStep, ResumeStep DEF FrameSent
<1>9. CASE FrameFails(s)
  BY <1>9, <1>s, RaiseStep, ResumeStep DEF FrameFails
<1>10. CASE Woken(s)
  <2>1. todo[s] # <<>>
    BY <1>10 DEF Woken, AppTypeOK
  <2> QED
    BY <1>10, <2>1, AfterFrameStep DEF Woken
<1>11. CASE ResetSent(s)
  BY <1>11, <1>s, ResumeStep DEF ResetSent
<1>12. CASE Receive(s)
  BY <1>12, <1>s, WindowUpdateType, SendFrameStep DEF Receive
<1>13. CASE ReceiveAcked(s)
  BY <1>13, <1>s, ResumeStep DEF ReceiveAcked
<1>14. CASE CallTimeout(s)
  BY <1>14, <1>s, AbandonStep DEF CallTimeout
<1>15. CASE AppBadStart(s)
  BY <1>15, RaiseStep DEF AppBadStart
<1> QED
  BY <1>1, <1>2, <1>4, <1>5, <1>6, <1>7, <1>8, <1>9, <1>10, <1>11, <1>12, <1>13, <1>14, <1>15
     DEF AppStep, TaskStep

LEMMA QueueStep ==
  ASSUME TypeOK, [Next]_vars
  PROVE  [Q!Next]_queueVars
<1>1. CASE LinkEnd \/ \E s \in Streams : RouterStep(s)
  BY <1>1 DEF LinkEnd, RouterStep, RouterHeader, RouterData, RouterReset, RouterAck, RouterBad
<1>2. CASE Cancel \/ ReaderStep
  BY <1>2, ReaderQueueStep
<1>3. CASE Get \/ Sent \/ SendFails
  BY <1>3 DEF Get, Sent, SendFails, Q!Next
<1>4. CASE \E s \in Streams : AppStep(s) \/ TaskStep(s) \/ CallTimeout(s)
  BY <1>4, AppQueueStep
<1>5. CASE UNCHANGED vars
  BY <1>5 DEF vars
<1> QED
  BY <1>1, <1>2, <1>3, <1>4, <1>5 DEF Next

-----------------------------------------------------------------------------
(* The queue of a session is a WriteQueue, so what WriteQueueProofs says   *)
(* of its steps can be used here.                                          *)

LEMMA QueueAssumption == QP!WriteQueueAssumption
BY SessionAssumption DEF QP!WriteQueueAssumption, Q!Item, QP!Item

LEMMA SameQueueType == Q!TypeOK <=> QP!TypeOK
BY DEF Q!TypeOK, QP!TypeOK, Q!Item, QP!Item, Q!WriterState, QP!WriterState

LEMMA SameQueueStep == [Q!Next]_queueVars <=> [QP!Next]_(QP!queueVars)
BY DEF Q!Next, QP!Next, queueVars, QP!queueVars, Q!Room, QP!Room, Q!SendFrame, QP!SendFrame,
       Q!Resume, QP!Resume, Q!Abandon, QP!Abandon, Q!Close, QP!Close, Q!WriterGet, QP!WriterGet,
       Q!WriterSent, QP!WriterSent, Q!WriterFail, QP!WriterFail, Q!WriterCancelled,
       QP!WriterCancelled, Q!Resolve, QP!Resolve, Q!Disown, QP!Disown, Q!Item, QP!Item

LEMMA QueueTypeStep ==
  ASSUME TypeOK, [Next]_vars
  PROVE  Q!TypeOK'
<1>1. QP!TypeOK /\ [QP!Next]_(QP!queueVars)
  BY QueueStep, SameQueueType, SameQueueStep DEF TypeOK
<1>2. QP!TypeOK'
  BY <1>1, QueueAssumption, QP!TypeStep
<1>3. Q!TypeOK' <=> QP!TypeOK'
  BY DEF Q!TypeOK, QP!TypeOK, Q!Item, QP!Item, Q!WriterState, QP!WriterState
<1> QED
  BY <1>2, <1>3

-----------------------------------------------------------------------------
(* Types, one part after the other. *)

LEMMA TypeInit == Init => TypeOK
<1> SUFFICES ASSUME Init PROVE TypeOK
  OBVIOUS
<1>1. LinkTypeOK
  BY DEF Init, LinkTypeOK
<1>2. ReaderTypeOK
  BY DEF Init, ReaderTypeOK
<1>3. AppTypeOK
  BY DEF Init, AppTypeOK, StreamState, TaskState
<1>4. Q!TypeOK
  BY DEF Init, Q!Init, Q!TypeOK, Q!WriterState
<1> QED
  BY <1>1, <1>2, <1>3, <1>4 DEF TypeOK

LEMMA ReaderTypeStep ==
  ASSUME TypeOK, [Next]_vars
  PROVE  ReaderTypeOK'
<1> USE DEF TypeOK, ReaderTypeOK
<1>1. ASSUME NEW how \in {"ok", "error", "cancelled"}, EndSession(how), cancels' \in Nat
      PROVE  ReaderTypeOK'
  BY <1>1 DEF EndSession
<1>2. CASE ReadHeader
  BY <1>2, InboxHead DEF ReadHeader, Read, NextIs
<1>3. CASE ReadData \/ ReadWindowUpdate \/ ReadReset \/ AckSent \/ Join
  BY <1>3 DEF ReadData, ReadWindowUpdate, ReadReset, AckSent, Join, Read, linkVars
<1>4. CASE ReadBad \/ ReadEnd \/ AckFails
  BY <1>1, <1>4 DEF ReadBad, ReadEnd, AckFails
<1>5. CASE Cancel
  BY <1>1, <1>5 DEF Cancel
<1>6. CASE UNCHANGED sessionVars
  BY <1>6 DEF sessionVars
<1>7. CASE LinkEnd \/ Get \/ Sent \/ SendFails
  BY <1>6, <1>7 DEF LinkEnd, Get, Sent, SendFails
<1>8. ASSUME NEW s \in Streams, RouterStep(s) PROVE ReaderTypeOK'
  BY <1>6, <1>8 DEF RouterStep, RouterHeader, RouterData, RouterReset, RouterAck, RouterBad
<1>9. ASSUME NEW s \in Streams, AppStep(s) \/ TaskStep(s) \/ CallTimeout(s) PROVE ReaderTypeOK'
  <2>1. CASE FrameSent(s) \/ Woken(s)
    BY <2>1 DEF FrameSent, Woken, AfterFrame
  <2>2. CASE FrameFails(s) \/ AppRaise(s) \/ AppBadStart(s)
    BY <2>2 DEF FrameFails, AppRaise, AppBadStart, Raise
  <2> QED
    BY <1>6, <1>9, <2>1, <2>2 DEF AppStep, TaskStep, AppStart, AppBody, AppReceive, AppReturn, TaskStart,
         ResetSent, Receive, ReceiveAcked, TaskCancelled, CallTimeout
<1>10. CASE UNCHANGED vars
  BY <1>6, <1>10 DEF vars
<1> QED
  BY <1>2, <1>3, <1>4, <1>5, <1>7, <1>8, <1>9, <1>10 DEF Next, ReaderStep

(* What the router sends. *)
LEMMA ArriveType ==
  ASSUME LinkTypeOK, NEW f \in RouterFrames, Arrive(f)
  PROVE  inbox' \in Seq(RouterFrames)
BY DEF LinkTypeOK, Arrive

LEMMA RouterFrameType ==
  ASSUME NEW type \in MessageType \cup {"BAD"}, NEW flags \in SUBSET {"STREAM_END", "HEADER_END"},
         NEW s \in Streams, NEW n \in Nat
  PROVE  Frame(type, flags, s, n) \in RouterFrames
BY DEF Frame, RouterFrames, FrameSet

(* RouterAck never takes the credit below 0. *)
LEMMA UncountedType ==
  ASSUME AppTypeOK, NEW s \in Streams
  PROVE  Uncounted(s) \in Nat
<1>1. CASE pc[s] = "send"
  <2>1. todo[s] # <<>>
    BY <1>1 DEF AppTypeOK
  <2>2. Head(todo[s]).payload \in Nat
    BY <2>1, TodoHead
  <2> QED
    BY <2>2 DEF Uncounted
<1>2. CASE pc[s] # "send"
  BY <1>2 DEF Uncounted
<1> QED
  BY <1>1, <1>2

LEMMA LinkTypeStep ==
  ASSUME TypeOK, [Next]_vars
  PROVE  LinkTypeOK'
<1> USE DEF TypeOK
<1>u. UNCHANGED linkVars => LinkTypeOK'
  BY DEF LinkTypeOK, linkVars
<1>e. inbox' \in Seq(RouterFrames) /\ UNCHANGED endVars => LinkTypeOK'
  BY DEF LinkTypeOK, endVars
<1>1. ASSUME NEW s \in Streams, RouterHeader(s) PROVE LinkTypeOK'
  <2>1. PICK flags \in SUBSET {"STREAM_END", "HEADER_END"} :
          /\ Arrive(Frame("HEADER", flags, s, 1))
          /\ \E r \in {"head", "body", "ended"} : request' = [request EXCEPT ![s] = r]
          /\ owed' = [owed EXCEPT ![s] = @ + 1]
          /\ UNCHANGED <<link, reqs, credit, out>>
    BY <1>1 DEF RouterHeader
  <2>2. inbox' \in Seq(RouterFrames)
    BY <2>1, ArriveType, RouterFrameType DEF MessageType
  <2> QED
    BY <2>1, <2>2 DEF LinkTypeOK
<1>2. ASSUME NEW s \in Streams, RouterData(s) PROVE LinkTypeOK'
  <2>1. PICK chunk \in {0, reqs[s] + 1}, flags \in SUBSET {"STREAM_END"} :
          /\ Arrive(Frame("DATA", flags, s, chunk))
          /\ reqs' = [reqs EXCEPT ![s] = IF chunk = 0 THEN @ ELSE chunk]
          /\ owed' = [owed EXCEPT ![s] = IF chunk = 0 THEN @ ELSE @ + 1]
          /\ request' = [request EXCEPT ![s] = IF flags = {} THEN "body" ELSE "ended"]
          /\ UNCHANGED <<link, credit, out>>
    BY <1>2 DEF RouterData
  <2>2. chunk \in Nat
    BY DEF LinkTypeOK
  <2>3. inbox' \in Seq(RouterFrames)
    BY <2>1, <2>2, ArriveType, RouterFrameType DEF MessageType
  <2> QED
    BY <2>1, <2>2, <2>3 DEF LinkTypeOK
<1>3. ASSUME NEW s \in Streams, RouterReset(s) PROVE LinkTypeOK'
  BY <1>3, ArriveType, RouterFrameType DEF RouterReset, MessageType, LinkTypeOK
<1>4. ASSUME NEW s \in Streams, RouterAck(s) PROVE LinkTypeOK'
  <2>1. PICK n \in 1..(credit[s] - Uncounted(s)) :
          /\ Arrive(WindowUpdate(s, n))
          /\ credit' = [credit EXCEPT ![s] = @ - n]
          /\ UNCHANGED <<link, request, reqs, owed, out>>
    BY <1>4 DEF RouterAck
  <2>2. credit[s] \in Nat /\ Uncounted(s) \in Nat
    BY UncountedType DEF LinkTypeOK
  <2>3. n \in Nat /\ credit[s] - n \in Nat
    BY <2>2
  <2>4. inbox' \in Seq(RouterFrames)
    BY <2>1, <2>3, ArriveType, RouterFrameType DEF MessageType, WindowUpdate
  <2> QED
    BY <2>1, <2>3, <2>4 DEF LinkTypeOK
<1>5. ASSUME NEW s \in Streams, RouterBad(s) PROVE LinkTypeOK'
  BY <1>5, ArriveType, RouterFrameType DEF RouterBad, LinkTypeOK
<1>6. CASE LinkEnd
  BY <1>6, SessionAssumption DEF LinkEnd, LinkTypeOK
<1>7. CASE Sent
  <2>1. writing \in Q!Item
    BY <1>7 DEF Sent, Q!WriterSent, Q!TypeOK
  <2>2. writing.frame \in Frames
    BY <2>1 DEF Q!Item
  <2>3. writing.frame.type # "WINDOW_UPDATE"
          => Kind(writing.frame) \in {"HEADER", "HEADER_END", "DATA", "DATA_END", "RST_STREAM"}
    BY <2>2, FrameFields DEF Kind, MessageType
  <2>4. writing.frame.id \in Streams /\ writing.frame.payload \in 0..1
    BY <2>2, FrameFields
  <2>5. CASE writing.frame.type = "WINDOW_UPDATE"
    <3>1. /\ owed' = [owed EXCEPT ![writing.frame.id] = @ - writing.frame.payload]
          /\ UNCHANGED <<link, inbox, request, reqs, credit, out>>
      BY <1>7, <2>5 DEF Sent
    <3>2. owed' \in [Streams -> Int]
      BY <2>4, <3>1 DEF LinkTypeOK
    <3> QED
      BY <3>1, <3>2 DEF LinkTypeOK
  <2>6. CASE writing.frame.type # "WINDOW_UPDATE"
    <3>1. /\ out' = [out EXCEPT ![writing.frame.id] = Kind(writing.frame)]
          /\ credit' = [credit EXCEPT ![writing.frame.id] = @ + writing.frame.payload]
          /\ UNCHANGED <<link, inbox, request, reqs, owed>>
      BY <1>7, <2>6 DEF Sent
    <3>2. credit' \in [Streams -> Nat]
      BY <2>4, <3>1 DEF LinkTypeOK
    <3>3. out' \in [Streams -> {"none", "HEADER", "HEADER_END", "DATA", "DATA_END", "RST_STREAM"}]
      BY <2>3, <2>4, <2>6, <3>1 DEF LinkTypeOK
    <3> QED
      BY <3>1, <3>2, <3>3 DEF LinkTypeOK
  <2> QED
    BY <2>5, <2>6
<1>8. CASE ReadHeader \/ ReadData \/ ReadWindowUpdate \/ ReadReset
  <2>1. UNCHANGED endVars /\ inbox' = Tail(inbox) /\ inbox # <<>>
    BY <1>8 DEF ReadHeader, ReadData, ReadWindowUpdate, ReadReset, Read, NextIs, endVars
  <2> QED
    BY <1>e, <2>1, InboxHead
<1>9. CASE ReadBad \/ ReadEnd \/ AckFails \/ Cancel
  <2>1. UNCHANGED endVars
    BY <1>9 DEF ReadBad, ReadEnd, AckFails, Cancel
  <2>2. inbox' = <<>> \/ inbox' = inbox
    BY <1>9 DEF ReadBad, ReadEnd, AckFails, Cancel, EndSession
  <2>3. <<>> \in Seq(RouterFrames)
    OBVIOUS
  <2> QED
    BY <1>e, <2>1, <2>2, <2>3 DEF LinkTypeOK
<1>10. CASE AckSent \/ Join \/ Get \/ SendFails \/ UNCHANGED vars
  BY <1>u, <1>10 DEF AckSent, Join, Get, SendFails, vars
<1>11. ASSUME NEW s \in Streams, AppStep(s) \/ TaskStep(s) \/ CallTimeout(s) PROVE LinkTypeOK'
  BY <1>u, <1>11 DEF AppStep, TaskStep, AppStart, AppBody, AppReceive, AppReturn, AppRaise, AppBadStart, TaskStart,
       FrameSent, FrameFails, Woken, ResetSent, Receive, ReceiveAcked, TaskCancelled, CallTimeout
<1> QED
  BY <1>1, <1>2, <1>3, <1>4, <1>5, <1>6, <1>7, <1>8, <1>9, <1>10, <1>11
     DEF Next, ReaderStep, RouterStep

(* A task that goes from one await to the next, with what it still has to  *)
(* send.                                                                   *)
TasksTypeOK ==
  /\ pc \in [Streams -> TaskState]
  /\ todo \in [Streams -> Seq(Frames)]
  /\ \A s \in Streams : pc[s] \in {"send", "window", "woken"} => todo[s] # <<>>

DataTypeOK ==
  /\ state \in [Streams -> StreamState]
  /\ auto \in [Streams -> BOOLEAN]
  /\ msgs \in [Streams -> Nat]
  /\ item \in [Streams -> Nat]
  /\ handed \in [Streams -> Seq(RequestItem)]
  /\ active \in Nat

LEMMA AppTypeParts == (AppTypeOK <=> TasksTypeOK /\ DataTypeOK) /\ (AppTypeOK' <=> TasksTypeOK' /\ DataTypeOK')
BY DEF AppTypeOK, TasksTypeOK, DataTypeOK

LEMMA TaskMoves ==
  ASSUME TasksTypeOK, NEW s \in Streams, NEW p \in TaskState, NEW frames \in Seq(Frames),
         pc' = [pc EXCEPT ![s] = p], todo' = [todo EXCEPT ![s] = frames],
         p \in {"send", "window", "woken"} => frames # <<>>
  PROVE  TasksTypeOK'
BY DEF TasksTypeOK

(* The same when it has nothing new to send. *)
LEMMA TaskMovesOn ==
  ASSUME TasksTypeOK, NEW s \in Streams, NEW p \in TaskState,
         pc' = [pc EXCEPT ![s] = p], todo' = todo,
         p \in {"send", "window", "woken"} => todo[s] # <<>>
  PROVE  TasksTypeOK'
BY DEF TasksTypeOK

LEMMA StartSendingType ==
  ASSUME TasksTypeOK, NEW s \in Streams, NEW frames \in Seq(Frames), frames # <<>>,
         StartSending(s, frames)
  PROVE  TasksTypeOK'
BY TaskMoves DEF StartSending, TaskState

LEMMA AutoResponseType ==
  ASSUME TasksTypeOK, DataTypeOK, NEW s \in Streams, NEW size \in 0..1, AutoResponse(s, size)
  PROVE  /\ TasksTypeOK'
         /\ state' \in [Streams -> StreamState]
         /\ auto' \in [Streams -> BOOLEAN]
<1>1. TasksTypeOK'
  BY AutoFrames, StartSendingType DEF AutoResponse
<1> QED
  BY <1>1 DEF AutoResponse, DataTypeOK, StreamState

LEMMA FinishType ==
  ASSUME TasksTypeOK, DataTypeOK, NEW s \in Streams, Finish(s)
  PROVE  /\ active' \in Nat
         /\ todo' = todo => TasksTypeOK'
         /\ todo' = [todo EXCEPT ![s] = <<>>] => TasksTypeOK'
<1>1. active' \in Nat
  BY DEF Finish, DataTypeOK
<1>2. "done" \in TaskState /\ <<>> \in Seq(Frames)
  BY DEF TaskState
<1> QED
  BY <1>1, <1>2, TaskMoves, TaskMovesOn DEF Finish

LEMMA CloseFromRouterType ==
  ASSUME TasksTypeOK, DataTypeOK, NEW S \in SUBSET Streams, CloseFromRouter(S)
  PROVE  TasksTypeOK' /\ DataTypeOK'
<1>1. state' \in [Streams -> StreamState]
  <2> SUFFICES ASSUME NEW s \in S
               PROVE  [state[s] EXCEPT !.disconnected = TRUE, !.queue = Append(@, RequestDisconnect)] \in StreamState
    BY DEF CloseFromRouter, DataTypeOK
  <2>1. state[s] \in StreamState /\ RequestDisconnect \in RequestItem
    BY DEF DataTypeOK, RequestItem
  <2>2. state[s].queue \in Seq(RequestItem) /\ Append(state[s].queue, RequestDisconnect) \in Seq(RequestItem)
    BY <2>1 DEF StreamState
  <2> QED
    BY <2>1, <2>2 DEF StreamState
<1>2. item' \in [Streams -> Nat]
  BY DEF CloseFromRouter, DataTypeOK
<1>3. TasksTypeOK'
  <2>1. "cancelled" \in TaskState /\ <<>> \in Seq(Frames)
    BY DEF TaskState
  <2> QED
    BY <2>1 DEF CloseFromRouter, TasksTypeOK
<1> QED
  BY <1>1, <1>2, <1>3 DEF CloseFromRouter, DataTypeOK

LEMMA AfterFrameType ==
  ASSUME TasksTypeOK, DataTypeOK, NEW s \in Streams, NEW pending \in Nat, todo[s] # <<>>,
         AfterFrame(s, pending)
  PROVE  TasksTypeOK' /\ state' \in [Streams -> StreamState] /\ active' \in Nat
<1>1. state' \in [Streams -> StreamState]
  <2>1. PICK last \in BOOLEAN : state' = [state EXCEPT ![s].pending = pending, ![s].complete = last]
    <3> DEFINE last == state[s].complete \/ (Head(todo[s]).type = "DATA" /\ "STREAM_END" \in Head(todo[s]).flags)
    <3>1. last \in BOOLEAN
      OBVIOUS
    <3>2. state' = [state EXCEPT ![s].pending = pending, ![s].complete = last]
      BY DEF AfterFrame
    <3> QED
      BY <3>1, <3>2
  <2> QED
    BY <2>1 DEF DataTypeOK, StreamState
<1>2. Tail(todo[s]) \in Seq(Frames)
  BY DEF TasksTypeOK
<1>3. active' \in Nat
  BY DEF AfterFrame, Finish, DataTypeOK
<1>4. TasksTypeOK'
  <2>1. todo' = [todo EXCEPT ![s] = Tail(todo[s])]
    BY DEF AfterFrame
  <2>2. {"send", "running", "done"} \subseteq TaskState
    BY DEF TaskState
  <2>3. CASE Tail(todo[s]) # <<>>
    BY <1>2, <2>1, <2>2, <2>3, TaskMoves DEF AfterFrame
  <2>4. CASE Tail(todo[s]) = <<>>
    BY <1>2, <2>1, <2>2, <2>4, TaskMoves DEF AfterFrame, Finish
  <2> QED
    BY <2>3, <2>4
<1> QED
  BY <1>1, <1>3, <1>4

LEMMA RaiseType ==
  ASSUME TasksTypeOK, DataTypeOK, NEW s \in Streams, Raise(s)
  PROVE  TasksTypeOK' /\ active' \in Nat
<1>1. "rst" \in TaskState /\ <<>> \in Seq(Frames)
  BY DEF TaskState
<1>2. CASE StillOpen(s)
  BY <1>1, <1>2, TaskMoves DEF Raise, DataTypeOK
<1>3. CASE ~ StillOpen(s)
  BY <1>3, FinishType DEF Raise
<1> QED
  BY <1>2, <1>3

(* A request queue that grows. *)
LEMMA QueueType ==
  ASSUME NEW q \in Seq(RequestItem)
  PROVE  /\ \A x \in RequestItem : Append(q, x) \in Seq(RequestItem)
         /\ \A r \in Seq(RequestItem) : q \o r \in Seq(RequestItem)
OBVIOUS

LEMMA ReaderAppTypeStep ==
  ASSUME TypeOK, ReaderStep \/ Cancel
  PROVE  TasksTypeOK' /\ DataTypeOK'
<1> USE AppTypeParts DEF TypeOK
<1>p. TasksTypeOK /\ DataTypeOK
  OBVIOUS
<1>u. UNCHANGED appVars => TasksTypeOK' /\ DataTypeOK'
  BY <1>p DEF appVars, TasksTypeOK, DataTypeOK
<1>e. ASSUME NEW how, EndSession(how) PROVE TasksTypeOK' /\ DataTypeOK'
  BY <1>p, <1>e, CloseFromRouterType DEF EndSession, ReaderTypeOK
<1>q. \A s \in Streams : state[s].queue \in Seq(RequestItem)
  BY <1>p DEF DataTypeOK, StreamState
<1>1. CASE ReadHeader
  <2> DEFINE f == Head(inbox)
  <2>1. f.id \in Streams
    BY <1>1, InboxHead DEF ReadHeader, Read, NextIs
  <2>2. TasksTypeOK'
    <3>1. PICK p \in {"created", pc[f.id]} : pc' = [pc EXCEPT ![f.id] = p] /\ todo' = todo
      BY <1>1 DEF ReadHeader
    <3>2. p \in TaskState /\ (p \in {"send", "window", "woken"} => todo[f.id] # <<>>)
      BY <1>p, <2>1 DEF TasksTypeOK, TaskState
    <3> QED
      BY <1>p, <2>1, <3>1, <3>2, TaskMovesOn
  <2>3. state' \in [Streams -> StreamState]
    <3>1. PICK q \in {state[f.id].queue, Append(state[f.id].queue, RequestEnd)} :
            state' = [state EXCEPT ![f.id].queue = q]
      BY <1>1 DEF ReadHeader
    <3>2. q \in Seq(RequestItem)
      <4>1. RequestEnd \in RequestItem
        BY DEF RequestEnd, RequestItem
      <4>2. state[f.id].queue \in Seq(RequestItem)
        BY <1>q, <2>1
      <4> QED
        BY <3>1, <4>1, <4>2, QueueType
    <3> QED
      BY <1>p, <2>1, <3>1, <3>2 DEF DataTypeOK, StreamState
  <2> QED
    BY <1>1, <1>p, <2>2, <2>3 DEF ReadHeader, DataTypeOK
<1>2. CASE ReadData
  <2> DEFINE f == Head(inbox)
  <2>1. f.id \in Streams /\ f.payload \in Nat
    BY <1>2, InboxHead DEF ReadData, Read, NextIs
  <2>2. Arrivals(f) \in Seq(RequestItem)
    <3>1. f.payload \in RequestItem /\ RequestEnd \in RequestItem
      BY <2>1 DEF RequestEnd, RequestItem
    <3>2. {<<>>, <<f.payload>>, <<RequestEnd>>} \subseteq Seq(RequestItem)
      BY <3>1
    <3> QED
      BY <3>2, QueueType DEF Arrivals
  <2>3. PICK q \in {state[f.id].queue, state[f.id].queue \o Arrivals(f)} :
          state' = [state EXCEPT ![f.id].queue = q]
    BY <1>2 DEF ReadData
  <2>4. q \in Seq(RequestItem)
    <3>1. state[f.id].queue \in Seq(RequestItem)
      BY <1>q, <2>1
    <3> QED
      BY <2>2, <2>3, <3>1, QueueType
  <2>5. state' \in [Streams -> StreamState]
    BY <1>p, <2>1, <2>3, <2>4 DEF DataTypeOK, StreamState
  <2> QED
    BY <1>2, <1>p, <2>5 DEF ReadData, DataTypeOK, TasksTypeOK
<1>3. CASE ReadWindowUpdate
  <2> DEFINE s == Head(inbox).id
             left == AfterAck(state[s].pending, Head(inbox).payload)
  <2>1. s \in Streams /\ Head(inbox).payload \in Nat
    BY <1>3, InboxHead DEF ReadWindowUpdate, Read, NextIs
  <2>2. CASE s \notin streams
    BY <1>3, <1>p, <2>2 DEF ReadWindowUpdate, DataTypeOK, TasksTypeOK
  <2>3. CASE s \in streams
    <3>1. left \in Nat
      BY <1>p, <2>1 DEF AfterAck, DataTypeOK, StreamState
    <3> HIDE DEF left
    <3>2. state' = [state EXCEPT ![s].pending = left]
      BY <1>3, <2>3 DEF ReadWindowUpdate, left
    <3>3. state' \in [Streams -> StreamState]
      BY <1>p, <2>1, <3>1, <3>2 DEF DataTypeOK, StreamState
    <3>4. PICK p \in {"woken", pc[s]} :
            pc' = [pc EXCEPT ![s] = p] /\ todo' = todo /\ (p = "woken" => pc[s] \in {"window", "woken"})
      BY <1>3, <2>3 DEF ReadWindowUpdate, left
    <3>5. p \in TaskState /\ (p \in {"send", "window", "woken"} => todo[s] # <<>>)
      BY <1>p, <2>1, <3>4 DEF TasksTypeOK, TaskState
    <3>6. TasksTypeOK'
      BY <1>p, <2>1, <3>4, <3>5, TaskMovesOn
    <3> QED
      BY <1>3, <1>p, <3>3, <3>6 DEF ReadWindowUpdate, DataTypeOK
  <2> QED
    BY <2>2, <2>3
<1>4. CASE ReadReset
  <2>1. streams \cap {Head(inbox).id} \in SUBSET Streams
    BY DEF ReaderTypeOK
  <2> QED
    BY <1>4, <1>p, <2>1, CloseFromRouterType DEF ReadReset
<1>5. CASE ReadBad \/ ReadEnd \/ AckFails
  BY <1>5, <1>e DEF ReadBad, ReadEnd, AckFails
<1>6. CASE AckSent \/ Join
  BY <1>6, <1>u DEF AckSent, Join
<1>7. CASE Cancel
  BY <1>7, <1>e, <1>u DEF Cancel
<1> QED
  BY <1>1, <1>2, <1>3, <1>4, <1>5, <1>6, <1>7 DEF ReaderStep

LEMMA AppAppTypeStep ==
  ASSUME AppTypeOK, NEW s \in Streams, AppStep(s) \/ TaskStep(s) \/ CallTimeout(s)
  PROVE  TasksTypeOK' /\ DataTypeOK'
<1>p. TasksTypeOK /\ DataTypeOK
  BY AppTypeParts
<1>t. \A p \in {"running", "recv", "recvack", "done"} :
        pc' = [pc EXCEPT ![s] = p] /\ todo' = todo => TasksTypeOK'
  <2>1. {"running", "recv", "recvack", "done"} \subseteq TaskState
    BY DEF TaskState
  <2> QED
    BY <1>p, <2>1, TaskMovesOn
<1>1. CASE AppStart(s)
  <2>1. PICK n \in 1..MaxHead : StartSending(s, [i \in 1..n |->
          Frame("HEADER", IF i = n THEN {"HEADER_END"} ELSE {}, s, 1)])
    BY <1>1 DEF AppStart
  <2>2. TasksTypeOK'
    BY <1>p, <2>1, HeadFrames, StartSendingType
  <2> QED
    BY <1>1, <1>p, <2>2 DEF AppStart, DataTypeOK, StreamState
<1>2. CASE AppBody(s)
  <2> DEFINE frames(n, more) ==
        LET count == IF n = 0 THEN 1 ELSE n IN
        [i \in 1..count |-> Frame("DATA", IF i = count /\ ~ more THEN {"STREAM_END"} ELSE {}, s,
                                  IF n = 0 THEN 0 ELSE 1)]
  <2>1. PICK n \in 0..MaxChunks, more \in BOOLEAN : StartSending(s, frames(n, more))
    BY <1>2 DEF AppBody
  <2>2. frames(n, more) \in Seq(Frames) /\ frames(n, more) # <<>>
    BY BodyFrames
  <2> HIDE DEF frames
  <2>3. TasksTypeOK'
    BY <1>p, <2>1, <2>2, StartSendingType
  <2> QED
    BY <1>2, <1>p, <2>3 DEF AppBody, DataTypeOK
<1>3. CASE AppReceive(s)
  BY <1>3, <1>p, <1>t DEF AppReceive, DataTypeOK
<1>4. CASE AppReturn(s)
  <2>1. CASE state[s].started
    BY <1>4, <1>p, <2>1, FinishType DEF AppReturn, DataTypeOK
  <2>2. CASE ~ state[s].started
    BY <1>4, <1>p, <2>2, AutoResponseType DEF AppReturn, DataTypeOK
  <2> QED
    BY <2>1, <2>2
<1>5. CASE AppRaise(s)
  BY <1>5, <1>p, RaiseType DEF AppRaise, DataTypeOK
<1>6. CASE TaskStart(s)
  <2>1. active' \in Nat
    BY <1>6, <1>p DEF TaskStart, DataTypeOK
  <2>2. CASE pc' = [pc EXCEPT ![s] = "running"] /\ UNCHANGED <<state, todo, auto>>
    BY <1>6, <1>p, <1>t, <2>1, <2>2 DEF TaskStart, DataTypeOK
  <2>3. CASE AutoResponse(s, 1)
    BY <1>6, <1>p, <2>1, <2>3, AutoResponseType DEF TaskStart, DataTypeOK
  <2> QED
    BY <1>6, <2>2, <2>3 DEF TaskStart
<1>7. CASE FrameSent(s)
  <2>1. todo[s] # <<>>
    BY <1>7, <1>p DEF FrameSent, TasksTypeOK
  <2> DEFINE pending == state[s].pending + Head(todo[s]).payload
  <2>2. pending \in Nat
    <3>1. state[s].pending \in Nat
      BY <1>p DEF DataTypeOK, StreamState
    <3>2. Head(todo[s]).payload \in 0..1
      BY <2>1, TodoHead
    <3> QED
      BY <3>1, <3>2
  <2> HIDE DEF pending
  <2>3. CASE AfterFrame(s, pending)
    BY <1>7, <1>p, <2>1, <2>2, <2>3, AfterFrameType DEF FrameSent, DataTypeOK
  <2>4. CASE /\ pc' = [pc EXCEPT ![s] = "window"]
             /\ state' = [state EXCEPT ![s].pending = pending]
             /\ UNCHANGED <<todo, active>>
    <3>1. state' \in [Streams -> StreamState]
      BY <1>p, <2>2, <2>4 DEF DataTypeOK, StreamState
    <3>2. TasksTypeOK'
      BY <1>p, <2>1, <2>4, TaskMovesOn DEF TaskState
    <3> QED
      BY <1>7, <1>p, <2>4, <3>1, <3>2 DEF FrameSent, DataTypeOK
  <2> QED
    BY <1>7, <2>3, <2>4 DEF FrameSent, pending
<1>8. CASE FrameFails(s)
  <2>1. CASE Raise(s)
    BY <1>8, <1>p, <2>1, RaiseType DEF FrameFails, DataTypeOK
  <2>2. CASE pc' = [pc EXCEPT ![s] = "running"] /\ todo' = [todo EXCEPT ![s] = <<>>] /\ active' = active
    <3>1. "running" \in TaskState /\ <<>> \in Seq(Frames)
      BY DEF TaskState
    <3>2. TasksTypeOK'
      BY <1>p, <2>2, <3>1, TaskMoves
    <3> QED
      BY <1>8, <1>p, <2>2, <3>2 DEF FrameFails, DataTypeOK
  <2> QED
    BY <1>8, <2>1, <2>2 DEF FrameFails
<1>9. CASE Woken(s)
  <2>1. todo[s] # <<>>
    BY <1>9, <1>p DEF Woken, TasksTypeOK
  <2>2. CASE AfterFrame(s, state[s].pending)
    <3>1. state[s].pending \in Nat
      BY <1>p DEF DataTypeOK, StreamState
    <3> QED
      BY <1>9, <1>p, <2>1, <2>2, <3>1, AfterFrameType DEF Woken, DataTypeOK
  <2>3. CASE pc' = [pc EXCEPT ![s] = "window"] /\ UNCHANGED <<state, todo, active>>
    <3>1. TasksTypeOK'
      BY <1>p, <2>1, <2>3, TaskMovesOn DEF TaskState
    <3> QED
      BY <1>9, <1>p, <2>3, <3>1 DEF Woken, DataTypeOK
  <2> QED
    BY <1>9, <2>2, <2>3 DEF Woken
<1>10. CASE ResetSent(s)
  BY <1>10, <1>p, FinishType DEF ResetSent, DataTypeOK
<1>11. CASE TaskCancelled(s)
  BY <1>11, <1>p, FinishType DEF TaskCancelled, DataTypeOK
<1>12. CASE Receive(s)
  <2> DEFINE next == Head(state[s].queue)
  <2>1. state[s].queue \in Seq(RequestItem) /\ state[s].queue # <<>>
    BY <1>12, <1>p DEF Receive, DataTypeOK, StreamState
  <2>2. next \in RequestItem /\ Tail(state[s].queue) \in Seq(RequestItem)
    BY <2>1
  <2>3. state' \in [Streams -> StreamState]
    <3>1. PICK gone \in BOOLEAN :
            state' = [state EXCEPT ![s].queue = Tail(state[s].queue), ![s].disconnected = gone]
      <4> DEFINE gone == state[s].disconnected \/ next = RequestDisconnect
      <4>1. gone \in BOOLEAN
        OBVIOUS
      <4>2. state' = [state EXCEPT ![s].queue = Tail(state[s].queue), ![s].disconnected = gone]
        BY <1>12 DEF Receive
      <4> QED
        BY <4>1, <4>2
    <3> QED
      BY <1>p, <2>2, <3>1 DEF DataTypeOK, StreamState
  <2>4. CASE next \in {RequestEnd, RequestDisconnect}
    <3>1. handed[s] \in Seq(RequestItem)
      BY <1>p DEF DataTypeOK
    <3>2. handed' = [handed EXCEPT ![s] = Append(handed[s], next)] /\ Append(handed[s], next) \in Seq(RequestItem)
      BY <1>12, <2>2, <2>4, <3>1, QueueType DEF Receive
    <3>3. handed' \in [Streams -> Seq(RequestItem)]
      BY <1>p, <3>2 DEF DataTypeOK
    <3>4. TasksTypeOK'
      BY <1>12, <1>t, <2>4 DEF Receive
    <3> QED
      BY <1>12, <1>p, <2>3, <2>4, <3>3, <3>4 DEF Receive, DataTypeOK
  <2>5. CASE next \notin {RequestEnd, RequestDisconnect}
    <3>1. TasksTypeOK'
      BY <1>12, <1>t, <2>5 DEF Receive
    <3>2. item' \in [Streams -> Nat]
      BY <1>12, <1>p, <2>2, <2>5 DEF Receive, DataTypeOK, RequestItem
    <3> QED
      BY <1>12, <1>p, <2>3, <2>5, <3>1, <3>2 DEF Receive, DataTypeOK
  <2> QED
    BY <2>4, <2>5
<1>13. CASE ReceiveAcked(s)
  <2>1. handed[s] \in Seq(RequestItem) /\ item[s] \in RequestItem
    BY <1>p DEF DataTypeOK, RequestItem
  <2>2. PICK h \in {handed[s], Append(handed[s], item[s])} : handed' = [handed EXCEPT ![s] = h]
    BY <1>13 DEF ReceiveAcked
  <2>3. h \in Seq(RequestItem)
    BY <2>1, <2>2, QueueType
  <2>4. handed' \in [Streams -> Seq(RequestItem)]
    BY <1>p, <2>2, <2>3 DEF DataTypeOK
  <2>5. TasksTypeOK'
    BY <1>13, <1>t DEF ReceiveAcked
  <2> QED
    BY <1>13, <1>p, <2>4, <2>5 DEF ReceiveAcked, DataTypeOK
<1>14. CASE CallTimeout(s)
  <2>1. TasksTypeOK'
    <3>1. "running" \in TaskState /\ <<>> \in Seq(Frames)
      BY DEF TaskState
    <3> QED
      BY <1>14, <1>p, <3>1, TaskMoves DEF CallTimeout
  <2> QED
    BY <1>14, <1>p, <2>1 DEF CallTimeout, DataTypeOK
<1>15. CASE AppBadStart(s)
  <2>1. state' \in [Streams -> StreamState]
    BY <1>15, <1>p DEF AppBadStart, DataTypeOK, StreamState
  <2>2. CASE Raise(s)
    BY <1>15, <1>p, <2>1, <2>2, RaiseType DEF AppBadStart, DataTypeOK
  <2>3. CASE UNCHANGED <<pc, todo, active>>
    BY <1>15, <1>p, <2>1, <2>3 DEF AppBadStart, DataTypeOK, TasksTypeOK
  <2> QED
    BY <1>15, <2>2, <2>3 DEF AppBadStart
<1> QED
  BY <1>1, <1>2, <1>3, <1>4, <1>5, <1>6, <1>7, <1>8, <1>9, <1>10, <1>11, <1>12, <1>13, <1>14, <1>15
     DEF AppStep, TaskStep

LEMMA AppTypeStep ==
  ASSUME TypeOK, [Next]_vars
  PROVE  AppTypeOK'
<1>u. UNCHANGED appVars => AppTypeOK'
  BY DEF TypeOK, AppTypeOK, appVars
<1>1. CASE ReaderStep \/ Cancel
  BY <1>1, ReaderAppTypeStep, AppTypeParts
<1>2. ASSUME NEW s \in Streams, AppStep(s) \/ TaskStep(s) \/ CallTimeout(s) PROVE AppTypeOK'
  BY <1>2, AppAppTypeStep, AppTypeParts DEF TypeOK
<1>3. ASSUME NEW s \in Streams, RouterStep(s) PROVE AppTypeOK'
  BY <1>3, <1>u DEF RouterStep, RouterHeader, RouterData, RouterReset, RouterAck, RouterBad
<1>4. CASE LinkEnd \/ Get \/ Sent \/ SendFails \/ UNCHANGED vars
  BY <1>4, <1>u DEF LinkEnd, Get, Sent, SendFails, vars
<1> QED
  BY <1>1, <1>2, <1>3, <1>4 DEF Next

LEMMA TypeStep == TypeOK /\ [Next]_vars => TypeOK'
BY LinkTypeStep, ReaderTypeStep, AppTypeStep, QueueTypeStep DEF TypeOK

(***************************************************************************)
(* Every variable of the session keeps its shape, and a task that is       *)
(* sending has the frame it waits for at the head of what it has to send.  *)
(***************************************************************************)
THEOREM TypeCorrect == SafeSpec => []TypeOK
BY TypeInit, TypeStep, PTL DEF SafeSpec

(***************************************************************************)
(* Each task of a session that awaits send_frame has exactly one item on   *)
(* the queue or in the writer's hands, whatever reader and app tasks do.   *)
(***************************************************************************)
THEOREM QueueOneLiveItem == SafeSpec => []Q!OneLiveItem
<1>1. QP!OneLiveItem <=> Q!OneLiveItem
  BY DEF QP!OneLiveItem, Q!OneLiveItem, QP!Holder, Q!Holder, QP!Owners, Q!Owners, QP!OwnerOf, Q!OwnerOf,
         QP!Item, Q!Item
<1>2. Init => QP!OneLiveItem
  <2>1. Init => QP!Init
    BY DEF Init, Q!Init, QP!Init
  <2> QED
    BY <2>1, QueueAssumption, QP!OneLiveItemInit
<1>3. TypeOK /\ QP!OneLiveItem /\ [Next]_vars => QP!OneLiveItem'
  <2> SUFFICES ASSUME TypeOK, QP!OneLiveItem, [Next]_vars PROVE QP!OneLiveItem'
    OBVIOUS
  <2>1. QP!TypeOK /\ [QP!Next]_(QP!queueVars)
    BY QueueStep, SameQueueType, SameQueueStep DEF TypeOK
  <2> QED
    BY <2>1, QueueAssumption, QP!OneLiveItemStep
<1> QED
  BY <1>1, <1>2, <1>3, TypeCorrect, PTL DEF SafeSpec

-----------------------------------------------------------------------------
(* A task that waits for the window can still be woken.                    *)

LEMMA NoLostWakeupStep ==
  ASSUME TypeOK, NoLostWakeup, [Next]_vars
  PROVE  NoLostWakeup'
<1>p. TasksTypeOK /\ DataTypeOK
  BY AppTypeParts DEF TypeOK
<1>n. \A s \in Streams : state[s].pending \in Nat
  BY <1>p DEF DataTypeOK, StreamState
<1>w. High \in Nat /\ Low \in Nat /\ Low <= High
  BY SessionAssumption
<1>a. ASSUME \A s \in Streams : pc'[s] = "window" => pc[s] = "window" /\ state'[s].pending = state[s].pending
      PROVE  NoLostWakeup'
  BY <1>a DEF NoLostWakeup
<1>u. UNCHANGED <<pc, state>> => NoLostWakeup'
  BY <1>a
<1>c. ASSUME NEW S \in SUBSET Streams, CloseFromRouter(S) PROVE NoLostWakeup'
  <2>1. \A s \in Streams : pc'[s] = "window" => pc[s] = "window" /\ s \notin S
    BY <1>c DEF CloseFromRouter, Cancelled
  <2>2. \A s \in Streams \ S : state'[s] = state[s]
    BY <1>c DEF CloseFromRouter
  <2> QED
    BY <1>a, <2>1, <2>2
<1>e. ASSUME NEW how, EndSession(how) PROVE NoLostWakeup'
  BY <1>c, <1>e DEF EndSession, TypeOK, ReaderTypeOK
(* One task moves and no other stream's count changes. *)
<1>m. ASSUME NEW s \in Streams, NEW q \in TaskState \ {"window"},
             pc' = [pc EXCEPT ![s] = q],
             \A r \in Streams \ {s} : state'[r].pending = state[r].pending
      PROVE  NoLostWakeup'
  BY <1>p, <1>a, <1>m DEF TasksTypeOK
<1>1. CASE ReadHeader
  <2>1. Head(inbox).id \in Streams
    BY <1>1, InboxHead DEF ReadHeader, Read, NextIs, TypeOK
  <2>2. \A s \in Streams : state'[s].pending = state[s].pending
    BY <1>1, <1>p, <2>1 DEF ReadHeader, DataTypeOK, StreamState
  <2>3. \A s \in Streams : pc'[s] \in {"created", pc[s]}
    BY <1>1, <1>p DEF ReadHeader, TasksTypeOK
  <2> QED
    BY <1>a, <2>2, <2>3
<1>2. CASE ReadData
  <2>1. \A s \in Streams : state'[s].pending = state[s].pending
    BY <1>2, <1>p DEF ReadData, DataTypeOK, StreamState
  <2> QED
    BY <1>2, <1>a, <2>1 DEF ReadData
<1>3. CASE ReadWindowUpdate
  <2> DEFINE s == Head(inbox).id
             left == AfterAck(state[s].pending, Head(inbox).payload)
  <2>1. s \in Streams /\ Head(inbox).payload \in Nat
    BY <1>3, InboxHead DEF ReadWindowUpdate, Read, NextIs, TypeOK
  <2>2. CASE s \notin streams
    BY <1>3, <1>u, <2>2 DEF ReadWindowUpdate
  <2>3. CASE s \in streams
    <3>1. left \in Nat
      BY <1>n, <2>1 DEF AfterAck
    <3> HIDE DEF left
    <3>2. state' = [state EXCEPT ![s].pending = left]
      BY <1>3, <2>3 DEF ReadWindowUpdate, left
    <3>3. pc' = [pc EXCEPT ![s] = IF @ = "window" /\ left < Low THEN "woken" ELSE @]
      BY <1>3, <2>3 DEF ReadWindowUpdate, Notifies, left
    <3>4. state'[s].pending = left /\ \A r \in Streams \ {s} : state'[r] = state[r]
      BY <1>p, <2>1, <3>2 DEF DataTypeOK, StreamState
    <3>5. \A r \in Streams \ {s} : pc'[r] = pc[r]
      BY <1>p, <3>3 DEF TasksTypeOK
    <3>6. pc'[s] = "window" => ~ (left < Low)
      BY <1>p, <2>1, <3>3 DEF TasksTypeOK
    <3>7. pc'[s] = "window" => state'[s].pending >= Low
      BY <1>w, <3>1, <3>4, <3>6
    <3> QED
      BY <3>4, <3>5, <3>7 DEF NoLostWakeup
  <2> QED
    BY <2>2, <2>3
<1>4. CASE ReadReset
  BY <1>4, <1>c DEF ReadReset, TypeOK, ReaderTypeOK
<1>5. CASE ReadBad \/ ReadEnd \/ AckFails
  BY <1>5, <1>e DEF ReadBad, ReadEnd, AckFails
<1>6. CASE Cancel
  BY <1>6, <1>e, <1>u DEF Cancel, appVars
<1>7. CASE LinkEnd \/ Get \/ Sent \/ SendFails \/ AckSent \/ Join \/ UNCHANGED vars
  BY <1>7, <1>u DEF LinkEnd, Get, Sent, SendFails, AckSent, Join, appVars, vars
<1>8. ASSUME NEW s \in Streams, RouterStep(s) PROVE NoLostWakeup'
  BY <1>8, <1>u DEF RouterStep, RouterHeader, RouterData, RouterReset, RouterAck, RouterBad, appVars
<1>9. ASSUME NEW s \in Streams, AppStep(s) \/ TaskStep(s) \/ CallTimeout(s) PROVE NoLostWakeup'
  <2>t. {"send", "running", "done", "rst", "recv", "recvack"} \subseteq TaskState \ {"window"}
    BY DEF TaskState
  <2>f. ASSUME NEW pending \in Nat, AfterFrame(s, pending) PROVE NoLostWakeup'
    <3>1. \E q \in {"send", "running", "done"} : pc' = [pc EXCEPT ![s] = q]
      BY <2>f DEF AfterFrame, Finish
    <3>2. \A r \in Streams \ {s} : state'[r].pending = state[r].pending
      BY <2>f, <1>p DEF AfterFrame, DataTypeOK, StreamState
    <3> QED
      BY <1>m, <2>t, <3>1, <3>2
  <2>w. ASSUME NEW pending \in Nat, MustWait(pending), pc' = [pc EXCEPT ![s] = "window"],
               state'[s].pending = pending, \A r \in Streams \ {s} : state'[r].pending = state[r].pending
        PROVE  NoLostWakeup'
    <3>1. pending >= Low
      BY <1>w, <2>w DEF MustWait
    <3>2. \A r \in Streams \ {s} : pc'[r] = pc[r]
      BY <1>p, <2>w DEF TasksTypeOK
    <3> QED
      BY <2>w, <3>1, <3>2 DEF NoLostWakeup
  <2>1. CASE FrameSent(s)
    <3> DEFINE pending == state[s].pending + Head(todo[s]).payload
    <3>1. pending \in Nat
      <4>1. todo[s] # <<>>
        BY <2>1, <1>p DEF FrameSent, TasksTypeOK
      <4>2. Head(todo[s]).payload \in 0..1
        BY <4>1, TodoHead DEF TypeOK
      <4> QED
        BY <1>n, <4>2
    <3> HIDE DEF pending
    <3>2. CASE AfterFrame(s, pending)
      BY <2>f, <3>1, <3>2
    <3>3. CASE MustWait(pending) /\ pc' = [pc EXCEPT ![s] = "window"]
               /\ state' = [state EXCEPT ![s].pending = pending]
      <4>1. state'[s].pending = pending /\ \A r \in Streams \ {s} : state'[r].pending = state[r].pending
        BY <1>p, <3>3 DEF DataTypeOK, StreamState
      <4> QED
        BY <2>w, <3>1, <3>3, <4>1
    <3> QED
      BY <2>1, <3>2, <3>3 DEF FrameSent, pending
  <2>2. CASE Woken(s)
    <3>1. CASE AfterFrame(s, state[s].pending)
      BY <1>n, <2>f, <3>1
    <3>2. CASE MustWait(state[s].pending) /\ pc' = [pc EXCEPT ![s] = "window"] /\ state' = state
      BY <1>n, <2>w, <3>2
    <3> QED
      BY <2>2, <3>1, <3>2 DEF Woken
  <2>3. CASE AppStart(s) \/ AppBody(s) \/ AppReturn(s) \/ TaskStart(s)
    <3>1. \E q \in {"send", "running", "done"} : pc' = [pc EXCEPT ![s] = q]
      BY <2>3 DEF AppStart, AppBody, AppReturn, TaskStart, AutoResponse, StartSending, Finish
    <3>2. \A r \in Streams \ {s} : state'[r].pending = state[r].pending
      BY <2>3, <1>p DEF AppStart, AppBody, AppReturn, TaskStart, AutoResponse, DataTypeOK, StreamState
    <3> QED
      BY <1>m, <2>t, <3>1, <3>2
  <2>4. CASE AppReceive(s) \/ AppRaise(s) \/ FrameFails(s) \/ ResetSent(s) \/ ReceiveAcked(s)
             \/ TaskCancelled(s) \/ CallTimeout(s)
    <3>1. \E q \in {"recv", "rst", "done", "running"} : pc' = [pc EXCEPT ![s] = q]
      BY <2>4 DEF AppReceive, AppRaise, FrameFails, ResetSent, ReceiveAcked, TaskCancelled, CallTimeout,
           Raise, Finish
    <3>2. state' = state
      BY <2>4 DEF AppReceive, AppRaise, FrameFails, ResetSent, ReceiveAcked, TaskCancelled, CallTimeout
    <3> QED
      BY <1>m, <2>t, <3>1, <3>2
  <2>5. CASE Receive(s)
    <3>1. \E q \in {"recvack", "running"} : pc' = [pc EXCEPT ![s] = q]
      BY <2>5 DEF Receive
    <3>2. \A r \in Streams \ {s} : state'[r].pending = state[r].pending
      BY <2>5, <1>p DEF Receive, DataTypeOK, StreamState
    <3> QED
      BY <1>m, <2>t, <3>1, <3>2
  <2>6. CASE AppBadStart(s)
    <3>1. \A r \in Streams : state'[r].pending = state[r].pending
      BY <2>6, <1>p DEF AppBadStart, DataTypeOK, StreamState
    <3>2. pc' = pc \/ \E q \in {"rst", "done"} : pc' = [pc EXCEPT ![s] = q]
      BY <2>6 DEF AppBadStart, Raise, Finish
    <3> QED
      BY <1>a, <1>m, <2>t, <3>1, <3>2
  <2> QED
    BY <1>9, <2>1, <2>2, <2>3, <2>4, <2>5, <2>6 DEF AppStep, TaskStep
<1> QED
  BY <1>1, <1>2, <1>3, <1>4, <1>5, <1>6, <1>7, <1>8, <1>9 DEF Next, ReaderStep

(***************************************************************************)
(* A task that waits for the window always has Low or more unacknowledged  *)
(* bytes: an acknowledgement that wakes it is still to come, whatever the  *)
(* order of acknowledgements, sends and tests.                             *)
(***************************************************************************)
THEOREM NoLostWakeupHolds == SafeSpec => []NoLostWakeup
<1>1. Init => NoLostWakeup
  BY DEF Init, NoLostWakeup
<1>2. TypeOK /\ NoLostWakeup /\ [Next]_vars => NoLostWakeup'
  BY NoLostWakeupStep
<1> QED
  BY <1>1, <1>2, TypeCorrect, PTL DEF SafeSpec

-----------------------------------------------------------------------------
(* What is left of a session that has ended.                               *)

(* A task that goes on is answered for: by its stream, which the end of    *)
(* the session will close, or by its complete response.                    *)
Accounted(s) ==
  pc[s] \in {"none", "done", "cancelled", "rst"} \/ state[s].complete \/ s \in streams

Survivors ==
  /\ ~ SessionOpen => streams = {}
  /\ \A s \in Streams : Accounted(s)

LEMMA SurvivorsImply == Survivors => OnlyCompletedSurvive
BY DEF Survivors, Accounted, OnlyCompletedSurvive

(* A step that leaves the reader in place and moves one task of an open or *)
(* complete stream.                                                        *)
LEMMA OneTaskMoves ==
  ASSUME TypeOK, Survivors, NEW s \in Streams, NEW q,
         reader' = reader, pc' = [pc EXCEPT ![s] = q],
         \A r \in Streams : state[r].complete => state'[r].complete,
         streams' \subseteq streams,
         \A r \in streams : r \in streams' \/ r = s,
         Accounted(s)'
  PROVE  Survivors'
<1>1. \A r \in Streams \ {s} : pc'[r] = pc[r]
  BY DEF TypeOK, AppTypeOK
<1>2. \A r \in Streams \ {s} : Accounted(r)'
  BY <1>1 DEF Survivors, Accounted
<1> QED
  BY <1>2 DEF Survivors, SessionOpen

LEMMA SurvivorsStep ==
  ASSUME TypeOK, Survivors, [Next]_vars
  PROVE  Survivors'
<1>p. TasksTypeOK /\ DataTypeOK /\ ReaderTypeOK
  BY AppTypeParts DEF TypeOK
<1>u. UNCHANGED <<streams, pc, state>> /\ (SessionOpen => SessionOpen') => Survivors'
  BY DEF Survivors, Accounted
<1>j. UNCHANGED <<streams, pc, state>> /\ ~ SessionOpen => Survivors'
  BY DEF Survivors, Accounted
<1>c. ASSUME NEW S \in SUBSET Streams, CloseFromRouter(S), streams' = streams \ S
      PROVE  \A s \in Streams : Accounted(s)'
  <2> SUFFICES ASSUME NEW s \in Streams PROVE Accounted(s)'
    OBVIOUS
  <2>1. CASE s \in S
    BY <1>c, <2>1 DEF CloseFromRouter, Cancelled, Accounted
  <2>2. CASE s \notin S
    <3>1. pc'[s] = pc[s] /\ state'[s] = state[s]
      BY <1>c, <2>2 DEF CloseFromRouter, Cancelled
    <3> QED
      BY <1>c, <2>2, <3>1 DEF Survivors, Accounted
  <2> QED
    BY <2>1, <2>2
<1>e. ASSUME NEW how, EndSession(how) PROVE Survivors'
  BY <1>c, <1>e, <1>p DEF EndSession, ReaderTypeOK, Survivors
<1>1. CASE ReadHeader
  <2>1. Head(inbox).id \in Streams
    BY <1>1, InboxHead DEF ReadHeader, Read, NextIs, TypeOK
  <2>2. \A s \in Streams : state'[s].complete = state[s].complete
    BY <1>1, <1>p, <2>1 DEF ReadHeader, DataTypeOK, StreamState
  <2>3. \A s \in Streams : s # Head(inbox).id => pc'[s] = pc[s]
    BY <1>1, <1>p DEF ReadHeader, TasksTypeOK
  <2>4. \A s \in Streams : Accounted(s)'
    BY <1>1, <2>2, <2>3 DEF ReadHeader, Survivors, Accounted
  <2> QED
    BY <1>1, <2>4 DEF ReadHeader, Survivors, SessionOpen
<1>2. CASE ReadData
  <2>1. \A s \in Streams : state'[s].complete = state[s].complete
    BY <1>2, <1>p DEF ReadData, DataTypeOK, StreamState
  <2> QED
    BY <1>2, <2>1 DEF ReadData, Survivors, Accounted, SessionOpen
<1>3. CASE ReadWindowUpdate
  <2>1. Head(inbox).id \in Streams
    BY <1>3, InboxHead DEF ReadWindowUpdate, Read, NextIs, TypeOK
  <2>2. \A s \in Streams : state'[s].complete = state[s].complete
    <3>1. state' = state \/ \E n : state' = [state EXCEPT ![Head(inbox).id].pending = n]
      BY <1>3 DEF ReadWindowUpdate
    <3>2. state \in [Streams -> StreamState]
      BY <1>p DEF DataTypeOK
    <3>3. ASSUME NEW n, state' = [state EXCEPT ![Head(inbox).id].pending = n]
          PROVE  \A s \in Streams : state'[s].complete = state[s].complete
      BY <2>1, <3>2, <3>3 DEF StreamState
    <3> QED
      BY <3>1, <3>3
  <2>3. \A s \in Streams : pc'[s] = pc[s] \/ (pc[s] = "window" /\ pc'[s] = "woken")
    BY <1>3, <1>p, <2>1 DEF ReadWindowUpdate, TasksTypeOK
  <2> QED
    BY <1>3, <2>2, <2>3 DEF ReadWindowUpdate, Survivors, Accounted, SessionOpen
<1>4. CASE ReadReset
  <2> DEFINE S == streams \cap {Head(inbox).id}
  <2>1. S \in SUBSET Streams /\ streams' = streams \ S /\ CloseFromRouter(S)
    BY <1>4, <1>p DEF ReadReset, ReaderTypeOK
  <2>2. \A s \in Streams : Accounted(s)'
    BY <1>c, <2>1
  <2> QED
    BY <1>4, <2>1, <2>2 DEF ReadReset, Survivors, SessionOpen
<1>5. CASE ReadBad \/ ReadEnd \/ AckFails
  BY <1>5, <1>e DEF ReadBad, ReadEnd, AckFails
<1>6. CASE Cancel
  <2>1. CASE reader = "join" /\ UNCHANGED <<streams, appVars>>
    BY <1>j, <2>1 DEF SessionOpen, appVars
  <2> QED
    BY <1>6, <1>e, <2>1 DEF Cancel
<1>7. CASE Join
  BY <1>7, <1>j DEF Join, SessionOpen, appVars
<1>8. CASE LinkEnd \/ Get \/ Sent \/ SendFails \/ AckSent \/ UNCHANGED vars
  BY <1>8, <1>u DEF LinkEnd, Get, Sent, SendFails, AckSent, SessionOpen, sessionVars, appVars, vars
<1>9. ASSUME NEW s \in Streams, RouterStep(s) PROVE Survivors'
  BY <1>9, <1>u DEF RouterStep, RouterHeader, RouterData, RouterReset, RouterAck, RouterBad,
       sessionVars, appVars, SessionOpen
<1>10. ASSUME NEW s \in Streams, AppStep(s) \/ TaskStep(s) \/ CallTimeout(s) PROVE Survivors'
  <2>c. UNCHANGED state => \A r \in Streams : state[r].complete => state'[r].complete
    OBVIOUS
  <2>k. ASSUME NEW q, pc[s] \notin {"none", "done", "cancelled", "rst"} \/ q = "done",
               pc' = [pc EXCEPT ![s] = q], reader' = reader, streams' = streams,
               \A r \in Streams : state[r].complete => state'[r].complete
        PROVE  Survivors'
    <3>1. pc'[s] = q
      BY <1>p, <2>k DEF TasksTypeOK
    <3>2. Accounted(s)'
      BY <2>k, <3>1 DEF Survivors, Accounted
    <3> QED
      BY <2>k, <3>2, OneTaskMoves
  <2>f. ASSUME NEW pending \in Nat, pc[s] \in {"send", "woken"}, reader' = reader, AfterFrame(s, pending)
        PROVE  Survivors'
    <3>1. PICK q \in {"send", "running", "done"} : pc' = [pc EXCEPT ![s] = q]
      BY <2>f DEF AfterFrame, Finish
    <3>2. \A r \in Streams : state[r].complete => state'[r].complete
      BY <2>f, <1>p DEF AfterFrame, DataTypeOK, StreamState
    <3>3. CASE streams' = streams
      BY <2>f, <2>k, <3>1, <3>2, <3>3
    <3>4. CASE streams' # streams
      <4>1. streams' = streams \ {s} /\ state'[s].complete
        BY <2>f, <1>p, <3>4 DEF AfterFrame, DataTypeOK, StreamState
      <4>2. Accounted(s)'
        BY <4>1 DEF Accounted
      <4> QED
        BY <2>f, <3>1, <3>2, <4>1, <4>2, OneTaskMoves
    <3> QED
      BY <3>3, <3>4
  <2>r. ASSUME reader' = reader, \A r \in Streams : state[r].complete => state'[r].complete,
               pc[s] \notin {"none", "done", "cancelled", "rst"}, Raise(s)
        PROVE  Survivors'
    <3>1. PICK q \in {"rst", "done"} : pc' = [pc EXCEPT ![s] = q]
      BY <2>r DEF Raise, Finish
    <3>2. streams' = streams \/ streams' = streams \ {s}
      BY <2>r DEF Raise
    <3>3. Accounted(s)'
      BY <1>p, <3>1 DEF Accounted, TasksTypeOK
    <3> QED
      BY <2>r, <3>1, <3>2, <3>3, OneTaskMoves
  <2>n. \A r \in Streams : state[r].pending \in Nat
    BY <1>p DEF DataTypeOK, StreamState
  <2>1. CASE FrameSent(s)
    <3>1. state[s].pending + Head(todo[s]).payload \in Nat
      <4>1. todo[s] # <<>>
        BY <2>1, <1>p DEF FrameSent, TasksTypeOK
      <4>2. Head(todo[s]).payload \in 0..1
        BY <4>1, TodoHead DEF TypeOK
      <4> QED
        BY <2>n, <4>2
    <3>2. CASE AfterFrame(s, state[s].pending + Head(todo[s]).payload)
      BY <2>1, <2>f, <3>1, <3>2 DEF FrameSent
    <3>3. CASE pc' = [pc EXCEPT ![s] = "window"] /\ streams' = streams
               /\ state' = [state EXCEPT ![s].pending = state[s].pending + Head(todo[s]).payload]
      <4>1. \A r \in Streams : state'[r].complete = state[r].complete
        BY <1>p, <3>3 DEF DataTypeOK, StreamState
      <4> QED
        BY <2>1, <2>k, <3>3, <4>1 DEF FrameSent
    <3> QED
      BY <2>1, <3>2, <3>3 DEF FrameSent
  <2>2. CASE Woken(s)
    BY <2>2, <2>f, <2>k, <2>n, <2>c DEF Woken
  <2>3. CASE AppStart(s) \/ AppBody(s) \/ AppReturn(s) \/ TaskStart(s)
    <3>1. \E q \in {"send", "running", "done"} : pc' = [pc EXCEPT ![s] = q]
      BY <2>3 DEF AppStart, AppBody, AppReturn, TaskStart, AutoResponse, StartSending, Finish
    <3>2. \A r \in Streams : state'[r].complete = state[r].complete
      <4>1. state' = state \/ state' = [state EXCEPT ![s].started = TRUE]
        BY <2>3 DEF AppStart, AppBody, AppReturn, TaskStart, AutoResponse
      <4>2. state \in [Streams -> StreamState]
        BY <1>p DEF DataTypeOK
      <4>3. CASE state' = [state EXCEPT ![s].started = TRUE]
        BY <4>2, <4>3 DEF StreamState
      <4> QED
        BY <4>1, <4>3
    <3>3. pc[s] \in {"running", "created"} /\ reader' = reader /\ streams' = streams
      BY <2>3 DEF AppStart, AppBody, AppReturn, TaskStart, sessionVars
    <3> QED
      BY <2>k, <3>1, <3>2, <3>3
  <2>4. CASE AppRaise(s)
    BY <2>4, <2>r DEF AppRaise
  <2>9. CASE AppBadStart(s)
    <3>1. \A r \in Streams : state'[r].complete = state[r].complete
      BY <2>9, <1>p DEF AppBadStart, DataTypeOK, StreamState
    <3>2. CASE Raise(s)
      BY <2>9, <2>r, <3>1, <3>2 DEF AppBadStart
    <3>3. CASE UNCHANGED <<streams, pc>>
      BY <2>9, <3>1, <3>3 DEF AppBadStart, Survivors, Accounted, SessionOpen
    <3> QED
      BY <2>9, <3>2, <3>3 DEF AppBadStart
  <2>5. CASE FrameFails(s)
    <3>1. CASE Raise(s)
      BY <2>5, <2>r, <3>1 DEF FrameFails
    <3>2. CASE pc' = [pc EXCEPT ![s] = "running"] /\ streams' = streams
      BY <2>5, <2>c, <2>k, <3>2 DEF FrameFails
    <3> QED
      BY <2>5, <3>1, <3>2 DEF FrameFails
  <2>6. CASE AppReceive(s) \/ ReceiveAcked(s) \/ CallTimeout(s)
    BY <2>6, <2>c, <2>k DEF AppReceive, ReceiveAcked, CallTimeout, sessionVars
  <2>7. CASE ResetSent(s) \/ TaskCancelled(s)
    BY <2>7, <2>c, <2>k DEF ResetSent, TaskCancelled, Finish, sessionVars
  <2>8. CASE Receive(s)
    <3>1. \E q \in {"recvack", "running"} : pc' = [pc EXCEPT ![s] = q]
      BY <2>8 DEF Receive
    <3>2. \A r \in Streams : state'[r].complete = state[r].complete
      BY <2>8, <1>p DEF Receive, DataTypeOK, StreamState
    <3> QED
      BY <2>8, <2>k, <3>1, <3>2 DEF Receive, sessionVars
  <2> QED
    BY <1>10, <2>1, <2>2, <2>3, <2>4, <2>5, <2>6, <2>7, <2>8, <2>9 DEF AppStep, TaskStep
<1> QED
  BY <1>1, <1>2, <1>3, <1>4, <1>5, <1>6, <1>7, <1>8, <1>9, <1>10 DEF Next, ReaderStep

(***************************************************************************)
(* Once run() has left its loop, no stream is registered, and the only     *)
(* tasks that go on have a complete response or are sending RST_STREAM.    *)
(***************************************************************************)
THEOREM OnlyCompletedSurviveHolds == SafeSpec => []OnlyCompletedSurvive
<1>1. Init => Survivors
  BY DEF Init, Survivors, Accounted, SessionOpen
<1>2. TypeOK /\ Survivors /\ [Next]_vars => Survivors'
  BY SurvivorsStep
<1>3. Survivors => OnlyCompletedSurvive
  BY SurvivorsImply
<1> QED
  BY <1>1, <1>2, <1>3, TypeCorrect, PTL DEF SafeSpec
=============================================================================
