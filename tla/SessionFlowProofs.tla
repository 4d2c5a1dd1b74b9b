------------------------- MODULE SessionFlowProofs -------------------------
(***************************************************************************)
(* The life of a stream in its session, for every set of streams, all      *)
(* watermarks and all bounds: its task is created once, is counted while   *)
(* it is in a request, never has more than one frame too much pending, no  *)
(* byte of its response is lost on the way to the router and back, the     *)
(* window of every request frame goes back to the router, and the request  *)
(* body reaches the app whole and in order.                                *)
(***************************************************************************)
EXTENDS SessionProofs, FiniteSetTheorems, SequenceTheorems

-----------------------------------------------------------------------------
(* How a task moves.                                                       *)

(* A step of a task takes that task, and no other, from one await to the   *)
(* next, and counts it where it enters or leaves its request.              *)
Moved(s) ==
  \E q \in TaskState \ {"none", "created", "cancelled"} :
    /\ pc' = [pc EXCEPT ![s] = q]
    /\ pc[s] \notin {"none", "done"}
    /\ \/ pc[s] = "created" /\ q # "done" /\ active' = active + 1
       \/ pc[s] # "created" /\ q = "done" /\ active' = (IF active > 0 THEN active - 1 ELSE 0)
       \/ pc[s] # "created" /\ q # "done" /\ active' = active

LEMMA MovedTo ==
  ASSUME NEW s \in Streams, NEW q \in {"running", "send", "window", "recv", "recvack", "rst"},
         pc' = [pc EXCEPT ![s] = q], pc[s] \notin {"none", "done", "created"}, active' = active
  PROVE  Moved(s)
BY DEF Moved, TaskState

LEMMA MovedOut ==
  ASSUME NEW s \in Streams, pc[s] \notin {"none", "done", "created"}, Finish(s)
  PROVE  Moved(s)
BY DEF Moved, Finish, TaskState

LEMMA AppMoves ==
  ASSUME TypeOK, NEW s \in Streams, AppStep(s) \/ TaskStep(s) \/ CallTimeout(s)
  PROVE  Moved(s)
<1>a. ASSUME NEW pending, AfterFrame(s, pending), pc[s] \notin {"none", "done", "created"} PROVE Moved(s)
  BY <1>a, MovedTo, MovedOut DEF AfterFrame
<1>r. ASSUME Raise(s), pc[s] \notin {"none", "done", "created"} PROVE Moved(s)
  BY <1>r, MovedTo, MovedOut DEF Raise
<1>1. CASE AppStart(s) \/ AppBody(s)
  BY <1>1, MovedTo DEF AppStart, AppBody, StartSending
<1>2. CASE AppReceive(s) \/ ReceiveAcked(s) \/ CallTimeout(s)
  BY <1>2, MovedTo DEF AppReceive, ReceiveAcked, CallTimeout
<1>3. CASE AppReturn(s)
  BY <1>3, MovedTo, MovedOut DEF AppReturn, AutoResponse, StartSending
<1>4. CASE AppRaise(s)
  BY <1>4, <1>r DEF AppRaise
<1>5. CASE TaskStart(s)
  <2>1. \E q \in {"running", "send"} : pc' = [pc EXCEPT ![s] = q]
    BY <1>5 DEF TaskStart, AutoResponse, StartSending
  <2> QED
    BY <1>5, <2>1 DEF TaskStart, Moved, TaskState
<1>6. CASE FrameSent(s)
  BY <1>6, <1>a, MovedTo DEF FrameSent
<1>7. CASE FrameFails(s)
  BY <1>7, <1>r, MovedTo DEF FrameFails
<1>8. CASE Woken(s)
  BY <1>8, <1>a, MovedTo DEF Woken
<1>9. CASE ResetSent(s) \/ TaskCancelled(s)
  BY <1>9, MovedOut DEF ResetSent, TaskCancelled
<1>10. CASE Receive(s)
  BY <1>10, MovedTo DEF Receive
<1>11. CASE AppBadStart(s)
  <2>1. pc[s] = "running"
    BY <1>11 DEF AppBadStart
  <2>2. CASE Raise(s)
    BY <1>r, <2>1, <2>2
  <2>3. CASE UNCHANGED <<pc, active>>
    <3>1. pc' = [pc EXCEPT ![s] = "running"]
      BY <2>1, <2>3 DEF TypeOK, AppTypeOK
    <3> QED
      BY <2>1, <2>3, <3>1, MovedTo
  <2> QED
    BY <1>11, <2>2, <2>3 DEF AppBadStart
<1> QED
  BY <1>1, <1>2, <1>3, <1>4, <1>5, <1>6, <1>7, <1>8, <1>9, <1>10, <1>11 DEF AppStep, TaskStep

(* What the reader does to the tasks and to what it reads. *)
LEMMA ReaderMoves ==
  ASSUME TypeOK, ReaderStep \/ Cancel
  PROVE  /\ request' = request
         /\ inbox' \in {inbox, <<>>} \/ (inbox # <<>> /\ inbox' = Tail(inbox))
         /\ \A s \in Streams : pc[s] # "none" => pc'[s] # "none"
         /\ \A s \in Streams :
              pc[s] = "none" /\ pc'[s] # "none" =>
                ReadHeader /\ Head(inbox).id = s /\ "HEADER_END" \in Head(inbox).flags
<1>p. pc \in [Streams -> TaskState]
  BY DEF TypeOK, AppTypeOK
<1>u. UNCHANGED pc => \A s \in Streams : pc[s] = "none" <=> pc'[s] = "none"
  OBVIOUS
<1>c. ASSUME NEW S \in SUBSET Streams, CloseFromRouter(S)
      PROVE  \A s \in Streams : pc[s] = "none" <=> pc'[s] = "none"
  BY <1>c DEF CloseFromRouter, Cancelled
<1>e. ASSUME NEW how, EndSession(how), UNCHANGED endVars
      PROVE  inbox' = <<>> /\ request' = request /\ \A s \in Streams : pc[s] = "none" <=> pc'[s] = "none"
  BY <1>c, <1>e DEF EndSession, TypeOK, ReaderTypeOK, endVars
<1>1. CASE ReadHeader
  BY <1>1, <1>p, InboxHead DEF ReadHeader, Read, NextIs, TypeOK
<1>2. CASE ReadData
  BY <1>2, <1>u DEF ReadData, Read, NextIs
<1>3. CASE ReadWindowUpdate
  BY <1>3, <1>p DEF ReadWindowUpdate, Read, NextIs
<1>4. CASE ReadReset
  BY <1>4, <1>c DEF ReadReset, Read, NextIs, TypeOK, ReaderTypeOK
<1>5. CASE ReadBad \/ ReadEnd \/ AckFails
  BY <1>5, <1>e DEF ReadBad, ReadEnd, AckFails
<1>6. CASE AckSent \/ Join
  BY <1>6, <1>u DEF AckSent, Join, linkVars, appVars
<1>7. CASE Cancel
  BY <1>7, <1>e, <1>u DEF Cancel, endVars, appVars
<1> QED
  BY <1>1, <1>2, <1>3, <1>4, <1>5, <1>6, <1>7 DEF ReaderStep

-----------------------------------------------------------------------------
(* The router uses an id for one request, so that a task is created once.  *)

(* A frame of a request head, and the last one. *)
IsHead(f) == f.type = "HEADER"
EndsHead(f) == f.type = "HEADER" /\ "HEADER_END" \in f.flags

HeadOnce ==
  /\ \A i \in 1..Len(inbox) : IsHead(inbox[i]) =>
       pc[inbox[i].id] = "none" /\ request[inbox[i].id] # "idle"
  /\ \A i \in 1..Len(inbox) : EndsHead(inbox[i]) =>
       /\ request[inbox[i].id] # "head"
       /\ \A j \in 1..Len(inbox) : IsHead(inbox[j]) /\ inbox[j].id = inbox[i].id => j <= i
  /\ \A s \in Streams : pc[s] # "none" => request[s] \notin {"idle", "head"}

(* The tasks that have not been created, and the progress of the requests, *)
(* are what the rest of it speaks about.                                   *)
LEMMA HeadOnceKept ==
  ASSUME TypeOK, HeadOnce, UNCHANGED <<inbox, request>>,
         \A s \in Streams : pc[s] = "none" <=> pc'[s] = "none"
  PROVE  HeadOnce'
<1>1. \A i \in 1..Len(inbox) : inbox[i].id \in Streams
  BY RouterFrameFields DEF TypeOK, LinkTypeOK
<1> QED
  BY <1>1 DEF HeadOnce

(* One more frame from the router. *)
LEMMA InboxGrows ==
  ASSUME LinkTypeOK, NEW f \in RouterFrames, Arrive(f)
  PROVE  /\ Len(inbox') = Len(inbox) + 1 /\ Len(inbox) \in Nat
         /\ inbox'[Len(inbox) + 1] = f
         /\ \A i \in 1..Len(inbox) : inbox'[i] = inbox[i] /\ inbox[i].id \in Streams
BY RouterFrameFields DEF LinkTypeOK, Arrive

LEMMA InboxShrinks ==
  ASSUME LinkTypeOK, inbox # <<>>, inbox' = Tail(inbox)
  PROVE  /\ Len(inbox') = Len(inbox) - 1 /\ Len(inbox) \in Nat \ {0}
         /\ Head(inbox) = inbox[1]
         /\ \A i \in 1..Len(inbox') : inbox'[i] = inbox[i + 1] /\ i + 1 \in 1..Len(inbox)
         /\ \A i \in 1..Len(inbox) : inbox[i].id \in Streams
<1>1. inbox \in Seq(RouterFrames)
  BY DEF LinkTypeOK
<1>2. \A i \in 1..Len(inbox) : inbox[i].id \in Streams
  BY <1>1, RouterFrameFields
<1> QED
  BY <1>1, <1>2

LEMMA RouterHeadOnce ==
  ASSUME TypeOK, HeadOnce, NEW s \in Streams, RouterStep(s)
  PROVE  HeadOnce'
<1> USE DEF TypeOK
<1>r. request \in [Streams -> {"idle", "head", "body", "ended", "reset"}]
  BY DEF LinkTypeOK
<1>p. UNCHANGED pc
  BY DEF RouterStep, RouterHeader, RouterData, RouterReset, RouterAck, RouterBad, appVars
(* A frame that is no part of a request head. *)
<1>o. ASSUME NEW f \in RouterFrames, Arrive(f), ~ IsHead(f),
             \A t \in Streams : request'[t] # request[t] =>
               request[t] # "idle" /\ request'[t] \in {"ended", "reset", "body"}
      PROVE  HeadOnce'
  BY <1>o, <1>p, InboxGrows DEF HeadOnce, IsHead, EndsHead
<1>1. CASE RouterHeader(s)
  <2>1. PICK flags \in SUBSET {"STREAM_END", "HEADER_END"} :
          /\ Arrive(Frame("HEADER", flags, s, 1))
          /\ \/ flags = {} /\ request[s] = "idle" /\ request' = [request EXCEPT ![s] = "head"]
             \/ /\ "HEADER_END" \in flags /\ request[s] \in {"idle", "head"}
                /\ \E r \in {"ended", "body"} : request' = [request EXCEPT ![s] = r]
    BY <1>1 DEF RouterHeader
  <2> DEFINE f == Frame("HEADER", flags, s, 1)
  <2>2. f \in RouterFrames
    BY RouterFrameType DEF MessageType
  <2>3. /\ Len(inbox') = Len(inbox) + 1 /\ Len(inbox) \in Nat
        /\ inbox'[Len(inbox) + 1] = f
        /\ \A i \in 1..Len(inbox) : inbox'[i] = inbox[i] /\ inbox[i].id \in Streams
    BY <2>1, <2>2, InboxGrows
  <2>s. \A j \in 1..Len(inbox') : j \in 1..Len(inbox) \/ j = Len(inbox) + 1
    BY <2>3
  <2>4. f.type = "HEADER" /\ f.flags = flags /\ f.id = s
    BY DEF Frame
  <2> HIDE DEF f
  <2>5. pc[s] = "none" /\ pc' = pc
    BY <1>p, <2>1 DEF HeadOnce
  <2>6. \A t \in Streams : t # s => request'[t] = request[t]
    BY <1>r, <2>1
  <2>7. request'[s] # "idle" /\ (request'[s] = "head" => flags = {})
    BY <1>r, <2>1
  <2>8. \A i \in 1..Len(inbox) : ~ (EndsHead(inbox[i]) /\ inbox[i].id = s)
    BY <2>1 DEF HeadOnce, EndsHead, IsHead
  <2>9. \A i \in 1..Len(inbox') : IsHead(inbox'[i]) => pc'[inbox'[i].id] = "none" /\ request'[inbox'[i].id] # "idle"
    <3> SUFFICES ASSUME NEW i \in 1..Len(inbox'), IsHead(inbox'[i])
                 PROVE  pc'[inbox'[i].id] = "none" /\ request'[inbox'[i].id] # "idle"
      OBVIOUS
    <3>1. CASE i = Len(inbox) + 1
      BY <2>3, <2>4, <2>5, <2>7, <3>1
    <3>2. CASE i \in 1..Len(inbox)
      BY <2>3, <2>5, <2>6, <2>7, <3>2 DEF HeadOnce
    <3> QED
      BY <2>3, <3>1, <3>2
  <2>10. ASSUME NEW i \in 1..Len(inbox'), EndsHead(inbox'[i])
         PROVE  /\ request'[inbox'[i].id] # "head"
                /\ \A j \in 1..Len(inbox') : IsHead(inbox'[j]) /\ inbox'[j].id = inbox'[i].id => j <= i
    <3>1. CASE i = Len(inbox) + 1
      BY <2>3, <2>4, <2>7, <2>10, <3>1 DEF EndsHead
    <3>2. CASE i \in 1..Len(inbox)
      <4>1. EndsHead(inbox[i]) /\ inbox[i].id # s
        BY <2>3, <2>8, <2>10, <3>2
      <4>2. ASSUME NEW j \in 1..Len(inbox'), IsHead(inbox'[j]), inbox'[j].id = inbox'[i].id PROVE j <= i
        <5>1. j # Len(inbox) + 1
          BY <2>3, <2>4, <3>2, <4>1, <4>2
        <5>2. j \in 1..Len(inbox)
          BY <2>s, <5>1
        <5> QED
          BY <2>3, <3>2, <4>1, <4>2, <5>2 DEF HeadOnce
      <4>3. request'[inbox'[i].id] # "head"
        BY <2>3, <2>6, <3>2, <4>1 DEF HeadOnce
      <4> QED
        BY <4>2, <4>3
    <3> QED
      BY <2>3, <3>1, <3>2
  <2>11. \A t \in Streams : pc'[t] # "none" => request'[t] \notin {"idle", "head"}
    BY <2>5, <2>6 DEF HeadOnce
  <2> QED
    BY <2>9, <2>10, <2>11 DEF HeadOnce
<1>2. CASE RouterData(s)
  <2>1. PICK chunk \in {0, reqs[s] + 1}, flags \in SUBSET {"STREAM_END"} :
          /\ Arrive(Frame("DATA", flags, s, chunk))
          /\ request[s] = "body"
          /\ request' = [request EXCEPT ![s] = IF flags = {} THEN "body" ELSE "ended"]
    BY <1>2 DEF RouterData
  <2>2. chunk \in Nat
    BY DEF LinkTypeOK
  <2>3. Frame("DATA", flags, s, chunk) \in RouterFrames /\ ~ IsHead(Frame("DATA", flags, s, chunk))
    BY <2>2, RouterFrameType DEF MessageType, IsHead, Frame
  <2> QED
    BY <1>o, <1>r, <2>1, <2>3
<1>3. CASE RouterReset(s)
  <2>1. Frame("RST_STREAM", {}, s, 0) \in RouterFrames /\ ~ IsHead(Frame("RST_STREAM", {}, s, 0))
    BY RouterFrameType DEF MessageType, IsHead, Frame
  <2> QED
    BY <1>3, <1>o, <1>r, <2>1 DEF RouterReset
<1>4. CASE RouterAck(s)
  <2>1. PICK n \in 1..(credit[s] - Uncounted(s)) : Arrive(WindowUpdate(s, n)) /\ request' = request
    BY <1>4 DEF RouterAck
  <2>2. n \in Nat
    BY UncountedType DEF LinkTypeOK
  <2>3. WindowUpdate(s, n) \in RouterFrames /\ ~ IsHead(WindowUpdate(s, n))
    BY <2>2, RouterFrameType DEF MessageType, IsHead, Frame, WindowUpdate
  <2> QED
    BY <1>o, <2>1, <2>3
<1>5. CASE RouterBad(s)
  <2>1. Frame("BAD", {}, s, 0) \in RouterFrames /\ ~ IsHead(Frame("BAD", {}, s, 0))
    BY RouterFrameType DEF IsHead, Frame
  <2> QED
    BY <1>5, <1>o, <2>1 DEF RouterBad
<1> QED
  BY <1>1, <1>2, <1>3, <1>4, <1>5 DEF RouterStep

LEMMA ReaderHeadOnce ==
  ASSUME TypeOK, HeadOnce, ReaderStep \/ Cancel
  PROVE  HeadOnce'
<1>m. /\ request' = request
      /\ inbox' \in {inbox, <<>>} \/ (inbox # <<>> /\ inbox' = Tail(inbox))
      /\ \A s \in Streams : pc[s] # "none" => pc'[s] # "none"
      /\ \A s \in Streams :
           pc[s] = "none" /\ pc'[s] # "none" =>
             ReadHeader /\ Head(inbox).id = s /\ "HEADER_END" \in Head(inbox).flags
  BY ReaderMoves
<1>1. CASE ReadHeader
  <2>1. inbox # <<>> /\ inbox' = Tail(inbox) /\ IsHead(Head(inbox))
    BY <1>1 DEF ReadHeader, Read, NextIs, IsHead
  <2>2. /\ Len(inbox') = Len(inbox) - 1 /\ Len(inbox) \in Nat \ {0}
        /\ Head(inbox) = inbox[1]
        /\ \A i \in 1..Len(inbox') : inbox'[i] = inbox[i + 1] /\ i + 1 \in 1..Len(inbox)
        /\ \A i \in 1..Len(inbox) : inbox[i].id \in Streams
    BY <2>1, InboxShrinks DEF TypeOK
  <2>3. \A i \in 1..Len(inbox') : IsHead(inbox'[i]) => pc'[inbox'[i].id] = "none"
    <3> SUFFICES ASSUME NEW i \in 1..Len(inbox'), IsHead(inbox'[i]), pc'[inbox'[i].id] # "none"
                 PROVE  FALSE
      OBVIOUS
    <3>1. pc[inbox'[i].id] = "none" /\ inbox'[i].id \in Streams
      BY <2>2 DEF HeadOnce
    <3>2. inbox[1].id = inbox'[i].id /\ EndsHead(inbox[1])
      BY <1>m, <2>1, <2>2, <3>1 DEF EndsHead, IsHead
    <3>3. i + 1 <= 1
      BY <2>2, <3>2 DEF HeadOnce
    <3> QED
      BY <3>3
  <2>4. ASSUME NEW i \in 1..Len(inbox'), EndsHead(inbox'[i])
        PROVE  \A j \in 1..Len(inbox') : IsHead(inbox'[j]) /\ inbox'[j].id = inbox'[i].id => j <= i
    <3> SUFFICES ASSUME NEW j \in 1..Len(inbox'), IsHead(inbox'[j]), inbox'[j].id = inbox'[i].id
                 PROVE  j <= i
      OBVIOUS
    <3>1. j + 1 <= i + 1
      BY <2>2, <2>4 DEF HeadOnce
    <3> QED
      BY <3>1
  <2>5. ASSUME NEW s \in Streams, pc'[s] # "none" PROVE request'[s] \notin {"idle", "head"}
    <3>1. CASE pc[s] # "none"
      BY <1>m, <3>1 DEF HeadOnce
    <3>2. CASE pc[s] = "none"
      <4>1. Head(inbox).id = s /\ EndsHead(Head(inbox))
        BY <1>m, <2>1, <2>5, <3>2 DEF EndsHead, IsHead
      <4>2. 1 \in 1..Len(inbox) /\ Head(inbox) = inbox[1]
        BY <2>2
      <4>3. inbox[1].id = s /\ EndsHead(inbox[1]) /\ IsHead(inbox[1])
        BY <2>1, <4>1, <4>2
      <4> QED
        BY <1>m, <4>2, <4>3 DEF HeadOnce
    <3> QED
      BY <3>1, <3>2
  <2>6. \A i \in 1..Len(inbox') : IsHead(inbox'[i]) => request'[inbox'[i].id] # "idle"
    BY <1>m, <2>2 DEF HeadOnce
  <2>7. \A i \in 1..Len(inbox') : EndsHead(inbox'[i]) => request'[inbox'[i].id] # "head"
    BY <1>m, <2>2 DEF HeadOnce
  <2> QED
    BY <2>3, <2>4, <2>5, <2>6, <2>7 DEF HeadOnce
<1>2. CASE ~ ReadHeader
  <2>p. \A s \in Streams : pc[s] = "none" <=> pc'[s] = "none"
    BY <1>m, <1>2
  <2>1. CASE inbox' = inbox
    BY <1>m, <2>1, <2>p, HeadOnceKept
  <2>2. CASE inbox' = <<>>
    BY <1>m, <2>2, <2>p DEF HeadOnce
  <2>3. CASE inbox # <<>> /\ inbox' = Tail(inbox)
    <3>1. /\ Len(inbox') = Len(inbox) - 1 /\ Len(inbox) \in Nat \ {0}
          /\ \A i \in 1..Len(inbox') : inbox'[i] = inbox[i + 1] /\ i + 1 \in 1..Len(inbox)
          /\ \A i \in 1..Len(inbox) : inbox[i].id \in Streams
      BY <2>3, InboxShrinks DEF TypeOK
    <3>2. \A i \in 1..Len(inbox') : IsHead(inbox'[i]) =>
            pc'[inbox'[i].id] = "none" /\ request'[inbox'[i].id] # "idle"
      BY <1>m, <2>p, <3>1 DEF HeadOnce
    <3>3. ASSUME NEW i \in 1..Len(inbox'), EndsHead(inbox'[i])
          PROVE  /\ request'[inbox'[i].id] # "head"
                 /\ \A j \in 1..Len(inbox') : IsHead(inbox'[j]) /\ inbox'[j].id = inbox'[i].id => j <= i
      <4>1. request'[inbox'[i].id] # "head"
        BY <1>m, <3>1, <3>3 DEF HeadOnce
      <4>2. ASSUME NEW j \in 1..Len(inbox'), IsHead(inbox'[j]), inbox'[j].id = inbox'[i].id PROVE j <= i
        <5>1. j + 1 <= i + 1
          BY <3>1, <3>3, <4>2 DEF HeadOnce
        <5> QED
          BY <5>1
      <4> QED
        BY <4>1, <4>2
    <3>4. \A s \in Streams : pc'[s] # "none" => request'[s] \notin {"idle", "head"}
      BY <1>m, <2>p DEF HeadOnce
    <3> QED
      BY <3>2, <3>3, <3>4 DEF HeadOnce
  <2> QED
    BY <1>m, <2>1, <2>2, <2>3
<1> QED
  BY <1>1, <1>2

LEMMA HeadOnceStep ==
  ASSUME TypeOK, HeadOnce, [Next]_vars
  PROVE  HeadOnce'
<1>p. pc \in [Streams -> TaskState]
  BY DEF TypeOK, AppTypeOK
<1>1. CASE ReaderStep \/ Cancel
  BY <1>1, ReaderHeadOnce
<1>2. CASE \E s \in Streams : RouterStep(s)
  BY <1>2, RouterHeadOnce
<1>3. ASSUME NEW s \in Streams, AppStep(s) \/ TaskStep(s) \/ CallTimeout(s) PROVE HeadOnce'
  <2>1. UNCHANGED <<inbox, request>>
    BY <1>3 DEF AppStep, TaskStep, AppStart, AppBody, AppReceive, AppReturn, AppRaise, AppBadStart, TaskStart,
         FrameSent, FrameFails, Woken, ResetSent, Receive, ReceiveAcked, TaskCancelled, CallTimeout,
         linkVars
  <2>2. \A t \in Streams : pc[t] = "none" <=> pc'[t] = "none"
    BY <1>3, <1>p, AppMoves DEF Moved
  <2> QED
    BY <2>1, <2>2, HeadOnceKept
<1>4. CASE LinkEnd \/ Get \/ Sent \/ SendFails \/ UNCHANGED vars
  <2>1. UNCHANGED <<inbox, request, pc>>
    BY <1>4 DEF LinkEnd, Get, Sent, SendFails, vars, linkVars, appVars
  <2> QED
    BY <2>1, HeadOnceKept
<1> QED
  BY <1>1, <1>2, <1>3, <1>4 DEF Next

LEMMA HeadOnceInit == Init => HeadOnce
BY DEF Init, HeadOnce

-----------------------------------------------------------------------------
(* Backpressure.                                                           *)

(* Where a task may be that has counted a frame beyond High: it has not    *)
(* gone on since.                                                          *)
Held == {"window", "woken", "cancelled", "done"}

Bounded ==
  \A s \in Streams :
    /\ state[s].pending <= High + 1
    /\ pc[s] \notin Held => state[s].pending <= High

(* Nothing is counted, and no task that was held goes on. *)
LEMMA BoundedKept ==
  ASSUME Bounded,
         \A s \in Streams : state'[s].pending = state[s].pending,
         \A s \in Streams : pc[s] \in Held => pc'[s] \in Held
  PROVE  Bounded'
BY DEF Bounded

LEMMA BoundedMove ==
  ASSUME TypeOK, Bounded, NEW s \in Streams, NEW q,
         pc' = [pc EXCEPT ![s] = q], pc[s] \notin Held \/ q \in Held,
         \A r \in Streams : state'[r].pending = state[r].pending
  PROVE  Bounded'
<1>1. \A r \in Streams : pc'[r] = (IF r = s THEN q ELSE pc[r])
  BY DEF TypeOK, AppTypeOK
<1> QED
  BY <1>1, BoundedKept

(* One stream counts what is within the bound of the place it goes to. *)
LEMMA BoundedCount ==
  ASSUME TypeOK, Bounded, NEW s \in Streams, NEW q, NEW n \in Nat,
         pc' = [pc EXCEPT ![s] = q],
         state'[s].pending = n,
         \A r \in Streams \ {s} : state'[r].pending = state[r].pending,
         n <= High + 1, n <= High \/ q \in Held
  PROVE  Bounded'
<1>1. \A r \in Streams : pc'[r] = (IF r = s THEN q ELSE pc[r])
  BY DEF TypeOK, AppTypeOK
<1>2. pc'[s] = q /\ \A r \in Streams \ {s} : pc'[r] = pc[r]
  BY <1>1
<1> QED
  BY <1>2 DEF Bounded

LEMMA ReaderBounded ==
  ASSUME TypeOK, HeadOnce, Bounded, ReaderStep \/ Cancel
  PROVE  Bounded'
<1>p. TasksTypeOK /\ DataTypeOK
  BY AppTypeParts DEF TypeOK
<1>n. \A s \in Streams : state[s].pending \in Nat
  BY <1>p DEF DataTypeOK, StreamState
<1>u. UNCHANGED <<pc, state>> => Bounded'
  BY BoundedKept
<1>c. ASSUME NEW S \in SUBSET Streams, CloseFromRouter(S) PROVE Bounded'
  <2>1. \A s \in Streams : pc[s] \in Held => pc'[s] \in Held
    BY <1>c DEF CloseFromRouter, Cancelled, Held
  <2>2. \A s \in Streams : state'[s].pending = state[s].pending
    BY <1>c, <1>p DEF CloseFromRouter, DataTypeOK, StreamState
  <2> QED
    BY <2>1, <2>2, BoundedKept
<1>e. ASSUME NEW how, EndSession(how) PROVE Bounded'
  BY <1>c, <1>e DEF EndSession, TypeOK, ReaderTypeOK
<1>1. CASE ReadHeader
  <2> DEFINE f == Head(inbox)
  <2>1. f.id \in Streams
    BY <1>1, InboxHead DEF ReadHeader, Read, NextIs, TypeOK
  <2>2. \A s \in Streams : state'[s].pending = state[s].pending
    BY <1>1, <1>p, <2>1 DEF ReadHeader, DataTypeOK, StreamState
  <2>3. pc[f.id] = "none"
    <3>1. inbox # <<>> /\ IsHead(f)
      BY <1>1 DEF ReadHeader, Read, NextIs, IsHead
    <3>2. 1 \in 1..Len(inbox) /\ f = inbox[1]
      BY <3>1 DEF TypeOK, LinkTypeOK
    <3> QED
      BY <3>1, <3>2 DEF HeadOnce
  <2>4. pc' = [pc EXCEPT ![f.id] = IF "HEADER_END" \in f.flags THEN "created" ELSE pc[f.id]]
    BY <1>1 DEF ReadHeader
  <2> HIDE DEF f
  <2> QED
    BY <2>1, <2>2, <2>3, <2>4, BoundedMove DEF Held
<1>2. CASE ReadData
  <2>1. \A s \in Streams : state'[s].pending = state[s].pending
    BY <1>2, <1>p DEF ReadData, DataTypeOK, StreamState
  <2> QED
    BY <1>2, <2>1, BoundedKept DEF ReadData
<1>3. CASE ReadWindowUpdate
  <2> DEFINE s == Head(inbox).id
             left == AfterAck(state[s].pending, Head(inbox).payload)
  <2>1. s \in Streams /\ Head(inbox).payload \in Nat
    BY <1>3, InboxHead DEF ReadWindowUpdate, Read, NextIs, TypeOK
  <2>2. CASE s \notin streams
    BY <1>3, <1>u, <2>2 DEF ReadWindowUpdate
  <2>3. CASE s \in streams
    <3>1. left \in Nat /\ left <= state[s].pending
      BY <1>n, <2>1 DEF AfterAck
    <3> HIDE DEF left
    <3>2. state' = [state EXCEPT ![s].pending = left]
      BY <1>3, <2>3 DEF ReadWindowUpdate, left
    <3>3. PICK q \in {"woken", pc[s]} : pc' = [pc EXCEPT ![s] = q] /\ (q = "woken" => pc[s] \in Held)
      BY <1>3, <2>3 DEF ReadWindowUpdate, left, Held
    <3>4. state'[s].pending = left /\ \A r \in Streams \ {s} : state'[r].pending = state[r].pending
      BY <1>p, <2>1, <3>2 DEF DataTypeOK, StreamState
    <3>5. left <= High + 1 /\ (left <= High \/ q \in Held)
      BY <1>n, <2>1, <3>1, <3>3, SessionAssumption DEF Bounded, Held
    <3> HIDE DEF s
    <3> QED
      BY <2>1, <3>1, <3>3, <3>4, <3>5, BoundedCount
  <2> QED
    BY <2>2, <2>3
<1>4. CASE ReadReset
  BY <1>4, <1>c DEF ReadReset, TypeOK, ReaderTypeOK
<1>5. CASE ReadBad \/ ReadEnd \/ AckFails
  BY <1>5, <1>e DEF ReadBad, ReadEnd, AckFails
<1>6. CASE AckSent \/ Join
  BY <1>6, <1>u DEF AckSent, Join, appVars
<1>7. CASE Cancel
  BY <1>7, <1>e, <1>u DEF Cancel, appVars
<1> QED
  BY <1>1, <1>2, <1>3, <1>4, <1>5, <1>6, <1>7 DEF ReaderStep

(* A task that gives up waiting for the window goes on beyond High. *)
LEMMA AppBounded ==
  ASSUME "timeout" \notin AppMay, TypeOK, Bounded,
         NEW s \in Streams, AppStep(s) \/ TaskStep(s) \/ CallTimeout(s)
  PROVE  Bounded'
<1>p. TasksTypeOK /\ DataTypeOK
  BY AppTypeParts DEF TypeOK
<1>n. state[s].pending \in Nat /\ state[s].pending <= High + 1 /\ High \in Nat
  BY <1>p, SessionAssumption DEF DataTypeOK, StreamState, Bounded
<1>f. ASSUME NEW pending \in Nat, pending <= High, AfterFrame(s, pending) PROVE Bounded'
  <2>1. \E q \in {"send", "running", "done"} : pc' = [pc EXCEPT ![s] = q]
    BY <1>f DEF AfterFrame, Finish
  <2>2. state'[s].pending = pending /\ \A r \in Streams \ {s} : state'[r].pending = state[r].pending
    BY <1>f, <1>p DEF AfterFrame, DataTypeOK, StreamState
  <2>3. pending <= High + 1
    BY <1>f, <1>n
  <2> QED
    BY <1>f, <2>1, <2>2, <2>3, BoundedCount
<1>1. CASE FrameSent(s)
  <2> DEFINE payload == Head(todo[s]).payload
             pending == state[s].pending + payload
  <2>1. payload \in 0..1
    <3>1. todo[s] # <<>>
      BY <1>1, <1>p DEF FrameSent, TasksTypeOK
    <3> QED
      BY <3>1, TodoHead DEF TypeOK
  <2>2. state[s].pending <= High
    BY <1>1 DEF FrameSent, Bounded, Held
  <2> HIDE DEF payload
  <2>3. pending \in Nat /\ pending <= High + 1
    BY <1>n, <2>1, <2>2
  <2>4. CASE payload > 0 /\ MustWait(pending)
    <3>1. pc' = [pc EXCEPT ![s] = "window"] /\ state' = [state EXCEPT ![s].pending = pending]
      BY <1>1, <2>4 DEF FrameSent, payload
    <3>2. state'[s].pending = pending /\ \A r \in Streams \ {s} : state'[r].pending = state[r].pending
      BY <1>p, <3>1 DEF DataTypeOK, StreamState
    <3> HIDE DEF pending
    <3> QED
      BY <2>3, <3>1, <3>2, BoundedCount DEF Held
  <2>5. CASE ~ (payload > 0 /\ MustWait(pending))
    <3>1. AfterFrame(s, pending)
      BY <1>1, <2>5 DEF FrameSent, payload
    <3>2. pending <= High
      BY <1>n, <2>1, <2>2, <2>5 DEF MustWait
    <3> QED
      BY <1>f, <2>3, <3>1, <3>2
  <2> QED
    BY <2>4, <2>5
<1>2. CASE Woken(s)
  <2>1. CASE MustWait(state[s].pending)
    BY <1>2, <2>1, BoundedMove DEF Woken, Held
  <2>2. CASE ~ MustWait(state[s].pending)
    BY <1>2, <1>f, <1>n, <2>2 DEF Woken, MustWait
  <2> QED
    BY <2>1, <2>2
<1>3. CASE AppStart(s) \/ AppBody(s) \/ AppReturn(s) \/ TaskStart(s)
  <2>1. PICK q : pc' = [pc EXCEPT ![s] = q]
    BY <1>3 DEF AppStart, AppBody, AppReturn, TaskStart, AutoResponse, StartSending, Finish
  <2>2. \A r \in Streams : state'[r].pending = state[r].pending
    <3>1. state' = state \/ state' = [state EXCEPT ![s].started = TRUE]
      BY <1>3 DEF AppStart, AppBody, AppReturn, TaskStart, AutoResponse
    <3>2. state \in [Streams -> StreamState]
      BY <1>p DEF DataTypeOK
    <3>3. CASE state' = [state EXCEPT ![s].started = TRUE]
      BY <3>2, <3>3 DEF StreamState
    <3> QED
      BY <3>1, <3>3
  <2>3. pc[s] \notin Held
    BY <1>3 DEF AppStart, AppBody, AppReturn, TaskStart, Held
  <2> QED
    BY <2>1, <2>2, <2>3, BoundedMove
<1>4. CASE AppReceive(s) \/ AppRaise(s) \/ FrameFails(s) \/ ResetSent(s) \/ ReceiveAcked(s)
           \/ TaskCancelled(s)
  <2>1. PICK q : pc' = [pc EXCEPT ![s] = q] /\ (pc[s] = "cancelled" => q = "done")
    BY <1>4 DEF AppReceive, AppRaise, FrameFails, ResetSent, ReceiveAcked, TaskCancelled, Raise, Finish
  <2>2. state' = state
    BY <1>4 DEF AppReceive, AppRaise, FrameFails, ResetSent, ReceiveAcked, TaskCancelled
  <2>3. pc[s] \notin Held \/ pc[s] = "cancelled"
    BY <1>4 DEF AppReceive, AppRaise, FrameFails, ResetSent, ReceiveAcked, TaskCancelled, Held
  <2>4. pc[s] \notin Held \/ q \in Held
    BY <2>1, <2>3 DEF Held
  <2> QED
    BY <2>1, <2>2, <2>4, BoundedMove
<1>5. CASE Receive(s)
  <2>1. PICK q : pc' = [pc EXCEPT ![s] = q]
    BY <1>5 DEF Receive
  <2>2. \A r \in Streams : state'[r].pending = state[r].pending
    BY <1>5, <1>p DEF Receive, DataTypeOK, StreamState
  <2>3. pc[s] \notin Held
    BY <1>5 DEF Receive, Held
  <2> QED
    BY <2>1, <2>2, <2>3, BoundedMove
<1>6. CASE AppBadStart(s)
  <2>1. state' = [state EXCEPT ![s].started = TRUE] /\ pc[s] = "running"
    BY <1>6 DEF AppBadStart
  <2>2. \A r \in Streams : state'[r].pending = state[r].pending
    BY <1>p, <2>1 DEF DataTypeOK, StreamState
  <2>3. pc' = pc \/ \E q : pc' = [pc EXCEPT ![s] = q]
    BY <1>6 DEF AppBadStart, Raise, Finish
  <2> QED
    BY <2>1, <2>2, <2>3, BoundedKept, BoundedMove DEF Held
<1> QED
  BY <1>1, <1>2, <1>3, <1>4, <1>5, <1>6 DEF AppStep, TaskStep, CallTimeout

LEMMA BoundedStep ==
  ASSUME "timeout" \notin AppMay, TypeOK, HeadOnce, Bounded, [Next]_vars
  PROVE  Bounded'
<1>1. CASE ReaderStep \/ Cancel
  BY <1>1, ReaderBounded
<1>2. ASSUME NEW s \in Streams, AppStep(s) \/ TaskStep(s) \/ CallTimeout(s) PROVE Bounded'
  BY <1>2, AppBounded
<1>3. ASSUME NEW s \in Streams, RouterStep(s) PROVE Bounded'
  BY <1>3, BoundedKept
     DEF RouterStep, RouterHeader, RouterData, RouterReset, RouterAck, RouterBad, appVars
<1>4. CASE LinkEnd \/ Get \/ Sent \/ SendFails \/ UNCHANGED vars
  BY <1>4, BoundedKept DEF LinkEnd, Get, Sent, SendFails, vars, appVars
<1> QED
  BY <1>1, <1>2, <1>3, <1>4 DEF Next

(***************************************************************************)
(* A stream never has more than one frame beyond High unacknowledged,      *)
(* whatever the app sends in one message and whenever it is woken, as long *)
(* as it gives no send up.                                                 *)
(***************************************************************************)
THEOREM BackpressureHolds == "timeout" \notin AppMay /\ SafeSpec => []Backpressure
<1> SUFFICES ASSUME "timeout" \notin AppMay PROVE SafeSpec => []Backpressure
  OBVIOUS
<1>1. Init => HeadOnce /\ Bounded
  BY SessionAssumption DEF Init, HeadOnce, Bounded
<1>2. TypeOK /\ (HeadOnce /\ Bounded) /\ [Next]_vars => (HeadOnce /\ Bounded)'
  BY HeadOnceStep, BoundedStep
<1>3. TypeOK /\ Bounded => Backpressure
  BY DEF TypeOK, ReaderTypeOK, Bounded, Backpressure
<1> QED
  BY <1>1, <1>2, <1>3, TypeCorrect, PTL DEF SafeSpec

-----------------------------------------------------------------------------
(* The count of the requests under way.                                    *)

Requests == {s \in Streams : InRequest(s)}

(* The reader only waits for an ack while a task that it has created may   *)
(* not have run yet: it never cancels one before its first step, so that   *)
(* no request is left without being entered.                               *)
Counted ==
  /\ reader # "ack" => CreatedHaveRun
  /\ IsFiniteSet(Requests)
  /\ active = Cardinality(Requests)

(* Nobody enters or leaves a request. *)
LEMMA CountedKept ==
  ASSUME Counted, active' = active, \A s \in Streams : InRequest(s)' <=> InRequest(s),
         reader' # "ack" => CreatedHaveRun'
  PROVE  Counted'
<1>1. Requests' = Requests
  BY DEF Requests
<1> QED
  BY <1>1 DEF Counted

LEMMA CountedMove ==
  ASSUME TypeOK, Counted, NEW s \in Streams, Moved(s), reader' = reader
  PROVE  Counted'
<1>1. PICK q \in TaskState \ {"none", "created", "cancelled"} :
        /\ pc' = [pc EXCEPT ![s] = q]
        /\ pc[s] \notin {"none", "done"}
        /\ \/ pc[s] = "created" /\ q # "done" /\ active' = active + 1
           \/ pc[s] # "created" /\ q = "done" /\ active' = (IF active > 0 THEN active - 1 ELSE 0)
           \/ pc[s] # "created" /\ q # "done" /\ active' = active
  BY DEF Moved
<1>2. pc'[s] = q /\ \A r \in Streams \ {s} : pc'[r] = pc[r]
  BY <1>1 DEF TypeOK, AppTypeOK
<1>3. reader' # "ack" => CreatedHaveRun'
  BY <1>1, <1>2 DEF Counted, CreatedHaveRun
<1>c. IsFiniteSet(Requests) /\ active = Cardinality(Requests) /\ Cardinality(Requests) \in Nat
  BY FS_CardinalityType DEF Counted
<1>4. CASE pc[s] = "created" /\ q # "done" /\ active' = active + 1
  <2>1. s \notin Requests /\ Requests' = Requests \cup {s}
    BY <1>1, <1>2, <1>4 DEF Requests, InRequest
  <2>2. IsFiniteSet(Requests') /\ Cardinality(Requests') = Cardinality(Requests) + 1
    BY <1>c, <2>1, FS_AddElement
  <2> QED
    BY <1>3, <1>4, <1>c, <2>2 DEF Counted
<1>5. CASE pc[s] # "created" /\ q = "done" /\ active' = (IF active > 0 THEN active - 1 ELSE 0)
  <2>1. s \in Requests /\ Requests' = Requests \ {s}
    BY <1>1, <1>2, <1>5 DEF Requests, InRequest
  <2>2. IsFiniteSet(Requests') /\ Cardinality(Requests') = Cardinality(Requests) - 1
    BY <1>c, <2>1, FS_RemoveElement
  <2>3. Cardinality(Requests') \in Nat
    BY <2>2, FS_CardinalityType
  <2>4. active' = Cardinality(Requests')
    BY <1>5, <1>c, <2>2, <2>3
  <2> QED
    BY <1>3, <2>2, <2>4 DEF Counted
<1>6. CASE pc[s] # "created" /\ q # "done" /\ active' = active
  <2>1. \A r \in Streams : InRequest(r)' <=> InRequest(r)
    BY <1>1, <1>2, <1>6 DEF InRequest
  <2> QED
    BY <1>3, <1>6, <2>1, CountedKept
<1> QED
  BY <1>1, <1>4, <1>5, <1>6

LEMMA ReaderCounted ==
  ASSUME TypeOK, HeadOnce, Counted, ReaderStep \/ Cancel
  PROVE  Counted'
<1>p. pc \in [Streams -> TaskState]
  BY DEF TypeOK, AppTypeOK
<1>u. UNCHANGED <<pc, active>> /\ (reader' # "ack" => CreatedHaveRun) => Counted'
  BY CountedKept DEF InRequest, CreatedHaveRun
<1>c. ASSUME NEW S \in SUBSET Streams, CloseFromRouter(S), CreatedHaveRun PROVE Counted'
  <2>1. \A s \in Streams : InRequest(s)' <=> InRequest(s)
    BY <1>c DEF CloseFromRouter, Cancelled, InRequest, CreatedHaveRun
  <2>2. CreatedHaveRun'
    BY <1>c DEF CloseFromRouter, Cancelled, CreatedHaveRun
  <2>3. active' = active
    BY <1>c DEF CloseFromRouter
  <2> QED
    BY <2>1, <2>2, <2>3, CountedKept
<1>e. ASSUME NEW how, EndSession(how), CreatedHaveRun PROVE Counted'
  BY <1>c, <1>e DEF EndSession, TypeOK, ReaderTypeOK
<1>r. reader = "recv" => CreatedHaveRun
  BY DEF Counted
<1>1. CASE ReadHeader
  <2> DEFINE f == Head(inbox)
  <2>1. f.id \in Streams
    BY <1>1, InboxHead DEF ReadHeader, Read, NextIs, TypeOK
  <2>2. pc[f.id] = "none"
    <3>1. inbox # <<>> /\ IsHead(f)
      BY <1>1 DEF ReadHeader, Read, NextIs, IsHead
    <3>2. 1 \in 1..Len(inbox) /\ f = inbox[1]
      BY <3>1 DEF TypeOK, LinkTypeOK
    <3> QED
      BY <3>1, <3>2 DEF HeadOnce
  <2>3. pc' = [pc EXCEPT ![f.id] = IF "HEADER_END" \in f.flags THEN "created" ELSE pc[f.id]]
    BY <1>1 DEF ReadHeader
  <2> HIDE DEF f
  <2>4. \A s \in Streams : InRequest(s)' <=> InRequest(s)
    BY <1>p, <2>1, <2>2, <2>3 DEF InRequest
  <2> QED
    BY <1>1, <2>4, CountedKept DEF ReadHeader
<1>2. CASE ReadData
  BY <1>2, <1>u, <1>r DEF ReadData, Read, NextIs
<1>3. CASE ReadWindowUpdate
  <2>1. \A s \in Streams : pc'[s] = pc[s] \/ (pc[s] = "window" /\ pc'[s] = "woken")
    BY <1>3, <1>p DEF ReadWindowUpdate
  <2>2. CreatedHaveRun'
    BY <1>3, <1>r, <2>1 DEF ReadWindowUpdate, Read, NextIs, CreatedHaveRun
  <2>3. \A s \in Streams : InRequest(s)' <=> InRequest(s)
    BY <2>1 DEF InRequest
  <2> QED
    BY <1>3, <2>2, <2>3, CountedKept DEF ReadWindowUpdate
<1>4. CASE ReadReset
  BY <1>4, <1>c, <1>r DEF ReadReset, Read, NextIs, TypeOK, ReaderTypeOK
<1>5. CASE ReadBad \/ ReadEnd \/ AckFails
  BY <1>5, <1>e, <1>r DEF ReadBad, ReadEnd, AckFails, NextIs
<1>6. CASE AckSent \/ Join
  BY <1>6, <1>u DEF AckSent, Join, appVars, Counted
<1>7. CASE Cancel
  <2>1. CASE SessionOpen /\ (reader = "ack" => CreatedHaveRun) /\ EndSession("cancelled")
    BY <1>e, <1>r, <2>1 DEF SessionOpen
  <2>2. CASE reader = "join" /\ UNCHANGED appVars
    BY <1>u, <2>2 DEF appVars, Counted
  <2> QED
    BY <1>7, <2>1, <2>2 DEF Cancel
<1> QED
  BY <1>1, <1>2, <1>3, <1>4, <1>5, <1>6, <1>7 DEF ReaderStep

LEMMA CountedStep ==
  ASSUME TypeOK, HeadOnce, Counted, [Next]_vars
  PROVE  Counted'
<1>u. UNCHANGED <<pc, active, reader>> => Counted'
  BY CountedKept DEF InRequest, CreatedHaveRun, Counted
<1>1. CASE ReaderStep \/ Cancel
  BY <1>1, ReaderCounted
<1>2. ASSUME NEW s \in Streams, AppStep(s) \/ TaskStep(s) \/ CallTimeout(s) PROVE Counted'
  <2>1. reader' = reader
    BY <1>2 DEF AppStep, TaskStep, AppStart, AppBody, AppReceive, AppReturn, AppRaise, AppBadStart, TaskStart,
         FrameSent, FrameFails, Woken, ResetSent, Receive, ReceiveAcked, TaskCancelled, CallTimeout,
         sessionVars
  <2> QED
    BY <1>2, <2>1, AppMoves, CountedMove
<1>3. ASSUME NEW s \in Streams, RouterStep(s) PROVE Counted'
  BY <1>3, <1>u
     DEF RouterStep, RouterHeader, RouterData, RouterReset, RouterAck, RouterBad, appVars, sessionVars
<1>4. CASE LinkEnd \/ Get \/ Sent \/ SendFails \/ UNCHANGED vars
  BY <1>4, <1>u DEF LinkEnd, Get, Sent, SendFails, vars, appVars, sessionVars
<1> QED
  BY <1>1, <1>2, <1>3, <1>4 DEF Next

(***************************************************************************)
(* The count that shutdown waits for is the number of requests under way:  *)
(* each one that is entered is left, through its end, an exception or a    *)
(* cancellation, and none is left that was never entered.                  *)
(***************************************************************************)
THEOREM ActiveCountHolds == SafeSpec => []ActiveCount
<1>1. Init => HeadOnce /\ Counted
  <2> SUFFICES ASSUME Init PROVE HeadOnce /\ Counted
    OBVIOUS
  <2>1. Requests = {} /\ CreatedHaveRun
    BY DEF Init, Requests, InRequest, CreatedHaveRun
  <2>2. active = 0
    BY DEF Init
  <2> QED
    BY <2>1, <2>2, FS_EmptySet DEF Counted, Init, HeadOnce
<1>2. TypeOK /\ (HeadOnce /\ Counted) /\ [Next]_vars => (HeadOnce /\ Counted)'
  BY HeadOnceStep, CountedStep
<1>3. Counted => ActiveCount
  BY DEF Counted, ActiveCount, Requests
<1> QED
  BY <1>1, <1>2, <1>3, TypeCorrect, PTL DEF SafeSpec

-----------------------------------------------------------------------------
(* Sums over sequences.                                                    *)

LEMMA NatLessIsWellFounded == IsWellFoundedOn({p \in Nat \X Nat : p[1] < p[2]}, Nat)
BY NatLessThanWellFounded, Zenon DEF OpToRel

(* Induction over the natural numbers for a set: the complement would have *)
(* a least element.                                                        *)
LEMMA Induction ==
  ASSUME NEW S, 0 \in S, \A n \in Nat : n \in S => n + 1 \in S
  PROVE  Nat \subseteq S
<1> DEFINE R == {p \in Nat \X Nat : p[1] < p[2]}
<1>1. SUFFICES ASSUME Nat \ S # {} PROVE FALSE
  OBVIOUS
<1>2. PICK n \in Nat \ S : \A m \in Nat \ S : <<m, n>> \notin R
  <2>1. IsWellFoundedOn(R, Nat)
    BY NatLessIsWellFounded
  <2> HIDE DEF R
  <2> QED
    BY <1>1, <2>1, WFMin
<1>3. n # 0 /\ n - 1 \in Nat /\ <<n - 1, n>> \in R /\ (n - 1) + 1 = n
  OBVIOUS
<1>4. n - 1 \in S
  BY <1>2, <1>3
<1> QED
  BY <1>2, <1>3, <1>4

(* g has the sums of the first elements of f. *)
Sums(g, f) == g = [n \in 0..Len(f) |-> IF n = 0 THEN 0 ELSE g[n - 1] + f[n]]

(* The same, by what g has at each place. *)
Adds(g, f, m) ==
  /\ g \in [0..m -> Nat]
  /\ g[0] = 0
  /\ \A n \in 1..m : g[n] = g[n - 1] + f[n]

LEMMA SumsExist ==
  ASSUME NEW f \in Seq(Nat)
  PROVE  \E g : Adds(g, f, Len(f))
<1> DEFINE S == {m \in Nat : m <= Len(f) => \E g : Adds(g, f, m)}
<1>1. 0 \in S
  <2>1. Adds([n \in 0..0 |-> 0], f, 0)
    BY DEF Adds
  <2> QED
    BY <2>1
<1>2. ASSUME NEW m \in Nat, m \in S PROVE m + 1 \in S
  <2> SUFFICES ASSUME m + 1 <= Len(f) PROVE \E g : Adds(g, f, m + 1)
    OBVIOUS
  <2>1. PICK g : Adds(g, f, m)
    BY <1>2
  <2> DEFINE h == [n \in 0..(m + 1) |-> IF n = m + 1 THEN g[m] + f[m + 1] ELSE g[n]]
  <2>2. g \in [0..m -> Nat] /\ g[m] \in Nat /\ f[m + 1] \in Nat
    BY <2>1 DEF Adds
  <2>3. h \in [0..(m + 1) -> Nat] /\ h[m + 1] = g[m] + f[m + 1] /\ \A n \in 0..m : h[n] = g[n]
    BY <2>2
  <2> HIDE DEF h
  <2>4. ASSUME NEW n \in 1..(m + 1) PROVE h[n] = h[n - 1] + f[n]
    <3>1. CASE n = m + 1
      BY <2>3, <3>1
    <3>2. CASE n \in 1..m
      <4>1. g[n] = g[n - 1] + f[n]
        BY <2>1, <3>2 DEF Adds
      <4>2. n \in 0..m /\ n - 1 \in 0..m
        BY <3>2
      <4> QED
        BY <2>3, <4>1, <4>2
    <3> QED
      BY <3>1, <3>2
  <2>5. Adds(h, f, m + 1)
    <3>1. h[0] = 0
      BY <2>1, <2>3 DEF Adds
    <3> QED
      BY <2>3, <2>4, <3>1 DEF Adds
  <2> QED
    BY <2>5
<1> HIDE DEF S
<1>3. Nat \subseteq S
  BY <1>1, <1>2, Induction
<1> QED
  BY <1>3 DEF S

LEMMA SumsAgree ==
  ASSUME NEW f \in Seq(Nat), NEW g, NEW h, Adds(g, f, Len(f)), Sums(h, f)
  PROVE  h[Len(f)] = g[Len(f)]
<1> DEFINE S == {m \in Nat : m <= Len(f) => h[m] = g[m]}
<1>1. 0 \in S
  BY DEF Adds, Sums
<1>2. ASSUME NEW m \in Nat, m \in S PROVE m + 1 \in S
  <2> SUFFICES ASSUME m + 1 <= Len(f) PROVE h[m + 1] = g[m + 1]
    OBVIOUS
  <2>1. \A n \in 0..Len(f) : h[n] = IF n = 0 THEN 0 ELSE h[n - 1] + f[n]
    BY DEF Sums
  <2>2. h[m + 1] = h[m] + f[m + 1]
    BY <2>1
  <2>3. g[m + 1] = g[m] + f[m + 1]
    BY DEF Adds
  <2> QED
    BY <1>2, <2>2, <2>3
<1> HIDE DEF S
<1>3. Nat \subseteq S
  BY <1>1, <1>2, Induction
<1>4. Len(f) \in S
  BY <1>3
<1> QED
  BY <1>4 DEF S

(* A function that adds f up has its total. *)
LEMMA TotalIs ==
  ASSUME NEW f \in Seq(Nat), NEW g, Adds(g, f, Len(f))
  PROVE  Total(f) = g[Len(f)]
<1>1. Sums(g, f)
  <2>1. \A n \in 0..Len(f) : n # 0 => n \in 1..Len(f)
    OBVIOUS
  <2>2. \A n \in 0..Len(f) : g[n] = IF n = 0 THEN 0 ELSE g[n - 1] + f[n]
    BY <2>1 DEF Adds
  <2>3. g = [n \in 0..Len(f) |-> g[n]]
    BY DEF Adds
  <2> QED
    BY <2>2, <2>3 DEF Sums
<1> DEFINE h == CHOOSE k : Sums(k, f)
<1>2. Sums(h, f)
  BY <1>1
<1>3. Total(f) = h[Len(f)]
  BY DEF Total, Sums
<1> HIDE DEF h
<1> QED
  BY <1>2, <1>3, SumsAgree

LEMMA TotalType == \A f \in Seq(Nat) : Total(f) \in Nat
<1> SUFFICES ASSUME NEW f \in Seq(Nat) PROVE Total(f) \in Nat
  OBVIOUS
<1>1. PICK g : Adds(g, f, Len(f))
  BY SumsExist
<1>2. Total(f) = g[Len(f)]
  BY <1>1, TotalIs
<1> QED
  BY <1>1, <1>2 DEF Adds

LEMMA TotalEmpty == Total(<<>>) = 0
<1> DEFINE f == <<>>
<1>1. f \in Seq(Nat) /\ Len(f) = 0
  OBVIOUS
<1> HIDE DEF f
<1>2. PICK g : Adds(g, f, Len(f))
  BY <1>1, SumsExist
<1>3. Total(f) = g[Len(f)]
  BY <1>1, <1>2, TotalIs
<1> QED
  BY <1>1, <1>2, <1>3 DEF Adds, f

LEMMA TotalAppend ==
  ASSUME NEW f \in Seq(Nat), NEW e \in Nat
  PROVE  Total(Append(f, e)) = Total(f) + e
<1>1. PICK g : Adds(g, f, Len(f))
  BY SumsExist
<1> DEFINE a == Append(f, e)
           h == [n \in 0..(Len(f) + 1) |-> IF n = Len(f) + 1 THEN g[Len(f)] + e ELSE g[n]]
<1>2. /\ a \in Seq(Nat) /\ Len(a) = Len(f) + 1 /\ a[Len(f) + 1] = e
      /\ \A n \in 1..Len(f) : a[n] = f[n]
      /\ Len(f) \in Nat
  OBVIOUS
<1>3. g \in [0..Len(f) -> Nat] /\ g[Len(f)] \in Nat
  BY <1>1, <1>2 DEF Adds
<1>4. /\ h \in [0..(Len(f) + 1) -> Nat] /\ h[Len(f) + 1] = g[Len(f)] + e
      /\ \A n \in 0..Len(f) : h[n] = g[n]
  BY <1>2, <1>3
<1> HIDE DEF a, h
<1>5. \A n \in 1..(Len(f) + 1) : n = Len(f) + 1 \/ (n \in 1..Len(f) /\ n - 1 \in 0..Len(f))
  BY <1>2
<1>6. Adds(h, a, Len(a))
  <2>1. h[0] = 0
    BY <1>1, <1>2, <1>4 DEF Adds
  <2>2. ASSUME NEW n \in 1..(Len(f) + 1) PROVE h[n] = h[n - 1] + a[n]
    <3>1. CASE n = Len(f) + 1
      BY <1>2, <1>4, <3>1
    <3>2. CASE n \in 1..Len(f) /\ n - 1 \in 0..Len(f)
      <4>1. g[n] = g[n - 1] + f[n]
        BY <1>1, <3>2 DEF Adds
      <4>2. n \in 0..Len(f)
        BY <1>2, <3>2
      <4> QED
        BY <1>2, <1>4, <3>2, <4>1, <4>2
    <3> QED
      BY <1>5, <3>1, <3>2
  <2> QED
    BY <1>2, <1>4, <2>1, <2>2 DEF Adds
<1>7. Total(a) = h[Len(a)] /\ Total(f) = g[Len(f)]
  BY <1>1, <1>2, <1>6, TotalIs
<1> QED
  BY <1>2, <1>4, <1>7 DEF a

LEMMA TotalTail ==
  ASSUME NEW f \in Seq(Nat), f # <<>>
  PROVE  Total(f) = Head(f) + Total(Tail(f))
<1> DEFINE t == Tail(f)
<1>2. /\ t \in Seq(Nat) /\ Len(f) = Len(t) + 1 /\ Head(f) = f[1] /\ f[1] \in Nat
      /\ \A n \in 1..Len(t) : t[n] = f[n + 1] /\ t[n] \in Nat
      /\ Len(t) \in Nat
  OBVIOUS
<1> HIDE DEF t
<1>1. PICK g : Adds(g, t, Len(t))
  BY <1>2, SumsExist
<1> DEFINE h == [n \in 0..(Len(t) + 1) |-> IF n = 0 THEN 0 ELSE f[1] + g[n - 1]]
<1>3. g \in [0..Len(t) -> Nat] /\ g[0] = 0
  BY <1>1, <1>2 DEF Adds
<1>a. \A n \in 0..(Len(t) + 1) : n # 0 => n - 1 \in 0..Len(t)
  BY <1>2
<1>b. \A n \in 0..(Len(t) + 1) : h[n] = IF n = 0 THEN 0 ELSE f[1] + g[n - 1]
  OBVIOUS
<1>c. \A n \in 0..(Len(t) + 1) : h[n] \in Nat
  <2> SUFFICES ASSUME NEW n \in 0..(Len(t) + 1) PROVE h[n] \in Nat
    OBVIOUS
  <2> HIDE DEF h
  <2>1. CASE n = 0
    BY <1>b, <2>1
  <2>2. CASE n # 0
    <3>1. g[n - 1] \in Nat /\ f[1] \in Nat
      BY <1>2, <1>3, <1>a, <2>2
    <3> QED
      BY <1>b, <2>2, <3>1
  <2> QED
    BY <2>1, <2>2
<1>d. h \in [0..(Len(t) + 1) -> Nat]
  BY <1>c
<1>e. ASSUME NEW n \in 0..Len(t) PROVE h[n + 1] = f[1] + g[n] /\ g[n] \in Nat
  <2>1. n + 1 \in 0..(Len(t) + 1) /\ n + 1 # 0 /\ (n + 1) - 1 = n
    BY <1>2
  <2> HIDE DEF h
  <2> QED
    BY <1>3, <1>b, <2>1
<1>4. /\ h \in [0..(Len(t) + 1) -> Nat] /\ h[0] = 0
      /\ \A n \in 0..Len(t) : h[n + 1] = f[1] + g[n] /\ g[n] \in Nat
  <2>1. 0 \in 0..(Len(t) + 1)
    BY <1>2
  <2> HIDE DEF h
  <2> QED
    BY <1>b, <1>d, <1>e, <2>1
<1> HIDE DEF h
<1>6. Adds(h, f, Len(f))
  <2>2. ASSUME NEW n \in 1..(Len(t) + 1) PROVE h[n] = h[n - 1] + f[n]
    <3>1. CASE n = 1
      <4>1. h[0 + 1] = f[1] + g[0]
        BY <1>2, <1>4
      <4> QED
        BY <1>2, <1>3, <1>4, <3>1, <4>1
    <3>2. CASE n \in 2..(Len(t) + 1)
      <4>1. PICK k \in 1..Len(t) : n = k + 1
        BY <1>2, <3>2
      <4>2. g[k] = g[k - 1] + f[k + 1]
        BY <1>1, <1>2 DEF Adds
      <4>3. k - 1 \in 0..Len(t) /\ k \in 0..Len(t) /\ (k - 1) + 1 = k
        BY <1>2
      <4>4. h[k + 1] = f[1] + g[k] /\ h[k] = f[1] + g[k - 1] /\ g[k - 1] \in Nat
        BY <1>4, <4>3
      <4>5. f[k + 1] \in Nat
        BY <1>2
      <4> QED
        BY <1>2, <4>1, <4>2, <4>4, <4>5
    <3> QED
      BY <1>2, <3>1, <3>2
  <2> QED
    BY <1>2, <1>4, <2>2 DEF Adds
<1>7. Total(t) = g[Len(t)] /\ Total(f) = h[Len(f)]
  BY <1>1, <1>2, <1>6, TotalIs
<1>8. Len(t) \in 0..Len(t)
  BY <1>2
<1> QED
  BY <1>2, <1>4, <1>7, <1>8 DEF t

(* What the elements of q weigh together. *)
Weight(w, q) == Total([i \in DOMAIN q |-> w[q[i]]])

LEMMA WeightForm ==
  ASSUME NEW T, NEW w \in [T -> Nat], NEW q \in Seq(T), NEW f, f = [i \in DOMAIN q |-> w[q[i]]]
  PROVE  f \in Seq(Nat) /\ Len(f) = Len(q) /\ Len(q) \in Nat
         /\ \A i \in 1..Len(q) : f[i] = w[q[i]] /\ f[i] \in Nat
<1>1. DOMAIN q = 1..Len(q) /\ Len(q) \in Nat /\ \A i \in 1..Len(q) : w[q[i]] \in Nat
  OBVIOUS
<1> QED
  BY <1>1

LEMMA WeightType ==
  ASSUME NEW T, NEW w \in [T -> Nat], NEW q \in Seq(T)
  PROVE  Weight(w, q) \in Nat
BY WeightForm, TotalType DEF Weight

LEMMA WeightEmpty == \A w : Weight(w, <<>>) = 0
<1>1. \A w : [i \in DOMAIN <<>> |-> w[<<>>[i]]] = <<>>
  OBVIOUS
<1> QED
  BY <1>1, TotalEmpty DEF Weight

LEMMA WeightAppend ==
  ASSUME NEW T, NEW w \in [T -> Nat], NEW q \in Seq(T), NEW e \in T
  PROVE  Weight(w, Append(q, e)) = Weight(w, q) + w[e]
<1> DEFINE f == [i \in DOMAIN q |-> w[q[i]]]
           r == Append(q, e)
           g == [i \in DOMAIN r |-> w[r[i]]]
<1>1. r \in Seq(T) /\ Len(r) = Len(q) + 1 /\ r[Len(q) + 1] = e /\ \A i \in 1..Len(q) : r[i] = q[i]
  OBVIOUS
<1> HIDE DEF r
<1>2. f \in Seq(Nat) /\ Len(f) = Len(q) /\ Len(q) \in Nat
      /\ \A i \in 1..Len(q) : f[i] = w[q[i]] /\ f[i] \in Nat
  BY WeightForm
<1>3. g \in Seq(Nat) /\ Len(g) = Len(r) /\ \A i \in 1..Len(r) : g[i] = w[r[i]] /\ g[i] \in Nat
  BY <1>1, WeightForm
<1>4. Weight(w, r) = Total(g) /\ Weight(w, q) = Total(f) /\ w[e] \in Nat
  BY DEF Weight
<1> HIDE DEF f, g
<1>5. g = Append(f, w[e])
  <2>1. Append(f, w[e]) \in Seq(Nat) /\ Len(Append(f, w[e])) = Len(f) + 1
    BY <1>2, <1>4
  <2>2. \A i \in 1..(Len(f) + 1) : i = Len(f) + 1 \/ i \in 1..Len(f)
    BY <1>2
  <2>3. \A i \in 1..(Len(f) + 1) : Append(f, w[e])[i] = g[i]
    BY <1>1, <1>2, <1>3, <1>4, <2>2
  <2> QED
    BY <1>1, <1>2, <1>3, <2>1, <2>3, SeqEqual
<1>6. Total(Append(f, w[e])) = Total(f) + w[e]
  BY <1>2, <1>4, TotalAppend
<1> QED
  BY <1>4, <1>5, <1>6 DEF r

LEMMA WeightTail ==
  ASSUME NEW T, NEW w \in [T -> Nat], NEW q \in Seq(T), q # <<>>
  PROVE  Weight(w, q) = w[Head(q)] + Weight(w, Tail(q))
<1> DEFINE f == [i \in DOMAIN q |-> w[q[i]]]
           r == Tail(q)
           g == [i \in DOMAIN r |-> w[r[i]]]
<1>1. r \in Seq(T) /\ Len(q) = Len(r) + 1 /\ Head(q) = q[1] /\ \A i \in 1..Len(r) : r[i] = q[i + 1]
  OBVIOUS
<1> HIDE DEF r
<1>2. f \in Seq(Nat) /\ Len(f) = Len(q) /\ \A i \in 1..Len(q) : f[i] = w[q[i]] /\ f[i] \in Nat
  BY WeightForm
<1>3. g \in Seq(Nat) /\ Len(g) = Len(r) /\ Len(r) \in Nat
      /\ \A i \in 1..Len(r) : g[i] = w[r[i]] /\ g[i] \in Nat
  BY <1>1, WeightForm
<1>4. Weight(w, r) = Total(g) /\ Weight(w, q) = Total(f)
  BY DEF Weight
<1> HIDE DEF f, g
<1>5. f # <<>> /\ Head(f) = w[Head(q)]
  BY <1>1, <1>2, <1>3
<1>6. Tail(f) = g
  <2>1. Tail(f) \in Seq(Nat) /\ Len(Tail(f)) = Len(g)
    BY <1>1, <1>2, <1>3, <1>5
  <2>2. \A i \in 1..Len(g) : i + 1 \in 1..Len(f)
    BY <1>1, <1>2, <1>3
  <2>3. \A i \in 1..Len(g) : Tail(f)[i] = f[i + 1]
    BY <1>2, <1>5, <2>1
  <2>4. \A i \in 1..Len(g) : Tail(f)[i] = g[i]
    BY <1>1, <1>2, <1>3, <2>2, <2>3
  <2> QED
    BY <1>3, <2>1, <2>4, SeqEqual
<1>7. Total(f) = Head(f) + Total(Tail(f))
  BY <1>2, <1>5, TotalTail
<1> QED
  BY <1>4, <1>5, <1>6, <1>7 DEF r

-----------------------------------------------------------------------------
(* What is on its way to the wire, and who waits for it.                   *)

(* The frame that a task awaits the sending of. *)
Awaited(s) ==
  CASE pc[s] = "send" -> Head(todo[s])
    [] pc[s] = "recvack" -> WindowUpdate(s, 1)
    [] OTHER -> Frame("RST_STREAM", {}, s, 0)

(* The items on the queue and in the writer's hands. *)
OnItsWay == {h \in Q!Item : h = writing \/ \E i \in 1..Len(writeq) : writeq[i] = h}

ResponseFrames(s) == {f \in Frames : f.id = s /\ f.type \in {"HEADER", "DATA"}}

(* h is an item with a frame of the response of s. *)
Answers(h, s) == h.frame.id = s /\ h.frame.type # "WINDOW_UPDATE"

(* The task of s is where it awaits a future. *)
Awaits(s) == pc[s] \in {"send", "recvack", "rst"}

(* A task sends frames of its own stream only; what carries its future is  *)
(* the frame it awaits, and while its stream is registered every frame of  *)
(* its response does.                                                      *)
Sending(s) ==
  /\ \A i \in 1..Len(todo[s]) : todo[s][i] \in ResponseFrames(s)
  /\ \A h \in OnItsWay : h.owner = s => Awaits(s) /\ h.frame = Awaited(s)
  /\ \A h \in OnItsWay : Answers(h, s) => pc[s] # "none" /\ (h.owner = s \/ s \notin streams)

(* Each future that an item carries is awaited. *)
LEMMA CarriedIsPending ==
  ASSUME Q!OneLiveItem, Q!TypeOK, NEW h \in OnItsWay, h.owner \in Clients
  PROVE  fut[h.owner] = "pending"
<1>1. CASE h = writing
  BY <1>1 DEF Q!OneLiveItem, Q!Holder, Q!OwnerOf, OnItsWay
<1>2. ASSUME NEW i \in 1..Len(writeq), writeq[i] = h PROVE fut[h.owner] = "pending"
  <2>1. Q!Owners[i] = h.owner
    BY <1>2 DEF Q!Owners, Q!OwnerOf, OnItsWay
  <2> QED
    BY <2>1 DEF Q!OneLiveItem
<1> QED
  BY <1>1, <1>2 DEF OnItsWay

LEMMA SendAdds ==
  ASSUME Q!TypeOK, NEW c, NEW f, Q!SendFrame(c, f)
  PROVE  \A h \in OnItsWay' : h \in OnItsWay \/ h = [owner |-> c, frame |-> f]
<1> DEFINE new == [owner |-> c, frame |-> f]
<1>1. writeq' = Append(writeq, new) /\ writing' = writing
  BY DEF Q!SendFrame
<1> HIDE DEF new
<1>2. /\ Len(writeq') = Len(writeq) + 1 /\ Len(writeq) \in Nat /\ writeq'[Len(writeq) + 1] = new
      /\ \A i \in 1..Len(writeq) : writeq'[i] = writeq[i]
  <2>1. writeq \in Seq(Q!Item \cup {Stop})
    BY DEF Q!TypeOK
  <2> QED
    BY <1>1, <2>1
<1>3. ASSUME NEW h \in OnItsWay', NEW i \in 1..Len(writeq'), writeq'[i] = h
      PROVE  h \in OnItsWay \/ h = new
  <2>1. i = Len(writeq) + 1 \/ i \in 1..Len(writeq)
    BY <1>2
  <2>2. h \in Q!Item
    BY DEF OnItsWay
  <2> QED
    BY <1>2, <1>3, <2>1, <2>2 DEF OnItsWay
<1> QED
  BY <1>1, <1>3 DEF OnItsWay, new

LEMMA AbandonKeeps ==
  ASSUME Q!TypeOK, NEW C \in SUBSET Clients, Q!Abandon(C) \/ Q!Close(C)
  PROVE  \A h \in OnItsWay' : \E g \in OnItsWay : h = Q!Disown(g, C)
<1>d. \A g : Q!Disown(g, C) \in Q!Item => g \in Q!Item
  BY DEF Q!Disown
<1>s. Stop \notin Q!Item
  BY SessionAssumption
<1>1. Len(writeq) \in Nat
  BY DEF Q!TypeOK
<1> DEFINE kept == [i \in 1..Len(writeq) |-> Q!Disown(writeq[i], C)]
<1>2. kept \in Seq(Q!Item \cup {Stop}) /\ Len(kept) = Len(writeq)
      /\ \A i \in 1..Len(writeq) : kept[i] = Q!Disown(writeq[i], C)
  <2>1. \A i \in 1..Len(writeq) : Q!Disown(writeq[i], C) \in Q!Item \cup {Stop}
    BY DEF Q!Disown, Q!TypeOK, Q!Item
  <2> QED
    BY <1>1, <2>1
<1>3. writing' = Q!Disown(writing, C) /\ (writeq' = kept \/ writeq' = Append(kept, Stop))
  BY DEF Q!Abandon, Q!Close
<1> HIDE DEF kept
<1>4. \A i \in 1..Len(writeq') : writeq'[i] = Stop
                                 \/ (i \in 1..Len(writeq) /\ writeq'[i] = Q!Disown(writeq[i], C))
  <2>1. CASE writeq' = kept
    BY <1>1, <1>2, <2>1
  <2>2. CASE writeq' = Append(kept, Stop)
    BY <1>1, <1>2, <2>2
  <2> QED
    BY <1>3, <2>1, <2>2
<1> SUFFICES ASSUME NEW h \in OnItsWay' PROVE \E g \in OnItsWay : h = Q!Disown(g, C)
  OBVIOUS
<1>h. h \in Q!Item /\ (h = writing' \/ \E i \in 1..Len(writeq') : writeq'[i] = h)
  BY DEF OnItsWay
<1>5. CASE h = writing'
  <2>1. writing \in OnItsWay
    BY <1>3, <1>5, <1>d, <1>h DEF OnItsWay
  <2> QED
    BY <1>3, <1>5, <2>1
<1>6. ASSUME NEW i \in 1..Len(writeq'), writeq'[i] = h PROVE \E g \in OnItsWay : h = Q!Disown(g, C)
  <2>1. i \in 1..Len(writeq) /\ h = Q!Disown(writeq[i], C)
    BY <1>4, <1>6, <1>h, <1>s
  <2>2. writeq[i] \in OnItsWay
    BY <1>d, <1>h, <2>1 DEF OnItsWay
  <2> QED
    BY <2>1, <2>2
<1> QED
  BY <1>5, <1>6, <1>h

LEMMA WriterTakes ==
  ASSUME Q!TypeOK, Q!WriterGet \/ Q!WriterSent \/ Q!WriterFail \/ Q!WriterCancelled
  PROVE  OnItsWay' \subseteq OnItsWay
<1>1. CASE Q!WriterGet
  <2>1. writeq \in Seq(Q!Item \cup {Stop}) /\ writeq # <<>>
    BY <1>1 DEF Q!TypeOK, Q!WriterGet
  <2>2. /\ Len(writeq') = Len(writeq) - 1 /\ Len(writeq) \in Nat \ {0} /\ Head(writeq) = writeq[1]
        /\ \A i \in 1..Len(writeq') : writeq'[i] = writeq[i + 1] /\ i + 1 \in 1..Len(writeq)
    BY <1>1, <2>1 DEF Q!WriterGet
  <2>3. writing' \in {writing, writeq[1]} /\ 1 \in 1..Len(writeq)
    BY <1>1, <2>2 DEF Q!WriterGet
  <2> QED
    BY <2>2, <2>3 DEF OnItsWay
<1>2. CASE Q!WriterSent \/ Q!WriterFail
  BY <1>2, SessionAssumption DEF Q!WriterSent, Q!WriterFail, OnItsWay
<1>3. CASE Q!WriterCancelled
  BY <1>3 DEF Q!WriterCancelled, OnItsWay
<1> QED
  BY <1>1, <1>2, <1>3

LEMMA QueueStays ==
  ASSUME UNCHANGED <<writeq, writing>>
  PROVE  OnItsWay' = OnItsWay
BY DEF OnItsWay

-----------------------------------------------------------------------------
(* How the queue changes for one stream.                                   *)

(* Another task's frame, or none, is added; this task and its stream stay. *)
LEMMA SendingKept ==
  ASSUME NEW s \in Streams, Sending(s),
         \A h \in OnItsWay' : h \in OnItsWay \/ (h.owner # s /\ ~ Answers(h, s)),
         pc'[s] = pc[s], todo'[s] = todo[s],
         s \in streams' => s \in streams \/ pc[s] = "none"
  PROVE  Sending(s)'
<1>1. Awaited(s)' = Awaited(s) /\ (Awaits(s)' <=> Awaits(s))
  BY DEF Awaited, Awaits
<1>2. \A h \in OnItsWay' : h.owner = s => Awaits(s)' /\ h.frame = Awaited(s)'
  BY <1>1 DEF Sending
<1>3. \A h \in OnItsWay' : Answers(h, s) => pc'[s] # "none" /\ (h.owner = s \/ s \notin streams')
  BY DEF Sending
<1> QED
  BY <1>2, <1>3 DEF Sending, Answers

(* The task awaits nothing before the step, and nothing or what it has put *)
(* on the queue after it.                                                  *)
LEMMA SendingMoves ==
  ASSUME NEW s \in Streams, Sending(s), ~ Awaits(s) \/ fut[s] # "pending", Q!OneLiveItem, Q!TypeOK,
         \A h \in OnItsWay' : h \in OnItsWay \/ (h.owner = s /\ h.frame = Awaited(s)' /\ Awaits(s)'),
         pc'[s] # "none",
         \A i \in 1..Len(todo'[s]) : todo'[s][i] \in ResponseFrames(s),
         s \in streams' => s \in streams \/ pc[s] = "none"
  PROVE  Sending(s)'
<1>1. \A h \in OnItsWay : h.owner # s
  <2>1. s \in Clients
    BY DEF Clients
  <2> QED
    BY <2>1, CarriedIsPending DEF Sending
<1>2. \A h \in OnItsWay' : h.owner = s => Awaits(s)' /\ h.frame = Awaited(s)'
  BY <1>1
<1>3. \A h \in OnItsWay' : Answers(h, s) => pc'[s] # "none" /\ (h.owner = s \/ s \notin streams')
  BY DEF Sending
<1> QED
  BY <1>2, <1>3 DEF Sending, Answers

(* Tasks leave their items behind. *)
LEMMA SendingDisowned ==
  ASSUME NEW s \in Streams, Sending(s), NEW C \in SUBSET Clients,
         \A h \in OnItsWay' : \E g \in OnItsWay : h = Q!Disown(g, C),
         pc[s] # "none" => pc'[s] # "none",
         \A i \in 1..Len(todo'[s]) : todo'[s][i] \in ResponseFrames(s),
         s \in streams' => s \in streams,
         s \notin C => pc'[s] = pc[s] /\ todo'[s] = todo[s],
         s \in C => s \notin streams'
  PROVE  Sending(s)'
<1>n. Nobody # s /\ Nobody \notin C
  BY SessionAssumption DEF Clients
<1>d. ASSUME NEW g \in OnItsWay
      PROVE  /\ Q!Disown(g, C).frame = g.frame
             /\ Q!Disown(g, C).owner = (IF g.owner \in C THEN Nobody ELSE g.owner)
  BY DEF OnItsWay, Q!Disown, Q!Item
<1>2. ASSUME NEW h \in OnItsWay', h.owner = s PROVE Awaits(s)' /\ h.frame = Awaited(s)'
  <2>1. PICK g \in OnItsWay : h = Q!Disown(g, C)
    OBVIOUS
  <2>2. g.owner = s /\ s \notin C /\ h.frame = g.frame
    BY <1>2, <1>d, <1>n, <2>1
  <2>3. Awaits(s) /\ g.frame = Awaited(s)
    BY <2>2 DEF Sending
  <2>4. Awaited(s)' = Awaited(s) /\ (Awaits(s)' <=> Awaits(s))
    BY <2>2 DEF Awaited, Awaits
  <2> QED
    BY <2>2, <2>3, <2>4
<1>3. ASSUME NEW h \in OnItsWay', Answers(h, s)
      PROVE  pc'[s] # "none" /\ (h.owner = s \/ s \notin streams')
  <2>1. PICK g \in OnItsWay : h = Q!Disown(g, C)
    OBVIOUS
  <2>2. Answers(g, s)
    BY <1>3, <1>d, <2>1 DEF Answers
  <2>3. pc[s] # "none" /\ (g.owner = s \/ s \notin streams)
    BY <2>2 DEF Sending
  <2>4. ASSUME s \in streams' PROVE h.owner = s
    <3>1. g.owner = s
      BY <2>3, <2>4
    <3>2. s \notin C
      BY <2>4
    <3> QED
      BY <1>d, <2>1, <3>1, <3>2
  <2> QED
    BY <2>3, <2>4
<1> QED
  BY <1>2, <1>3 DEF Sending, Answers

-----------------------------------------------------------------------------
(* What one step of a task means to its stream.                            *)

(* It puts the frame that it now awaits on the queue, ... *)
Sends(s) ==
  \E f \in Frames : Q!SendFrame(s, f) /\ f.id = s /\ Awaits(s)' /\ f = Awaited(s)'

(* ... or awaits none, ... *)
Rests(s) ==
  /\ UNCHANGED queueVars \/ Q!Resume(s)
  /\ ~ Awaits(s) \/ fut[s] # "pending"
  /\ ~ Awaits(s)'

(* ... or no longer the one that the app has given up. *)
GivesUp(s) == "timeout" \in AppMay /\ Q!Abandon({s}) /\ pc'[s] = "running"

(* It has nothing but frames of its own to send, and, unless the app gives *)
(* sends up, the bytes of a frame that is out are counted as it goes on.   *)
Goes(s) ==
  /\ Sends(s) \/ Rests(s) \/ GivesUp(s)
  /\ \A i \in 1..Len(todo'[s]) : todo'[s][i] \in ResponseFrames(s)
  /\ "timeout" \notin AppMay => state'[s].pending = state[s].pending + Uncounted(s)

OwnFrames(s) == \A i \in 1..Len(todo[s]) : todo[s][i] \in ResponseFrames(s)

LEMMA StartsSending ==
  ASSUME TypeOK, NEW s \in Streams, NEW frames \in Seq(Frames), frames # <<>>,
         \A i \in 1..Len(frames) : frames[i] \in ResponseFrames(s),
         StartSending(s, frames), state'[s].pending = state[s].pending, pc[s] # "send"
  PROVE  Goes(s)
<1>1. pc'[s] = "send" /\ todo'[s] = frames
  BY DEF StartSending, TypeOK, AppTypeOK
<1>2. Head(frames) \in Frames /\ Head(frames).id = s
  <2>1. Head(frames) = frames[1] /\ 1 \in 1..Len(frames)
    OBVIOUS
  <2> QED
    BY <2>1 DEF ResponseFrames
<1>3. Sends(s)
  BY <1>1, <1>2 DEF Sends, StartSending, Awaits, Awaited
<1>4. state[s].pending \in Nat
  BY DEF TypeOK, AppTypeOK, StreamState
<1> QED
  BY <1>1, <1>3, <1>4 DEF Goes, Uncounted

LEMMA AutoGoes ==
  ASSUME TypeOK, NEW s \in Streams, NEW size \in 0..1, AutoResponse(s, size), pc[s] # "send"
  PROVE  Goes(s)
<1> DEFINE a == Frame("HEADER", {"HEADER_END"}, s, 1)
           b == Frame("DATA", {"STREAM_END"}, s, size)
           frames == <<a, b>>
<1>1. frames \in Seq(Frames) /\ frames # <<>> /\ StartSending(s, frames)
  BY AutoFrames DEF AutoResponse
<1>2. \A i \in 1..Len(frames) : frames[i] \in ResponseFrames(s)
  <2>1. a \in ResponseFrames(s) /\ b \in ResponseFrames(s)
    BY DEF ResponseFrames, Frame, Frames, FrameSet, MessageType
  <2> HIDE DEF a, b
  <2> QED
    BY <2>1
<1>3. state'[s].pending = state[s].pending
  BY DEF AutoResponse, TypeOK, AppTypeOK, StreamState
<1> HIDE DEF frames
<1> QED
  BY <1>1, <1>2, <1>3, StartsSending

LEMMA AfterFrameGoes ==
  ASSUME TypeOK, NEW s \in Streams, OwnFrames(s), AfterFrame(s, state[s].pending + Uncounted(s)),
         pc[s] = "woken" \/ (pc[s] = "send" /\ fut[s] = "ok")
  PROVE  Goes(s)
<1> DEFINE rest == Tail(todo[s])
           pending == state[s].pending + Uncounted(s)
<1>1. todo[s] \in Seq(Frames) /\ todo[s] # <<>>
  BY DEF TypeOK, AppTypeOK
<1>2. rest \in Seq(Frames) /\ \A i \in 1..Len(rest) : rest[i] = todo[s][i + 1] /\ i + 1 \in 1..Len(todo[s])
  BY <1>1
<1>3. \A i \in 1..Len(rest) : rest[i] \in ResponseFrames(s)
  BY <1>2 DEF OwnFrames
<1>4. todo'[s] = rest
  BY DEF AfterFrame, TypeOK, AppTypeOK
<1>5. state'[s].pending = pending
  <2>1. \E x : state' = [state EXCEPT ![s].pending = pending, ![s].complete = x]
    BY DEF AfterFrame
  <2> HIDE DEF pending
  <2> QED
    BY <2>1 DEF TypeOK, AppTypeOK, StreamState
<1>6. CASE rest # <<>>
  <2>1. pc'[s] = "send" /\ Q!SendFrame(s, Head(rest))
    BY <1>6 DEF AfterFrame, TypeOK, AppTypeOK
  <2>2. Head(rest) \in Frames /\ Head(rest).id = s
    <3>1. Head(rest) = rest[1] /\ 1 \in 1..Len(rest) /\ Head(rest) \in Frames
      BY <1>2, <1>6
    <3> QED
      BY <1>3, <3>1 DEF ResponseFrames
  <2>3. Sends(s)
    BY <1>4, <2>1, <2>2 DEF Sends, Awaits, Awaited
  <2> QED
    BY <1>3, <1>4, <1>5, <2>3 DEF Goes
<1>7. CASE rest = <<>>
  <2>1. UNCHANGED queueVars \/ Q!Resume(s)
    BY <1>7 DEF AfterFrame
  <2>2. pc'[s] \in {"running", "done"}
    BY <1>7 DEF AfterFrame, Finish, TypeOK, AppTypeOK
  <2>3. Rests(s)
    BY <2>1, <2>2 DEF Rests, Awaits
  <2> QED
    BY <1>3, <1>4, <1>5, <2>3 DEF Goes
<1> QED
  BY <1>6, <1>7

LEMMA RestsGoes ==
  ASSUME TypeOK, NEW s \in Streams, OwnFrames(s), UNCHANGED queueVars \/ Q!Resume(s),
         ~ Awaits(s) \/ fut[s] # "pending", pc[s] = "send" => fut[s] = "err",
         ~ Awaits(s)',
         todo'[s] = todo[s] \/ todo'[s] = <<>>, state'[s].pending = state[s].pending
  PROVE  Goes(s)
<1>1. state[s].pending \in Nat
  BY DEF TypeOK, AppTypeOK, StreamState
<1>2. Rests(s)
  BY DEF Rests
<1>3. Uncounted(s) = 0
  BY DEF Uncounted
<1> QED
  BY <1>1, <1>2, <1>3 DEF Goes, OwnFrames

LEMMA RaiseGoes ==
  ASSUME TypeOK, NEW s \in Streams, OwnFrames(s), Raise(s), state'[s].pending = state[s].pending,
         pc[s] = "running" \/ (pc[s] = "send" /\ fut[s] = "err")
  PROVE  Goes(s)
<1>1. todo'[s] = <<>>
  BY DEF Raise, TypeOK, AppTypeOK
<1>2. CASE StillOpen(s)
  <2>1. pc'[s] = "rst" /\ Q!SendFrame(s, Frame("RST_STREAM", {}, s, 0))
    BY <1>2 DEF Raise, TypeOK, AppTypeOK
  <2>2. Frame("RST_STREAM", {}, s, 0) \in Frames /\ Frame("RST_STREAM", {}, s, 0).id = s
    BY DEF MessageType, Frame, Frames, FrameSet
  <2>3. Sends(s)
    BY <2>1, <2>2 DEF Sends, Awaits, Awaited
  <2>4. Uncounted(s) = 0 /\ state[s].pending \in Nat
    BY DEF Uncounted, TypeOK, AppTypeOK, StreamState
  <2> QED
    BY <1>1, <2>3, <2>4 DEF Goes
<1>3. CASE ~ StillOpen(s)
  <2>1. pc'[s] = "done" /\ (UNCHANGED queueVars \/ Q!Resume(s))
    BY <1>3 DEF Raise, Finish, TypeOK, AppTypeOK
  <2> QED
    BY <1>1, <2>1, RestsGoes DEF Awaits
<1> QED
  BY <1>2, <1>3

LEMMA TaskGoes ==
  ASSUME TypeOK, NEW s \in Streams, OwnFrames(s), AppStep(s) \/ TaskStep(s) \/ CallTimeout(s)
  PROVE  Goes(s)
<1>p. pc \in [Streams -> TaskState] /\ state \in [Streams -> StreamState] /\ state[s].pending \in Nat
  BY DEF TypeOK, AppTypeOK, StreamState
<1>1. CASE AppStart(s)
  <2>1. PICK n \in 1..MaxHead : StartSending(s, [i \in 1..n |->
          Frame("HEADER", IF i = n THEN {"HEADER_END"} ELSE {}, s, 1)])
    BY <1>1 DEF AppStart
  <2> DEFINE frames == [i \in 1..n |-> Frame("HEADER", IF i = n THEN {"HEADER_END"} ELSE {}, s, 1)]
  <2>2. frames \in Seq(Frames) /\ frames # <<>> /\ StartSending(s, frames)
    BY <2>1, HeadFrames
  <2>3. \A i \in 1..Len(frames) : frames[i] \in ResponseFrames(s)
    <3>1. \A i \in DOMAIN frames : frames[i] \in ResponseFrames(s)
      BY DEF ResponseFrames, Frame, Frames, FrameSet, MessageType
    <3> HIDE DEF frames
    <3> QED
      BY <2>2, <3>1
  <2>4. state'[s].pending = state[s].pending /\ pc[s] # "send"
    BY <1>1, <1>p DEF AppStart, StreamState
  <2> HIDE DEF frames
  <2> QED
    BY <2>2, <2>3, <2>4, StartsSending
<1>2. CASE AppBody(s)
  <2> DEFINE frames(n, more) ==
        LET count == IF n = 0 THEN 1 ELSE n IN
        [i \in 1..count |-> Frame("DATA", IF i = count /\ ~ more THEN {"STREAM_END"} ELSE {}, s,
                                  IF n = 0 THEN 0 ELSE 1)]
  <2>1. PICK n \in 0..MaxChunks, more \in BOOLEAN : StartSending(s, frames(n, more))
    BY <1>2 DEF AppBody
  <2>2. frames(n, more) \in Seq(Frames) /\ frames(n, more) # <<>>
    BY BodyFrames
  <2>3. \A i \in 1..Len(frames(n, more)) : frames(n, more)[i] \in ResponseFrames(s)
    <3>1. \A i \in DOMAIN frames(n, more) : frames(n, more)[i] \in ResponseFrames(s)
      BY DEF ResponseFrames, Frame, Frames, FrameSet, MessageType
    <3> HIDE DEF frames
    <3> QED
      BY <2>2, <3>1
  <2>4. state'[s].pending = state[s].pending /\ pc[s] # "send"
    BY <1>2, <1>p DEF AppBody
  <2> HIDE DEF frames
  <2> QED
    BY <2>1, <2>2, <2>3, <2>4, StartsSending
<1>3. CASE AppReturn(s)
  <2>1. CASE state[s].started
    <3>1. pc'[s] = "done" /\ UNCHANGED <<state, todo, queueVars>> /\ pc[s] = "running"
      BY <1>3, <1>p, <2>1 DEF AppReturn, Finish
    <3> QED
      BY <3>1, RestsGoes DEF Awaits
  <2>2. CASE ~ state[s].started
    BY <1>3, <2>2, AutoGoes DEF AppReturn
  <2> QED
    BY <2>1, <2>2
<1>4. CASE TaskStart(s)
  <2>1. CASE AutoResponse(s, 1)
    BY <1>4, <2>1, AutoGoes DEF TaskStart
  <2>2. CASE pc' = [pc EXCEPT ![s] = "running"] /\ UNCHANGED <<state, todo, auto, queueVars>>
    BY <1>4, <1>p, <2>2, RestsGoes DEF TaskStart, Awaits
  <2> QED
    BY <1>4, <2>1, <2>2 DEF TaskStart
<1>5. CASE AppRaise(s)
  BY <1>5, RaiseGoes DEF AppRaise
<1>6. CASE FrameSent(s)
  <2>1. pc[s] = "send" /\ fut[s] = "ok" /\ Uncounted(s) = Head(todo[s]).payload
    BY <1>6 DEF FrameSent, Uncounted
  <2>2. CASE AfterFrame(s, state[s].pending + Head(todo[s]).payload)
    BY <2>1, <2>2, AfterFrameGoes
  <2>3. CASE /\ pc' = [pc EXCEPT ![s] = "window"]
             /\ state' = [state EXCEPT ![s].pending = state[s].pending + Head(todo[s]).payload]
             /\ Q!Resume(s) /\ todo' = todo
    <3>1. pc'[s] = "window"
      BY <1>p, <2>3
    <3>2. state'[s].pending = state[s].pending + Uncounted(s)
      BY <1>p, <2>1, <2>3 DEF StreamState
    <3>3. Rests(s)
      BY <2>1, <2>3, <3>1 DEF Rests, Awaits
    <3> QED
      BY <2>3, <3>2, <3>3 DEF Goes, OwnFrames
  <2> QED
    BY <1>6, <2>2, <2>3 DEF FrameSent
<1>7. CASE FrameFails(s)
  <2>1. CASE pc' = [pc EXCEPT ![s] = "running"] /\ todo' = [todo EXCEPT ![s] = <<>>] /\ Q!Resume(s)
    <3>1. pc'[s] = "running" /\ todo'[s] = <<>>
      BY <1>p, <2>1 DEF TypeOK, AppTypeOK
    <3> QED
      BY <1>7, <2>1, <3>1, RestsGoes DEF FrameFails, Awaits
  <2>2. CASE Raise(s)
    BY <1>7, <2>2, RaiseGoes DEF FrameFails
  <2> QED
    BY <1>7, <2>1, <2>2 DEF FrameFails
<1>8. CASE Woken(s)
  <2>1. CASE AfterFrame(s, state[s].pending)
    <3>1. pc[s] = "woken" /\ Uncounted(s) = 0
      BY <1>8 DEF Woken, Uncounted
    <3>2. state[s].pending + Uncounted(s) = state[s].pending
      BY <1>p, <3>1
    <3> QED
      BY <2>1, <3>1, <3>2, AfterFrameGoes
  <2>2. CASE pc' = [pc EXCEPT ![s] = "window"] /\ UNCHANGED <<state, todo, queueVars>>
    BY <1>8, <1>p, <2>2, RestsGoes DEF Woken, Awaits
  <2> QED
    BY <1>8, <2>1, <2>2 DEF Woken
<1>9. CASE ResetSent(s) \/ TaskCancelled(s)
  <2>1. pc'[s] = "done" /\ UNCHANGED <<state, todo>> /\ (UNCHANGED queueVars \/ Q!Resume(s))
    BY <1>9, <1>p DEF ResetSent, TaskCancelled, Finish
  <2>2. pc[s] = "cancelled" \/ (pc[s] = "rst" /\ fut[s] # "pending")
    BY <1>9 DEF ResetSent, TaskCancelled
  <2> QED
    BY <2>1, <2>2, RestsGoes DEF Awaits
<1>10. CASE AppReceive(s)
  BY <1>10, <1>p, RestsGoes DEF AppReceive, Awaits
<1>11. CASE Receive(s)
  <2>1. pc[s] = "recv" /\ todo' = todo
    BY <1>11 DEF Receive
  <2>2. state'[s].pending = state[s].pending
    BY <1>11, <1>p DEF Receive, StreamState
  <2>3. CASE pc' = [pc EXCEPT ![s] = "running"] /\ UNCHANGED queueVars
    BY <1>p, <2>1, <2>2, <2>3, RestsGoes DEF Awaits
  <2>4. CASE pc' = [pc EXCEPT ![s] = "recvack"] /\ Q!SendFrame(s, WindowUpdate(s, 1))
    <3>1. pc'[s] = "recvack"
      BY <1>p, <2>4
    <3>2. WindowUpdate(s, 1) \in Frames /\ WindowUpdate(s, 1).id = s
      BY WindowUpdateType DEF WindowUpdate, Frame
    <3>3. Sends(s)
      BY <2>4, <3>1, <3>2 DEF Sends, Awaits, Awaited, WindowUpdate, Frame
    <3>4. Uncounted(s) = 0
      BY <2>1 DEF Uncounted
    <3> QED
      BY <1>p, <2>1, <2>2, <3>3, <3>4 DEF Goes, OwnFrames
  <2> QED
    BY <1>11, <2>3, <2>4 DEF Receive
<1>12. CASE ReceiveAcked(s)
  BY <1>12, <1>p, RestsGoes DEF ReceiveAcked, Awaits
<1>13. CASE CallTimeout(s)
  <2>1. GivesUp(s)
    BY <1>13, <1>p DEF CallTimeout, GivesUp
  <2>2. todo'[s] = <<>>
    BY <1>13 DEF CallTimeout, TypeOK, AppTypeOK
  <2> QED
    BY <2>1, <2>2 DEF Goes, GivesUp
<1>14. CASE AppBadStart(s)
  <2>1. pc[s] = "running" /\ state'[s].pending = state[s].pending
    BY <1>14, <1>p DEF AppBadStart, StreamState
  <2>2. CASE Raise(s)
    BY <2>1, <2>2, RaiseGoes
  <2>3. CASE UNCHANGED <<pc, todo, queueVars>>
    BY <2>1, <2>3, RestsGoes DEF Awaits
  <2> QED
    BY <1>14, <2>2, <2>3 DEF AppBadStart
<1> QED
  BY <1>1, <1>2, <1>3, <1>4, <1>5, <1>6, <1>7, <1>8, <1>9, <1>10, <1>11, <1>12, <1>13, <1>14
     DEF AppStep, TaskStep

-----------------------------------------------------------------------------
(* The acknowledgements of response bytes that wait to be read.            *)

AckWeight(s) == [f \in RouterFrames |-> Acknowledges(s, f)]

LEMMA AckWeights ==
  \A s : /\ AckWeight(s) \in [RouterFrames -> Nat]
         /\ \A q \in Seq(RouterFrames) :
              Total([i \in DOMAIN q |-> Acknowledges(s, q[i])]) = Weight(AckWeight(s), q)
<1> SUFFICES ASSUME NEW s
             PROVE  /\ AckWeight(s) \in [RouterFrames -> Nat]
                    /\ \A q \in Seq(RouterFrames) :
                         Total([i \in DOMAIN q |-> Acknowledges(s, q[i])]) = Weight(AckWeight(s), q)
  OBVIOUS
<1>1. AckWeight(s) \in [RouterFrames -> Nat]
  BY RouterFrameFields DEF AckWeight, Acknowledges
<1>2. ASSUME NEW q \in Seq(RouterFrames)
      PROVE  Total([i \in DOMAIN q |-> Acknowledges(s, q[i])]) = Weight(AckWeight(s), q)
  <2>1. \A i \in DOMAIN q : AckWeight(s)[q[i]] = Acknowledges(s, q[i])
    BY DEF AckWeight
  <2>2. [i \in DOMAIN q |-> Acknowledges(s, q[i])] = [i \in DOMAIN q |-> AckWeight(s)[q[i]]]
    BY <2>1
  <2> QED
    BY <2>2 DEF Weight
<1> QED
  BY <1>1, <1>2

LEMMA AcksInInbox ==
  ASSUME LinkTypeOK, LinkTypeOK', NEW s
  PROVE  /\ AcksToRead(s) \in Nat
         /\ \A f \in RouterFrames : Arrive(f) => AcksToRead(s)' = AcksToRead(s) + Acknowledges(s, f)
         /\ inbox # <<>> /\ inbox' = Tail(inbox) =>
              AcksToRead(s) = Acknowledges(s, Head(inbox)) + AcksToRead(s)' /\ AcksToRead(s)' \in Nat
         /\ inbox' = <<>> => AcksToRead(s)' = 0
         /\ inbox' = inbox => AcksToRead(s)' = AcksToRead(s)
<1> DEFINE w == AckWeight(s)
<1>1. inbox \in Seq(RouterFrames) /\ inbox' \in Seq(RouterFrames) /\ w \in [RouterFrames -> Nat]
  BY AckWeights DEF LinkTypeOK
<1>2. AcksToRead(s) = Weight(w, inbox) /\ AcksToRead(s)' = Weight(w, inbox')
  BY <1>1, AckWeights DEF AcksToRead
<1>3. \A f \in RouterFrames : w[f] = Acknowledges(s, f)
  BY DEF AckWeight
<1> HIDE DEF w
<1>4. Weight(w, inbox) \in Nat /\ Weight(w, inbox') \in Nat
  BY <1>1, WeightType
<1>5. ASSUME NEW f \in RouterFrames, Arrive(f) PROVE Weight(w, inbox') = Weight(w, inbox) + w[f]
  BY <1>1, <1>5, WeightAppend DEF Arrive
<1>6. ASSUME inbox # <<>>, inbox' = Tail(inbox)
      PROVE  Weight(w, inbox) = w[Head(inbox)] + Weight(w, inbox') /\ Head(inbox) \in RouterFrames
  BY <1>1, <1>6, WeightTail
<1> QED
  BY <1>2, <1>3, <1>4, <1>5, <1>6, WeightEmpty

-----------------------------------------------------------------------------
(* The window of the responses.                                            *)

(* A stream whose task has not been created has no bytes anywhere. *)
Untouched(s) == pc[s] = "none" => state[s].pending = 0 /\ credit[s] = 0 /\ AcksToRead(s) = 0

(* The bytes of an open stream that are unacknowledged, counted here, are  *)
(* those that the router has or has acknowledged.                          *)
Balance(s) ==
  s \in streams =>
    /\ state[s].pending + Uncounted(s) = credit[s] + AcksToRead(s)
    /\ credit[s] >= Uncounted(s)

Windows == \A s \in Streams : Sending(s) /\ Untouched(s) /\ Balance(s)

(* Nothing that counts for s changes. *)
LEMMA WindowKept ==
  ASSUME NEW s \in Streams, Untouched(s), Balance(s),
         pc'[s] = "none" => pc[s] = "none",
         s \in streams' => s \in streams \/ pc[s] = "none",
         s \in streams' => Uncounted(s)' = Uncounted(s),
         state'[s].pending = state[s].pending, credit'[s] = credit[s],
         AcksToRead(s)' = AcksToRead(s),
         pc[s] = "none" => Uncounted(s) = 0
  PROVE  Untouched(s)' /\ Balance(s)'
BY DEF Untouched, Balance

(* A task touches its own stream only. *)
LEMMA TaskTouches ==
  ASSUME TypeOK, NEW s \in Streams, AppStep(s) \/ TaskStep(s) \/ CallTimeout(s)
  PROVE  /\ UNCHANGED <<linkVars, reader>> /\ streams' \subseteq streams
         /\ \A r \in Streams \ {s} :
              /\ pc'[r] = pc[r] /\ todo'[r] = todo[r] /\ state'[r] = state[r]
              /\ item'[r] = item[r] /\ handed'[r] = handed[r]
<1>1. UNCHANGED <<linkVars, reader>>
  BY DEF AppStep, TaskStep, AppStart, AppBody, AppReceive, AppReturn, AppRaise, AppBadStart, TaskStart,
     FrameSent, FrameFails, Woken, ResetSent, Receive, ReceiveAcked, TaskCancelled, CallTimeout,
     sessionVars
<1>2. streams' = streams \/ streams' = streams \ {s}
  BY DEF AppStep, TaskStep, AppStart, AppBody, AppReceive, AppReturn, AppRaise, AppBadStart, TaskStart,
     FrameSent, FrameFails, Woken, ResetSent, Receive, ReceiveAcked, TaskCancelled, CallTimeout,
     sessionVars, AfterFrame, Raise
<1>3. \A r \in Streams \ {s} : pc'[r] = pc[r]
  BY AppMoves DEF Moved, TypeOK, AppTypeOK
<1>4. todo' = todo \/ \E t : todo' = [todo EXCEPT ![s] = t]
  BY DEF AppStep, TaskStep, AppStart, AppBody, AppReceive, AppReturn, AppRaise, AppBadStart, TaskStart,
     FrameSent, FrameFails, Woken, ResetSent, Receive, ReceiveAcked, TaskCancelled, CallTimeout,
     AfterFrame, Raise, AutoResponse, StartSending
<1>5. state' = state \/ \E x : state' = [state EXCEPT ![s] = x]
  <2>1. CASE FrameSent(s) \/ Woken(s)
    BY <2>1 DEF FrameSent, Woken, AfterFrame
  <2>2. CASE AppStart(s) \/ AppBadStart(s) \/ AppReturn(s) \/ TaskStart(s)
    BY <2>2 DEF AppStart, AppBadStart, AppReturn, TaskStart, AutoResponse
  <2>3. CASE Receive(s)
    BY <2>3 DEF Receive
  <2>4. CASE AppBody(s) \/ AppReceive(s) \/ AppRaise(s) \/ FrameFails(s) \/ ResetSent(s)
             \/ ReceiveAcked(s) \/ TaskCancelled(s) \/ CallTimeout(s)
    BY <2>4 DEF AppBody, AppReceive, AppRaise, FrameFails, ResetSent, ReceiveAcked, TaskCancelled,
         CallTimeout
  <2> QED
    BY <2>1, <2>2, <2>3, <2>4 DEF AppStep, TaskStep
<1>6. (item' = item \/ \E x : item' = [item EXCEPT ![s] = x])
      /\ (handed' = handed \/ \E x : handed' = [handed EXCEPT ![s] = x])
  BY DEF AppStep, TaskStep, AppStart, AppBody, AppReceive, AppReturn, AppRaise, AppBadStart, TaskStart,
     FrameSent, FrameFails, Woken, ResetSent, Receive, ReceiveAcked, TaskCancelled, CallTimeout
<1>7. \A r \in Streams \ {s} : todo'[r] = todo[r] /\ state'[r] = state[r]
                               /\ item'[r] = item[r] /\ handed'[r] = handed[r]
  BY <1>4, <1>5, <1>6 DEF TypeOK, AppTypeOK
<1> QED
  BY <1>1, <1>2, <1>3, <1>7

(* Nor does it touch the future of another one, nor send a frame for it. *)
LEMMA TaskSending ==
  ASSUME "timeout" \notin AppMay, TypeOK, Q!OneLiveItem, \A r \in Streams : Sending(r),
         NEW s \in Streams, AppStep(s) \/ TaskStep(s) \/ CallTimeout(s), Goes(s)
  PROVE  \A r \in Streams : Sending(r)' /\ (r # s => fut'[r] = fut[r])
<1>c. s \in Clients /\ {s} \in SUBSET Clients /\ Streams \subseteq Clients
  BY DEF Clients
<1>t. /\ streams' \subseteq streams
      /\ \A r \in Streams \ {s} : pc'[r] = pc[r] /\ todo'[r] = todo[r]
      /\ \A i \in 1..Len(todo'[s]) : todo'[s][i] \in ResponseFrames(s)
  BY TaskTouches DEF Goes
<1>n. pc'[s] # "none" /\ Q!TypeOK
  BY AppMoves DEF Moved, TypeOK, AppTypeOK
<1>1. CASE Sends(s)
  <2>1. PICK f \in Frames : Q!SendFrame(s, f) /\ f.id = s /\ Awaits(s)' /\ f = Awaited(s)'
    BY <1>1 DEF Sends
  <2>2. \A h \in OnItsWay' : h \in OnItsWay \/ h = [owner |-> s, frame |-> f]
    BY <1>n, <2>1, SendAdds
  <2>3. Sending(s)'
    BY <1>n, <1>t, <2>1, <2>2, SendingMoves DEF Q!SendFrame
  <2>4. ASSUME NEW r \in Streams, r # s PROVE Sending(r)' /\ fut'[r] = fut[r]
    <3>1. \A h \in OnItsWay' : h \in OnItsWay \/ (h.owner # r /\ ~ Answers(h, r))
      BY <2>1, <2>2, <2>4 DEF Answers
    <3>2. fut'[r] = fut[r]
      BY <1>n, <2>1, <2>4 DEF Q!SendFrame, Q!TypeOK, Clients
    <3> QED
      BY <1>t, <2>4, <3>1, <3>2, SendingKept
  <2> QED
    BY <2>3, <2>4
<1>2. CASE Rests(s)
  <2>1. OnItsWay' = OnItsWay
    BY <1>2, QueueStays DEF Rests, Q!Resume, queueVars
  <2>2. Sending(s)'
    BY <1>2, <1>n, <1>t, <2>1, SendingMoves DEF Rests
  <2>3. ASSUME NEW r \in Streams, r # s PROVE Sending(r)' /\ fut'[r] = fut[r]
    <3>1. fut'[r] = fut[r]
      BY <1>2, <1>c, <1>n, <2>3 DEF Rests, Q!Resume, queueVars, Q!TypeOK
    <3> QED
      BY <1>t, <2>1, <2>3, <3>1, SendingKept
  <2> QED
    BY <2>2, <2>3
<1> QED
  BY <1>1, <1>2 DEF Goes, GivesUp

LEMMA TaskWindows ==
  ASSUME "timeout" \notin AppMay, TypeOK, TypeOK', Q!OneLiveItem, Windows,
         NEW s \in Streams, AppStep(s) \/ TaskStep(s) \/ CallTimeout(s)
  PROVE  Windows'
<1>1. Goes(s)
  BY TaskGoes DEF Windows, Sending, OwnFrames
<1>2. /\ UNCHANGED linkVars /\ streams' \subseteq streams
      /\ \A r \in Streams \ {s} : pc'[r] = pc[r] /\ todo'[r] = todo[r] /\ state'[r] = state[r]
  BY TaskTouches
<1>3. \A r \in Streams : Sending(r)' /\ (r # s => fut'[r] = fut[r])
  BY <1>1, TaskSending DEF Windows
<1>4. pc[s] # "none" /\ pc'[s] # "none"
  BY AppMoves DEF Moved, TypeOK, AppTypeOK
<1>5. credit' = credit /\ \A r \in Streams : AcksToRead(r)' = AcksToRead(r) /\ AcksToRead(r) \in Nat
  BY <1>2, AcksInInbox DEF TypeOK, linkVars
<1>6. ASSUME NEW r \in Streams, r # s PROVE Untouched(r)' /\ Balance(r)'
  <2>1. Uncounted(r)' = Uncounted(r)
    BY <1>2, <1>3, <1>6 DEF Uncounted
  <2>2. pc[r] = "none" => Uncounted(r) = 0
    BY DEF Uncounted
  <2> QED
    BY <1>2, <1>5, <1>6, <2>1, <2>2, WindowKept DEF Windows
<1>7. Untouched(s)' /\ Balance(s)'
  <2>1. Uncounted(s)' = 0
    <3>1. CASE Sends(s)
      <4>1. fut'[s] = "pending"
        BY <3>1 DEF Sends, Q!SendFrame, TypeOK, Q!TypeOK, Clients
      <4> QED
        BY <4>1 DEF Uncounted
    <3>2. CASE Rests(s)
      BY <3>2 DEF Rests, Awaits, Uncounted
    <3> QED
      BY <1>1, <3>1, <3>2 DEF Goes, GivesUp
  <2>2. state'[s].pending = state[s].pending + Uncounted(s)
    BY <1>1 DEF Goes
  <2>3. state'[s].pending \in Nat /\ credit[s] \in Nat
    BY DEF TypeOK, LinkTypeOK, AppTypeOK, StreamState
  <2> QED
    BY <1>2, <1>4, <1>5, <2>1, <2>2, <2>3 DEF Windows, Untouched, Balance
<1> QED
  BY <1>3, <1>6, <1>7 DEF Windows

(* Streams are closed: their tasks leave their items behind. *)
LEMMA CloseSending ==
  ASSUME TypeOK, \A r \in Streams : Sending(r), NEW S \in SUBSET streams, CloseFromRouter(S),
         streams' = streams \ S, NEW C \in SUBSET Clients, Q!Abandon(C) \/ Q!Close(C),
         C \cap Streams = S
  PROVE  \A r \in Streams :
           /\ Sending(r)'
           /\ pc'[r] = "none" <=> pc[r] = "none"
           /\ state'[r].pending = state[r].pending
           /\ r \in streams' => r \in streams /\ pc'[r] = pc[r] /\ todo'[r] = todo[r] /\ fut'[r] = fut[r]
<1>1. \A h \in OnItsWay' : \E g \in OnItsWay : h = Q!Disown(g, C)
  BY AbandonKeeps DEF TypeOK
<1>2. \A r \in Streams : pc'[r] = "none" <=> pc[r] = "none"
  BY DEF CloseFromRouter, Cancelled
<1>3. \A r \in Streams : todo'[r] \in {<<>>, todo[r]}
  BY DEF CloseFromRouter
<1>4. \A r \in Streams : r \notin S => pc'[r] = pc[r] /\ todo'[r] = todo[r] /\ fut'[r] = fut[r]
  BY DEF CloseFromRouter, Cancelled, Q!Abandon, Q!Close, Clients
<1>5. \A r \in Streams : state'[r].pending = state[r].pending
  <2>1. ASSUME NEW r \in Streams
        PROVE  [state[r] EXCEPT !.disconnected = TRUE,
                                !.queue = Append(@, RequestDisconnect)].pending = state[r].pending
    BY DEF TypeOK, AppTypeOK, StreamState
  <2> QED
    BY <2>1 DEF CloseFromRouter
<1>6. ASSUME NEW r \in Streams PROVE Sending(r)'
  <2>1. \A i \in 1..Len(todo'[r]) : todo'[r][i] \in ResponseFrames(r)
    BY <1>3 DEF Sending
  <2>2. r \in C => r \notin streams'
    OBVIOUS
  <2>3. r \in streams' => r \in streams
    OBVIOUS
  <2> QED
    BY <1>1, <1>2, <1>4, <2>1, <2>2, <2>3, SendingDisowned
<1> QED
  BY <1>2, <1>4, <1>5, <1>6

LEMMA EndWindows ==
  ASSUME TypeOK, TypeOK', Windows, NEW how, EndSession(how), credit' = credit
  PROVE  Windows'
<1>1. streams \in SUBSET streams /\ streams' = streams \ streams /\ streams' = {} /\ inbox' = <<>>
      /\ CloseFromRouter(streams) /\ Q!Close(streams \cup {Reader})
  BY DEF EndSession
<1>2. streams \cup {Reader} \in SUBSET Clients /\ (streams \cup {Reader}) \cap Streams = streams
  BY SessionAssumption DEF TypeOK, ReaderTypeOK, Clients
<1>3. \A r \in Streams : Sending(r)' /\ (pc'[r] = "none" <=> pc[r] = "none")
                         /\ state'[r].pending = state[r].pending
  BY <1>1, <1>2, CloseSending DEF Windows
<1>4. \A r \in Streams : AcksToRead(r)' = 0
  BY <1>1, AcksInInbox DEF TypeOK
<1> QED
  BY <1>1, <1>3, <1>4 DEF Windows, Untouched, Balance

LEMMA ReadResetWindows ==
  ASSUME TypeOK, TypeOK', Windows, ReadReset
  PROVE  Windows'
<1> DEFINE S == streams \cap {Head(inbox).id}
<1>1. S \in SUBSET streams /\ S \in SUBSET Clients /\ S \cap Streams = S
  BY DEF TypeOK, ReaderTypeOK, Clients
<1>2. CloseFromRouter(S) /\ Q!Abandon(S) /\ credit' = credit /\ streams' = streams \ S
  BY DEF ReadReset, Read
<1> HIDE DEF S
<1>3. \A r \in Streams :
        /\ Sending(r)'
        /\ pc'[r] = "none" <=> pc[r] = "none"
        /\ state'[r].pending = state[r].pending
        /\ r \in streams' => r \in streams /\ pc'[r] = pc[r] /\ todo'[r] = todo[r] /\ fut'[r] = fut[r]
  BY <1>1, <1>2, CloseSending DEF Windows
<1>4. \A r \in Streams : AcksToRead(r)' = AcksToRead(r)
  <2>1. inbox # <<>> /\ inbox' = Tail(inbox) /\ Head(inbox).type = "RST_STREAM"
    BY DEF ReadReset, Read, NextIs
  <2>2. \A r : Acknowledges(r, Head(inbox)) = 0
    BY <2>1 DEF Acknowledges
  <2> QED
    BY <2>1, <2>2, AcksInInbox DEF TypeOK
<1>5. ASSUME NEW r \in Streams PROVE Untouched(r)' /\ Balance(r)'
  <2>1. r \in streams' => Uncounted(r)' = Uncounted(r)
    BY <1>3 DEF Uncounted
  <2>2. pc[r] = "none" => Uncounted(r) = 0
    BY DEF Uncounted
  <2> QED
    BY <1>2, <1>3, <1>4, <2>1, <2>2, WindowKept DEF Windows
<1> QED
  BY <1>3, <1>5 DEF Windows

LEMMA ReadHeaderWindows ==
  ASSUME TypeOK, TypeOK', HeadOnce, Windows, ReadHeader
  PROVE  Windows'
<1> DEFINE f == Head(inbox)
<1>1. inbox # <<>> /\ inbox' = Tail(inbox) /\ f.type = "HEADER" /\ credit' = credit /\ todo' = todo
  BY DEF ReadHeader, Read, NextIs
<1>2. f.id \in Streams /\ pc[f.id] = "none"
  <2>1. f.id \in Streams
    BY <1>1, InboxHead DEF TypeOK
  <2>2. 1 \in 1..Len(inbox) /\ f = inbox[1]
    BY <1>1 DEF TypeOK, LinkTypeOK
  <2> QED
    BY <1>1, <2>1, <2>2 DEF HeadOnce, IsHead
<1>3. /\ streams' = streams \cup {f.id} /\ Q!SendFrame(Reader, WindowUpdate(f.id, 1))
      /\ pc' = [pc EXCEPT ![f.id] = IF "HEADER_END" \in f.flags THEN "created" ELSE pc[f.id]]
  BY DEF ReadHeader
<1>4. \A r \in Streams : state'[r].pending = state[r].pending
  BY DEF ReadHeader, TypeOK, AppTypeOK, StreamState
<1>5. \A r \in Streams : AcksToRead(r)' = AcksToRead(r)
  <2>1. \A r : Acknowledges(r, f) = 0
    BY <1>1 DEF Acknowledges
  <2> QED
    BY <1>1, <2>1, AcksInInbox DEF TypeOK
<1> HIDE DEF f
<1>6. \A r \in Streams : fut'[r] = fut[r]
  BY <1>3, SessionAssumption DEF Q!SendFrame, TypeOK, Q!TypeOK, Clients
<1>7. ASSUME NEW r \in Streams
      PROVE  \A h \in OnItsWay' : h \in OnItsWay \/ (h.owner # r /\ ~ Answers(h, r))
  <2>1. Reader # r /\ WindowUpdate(f.id, 1).type = "WINDOW_UPDATE"
    BY SessionAssumption DEF WindowUpdate, Frame
  <2>2. \A h \in OnItsWay' : h \in OnItsWay \/ h = [owner |-> Reader, frame |-> WindowUpdate(f.id, 1)]
    BY <1>3, SendAdds DEF TypeOK
  <2> QED
    BY <2>1, <2>2 DEF Answers
<1>s. PICK s \in Streams : s = f.id
  BY <1>2
<1>8. ASSUME NEW r \in Streams, r # s PROVE Sending(r)' /\ Untouched(r)' /\ Balance(r)'
  <2>1. pc'[r] = pc[r] /\ (r \in streams' => r \in streams)
    BY <1>3, <1>8, <1>s DEF TypeOK, AppTypeOK
  <2>2. Sending(r)'
    BY <1>1, <1>7, <2>1, SendingKept DEF Windows
  <2>3. Uncounted(r)' = Uncounted(r)
    BY <1>1, <1>6, <2>1 DEF Uncounted
  <2> QED
    BY <1>1, <1>4, <1>5, <2>1, <2>2, <2>3, WindowKept DEF Windows, Uncounted
<1>9. Sending(s)' /\ Untouched(s)' /\ Balance(s)'
  <2>0. pc[s] = "none"
    BY <1>2, <1>s
  <2>1. pc'[s] \in {"none", "created"}
    BY <1>3, <1>s, <2>0 DEF TypeOK, AppTypeOK
  <2>2. \A h \in OnItsWay : h.owner # s /\ ~ Answers(h, s)
    BY <2>0 DEF Windows, Sending, Awaits
  <2>3. \A h \in OnItsWay' : h.owner # s /\ ~ Answers(h, s)
    BY <1>7, <2>2
  <2>4. Sending(s)'
    BY <1>1, <2>3 DEF Windows, Sending, Answers
  <2>5. Uncounted(s)' = 0
    BY <2>1 DEF Uncounted
  <2>6. state'[s].pending = 0 /\ credit'[s] = 0 /\ AcksToRead(s)' = 0
    BY <1>1, <1>4, <1>5, <2>0 DEF Windows, Untouched
  <2> QED
    BY <2>4, <2>5, <2>6 DEF Untouched, Balance
<1> QED
  BY <1>8, <1>9 DEF Windows

(* The acknowledgement that is read is of bytes that have been counted, so *)
(* that what is left is not cut off at 0.                                  *)
LEMMA ReadWindowUpdateWindows ==
  ASSUME TypeOK, TypeOK', Windows, ReadWindowUpdate
  PROVE  Windows'
<1> DEFINE f == Head(inbox)
           s == f.id
           left == AfterAck(state[s].pending, f.payload)
<1>1. inbox # <<>> /\ inbox' = Tail(inbox) /\ f.type = "WINDOW_UPDATE"
      /\ UNCHANGED <<credit, todo, streams, queueVars>>
  BY DEF ReadWindowUpdate, Read, NextIs
<1>2. s \in Streams /\ f.payload \in Nat
  BY <1>1, InboxHead DEF TypeOK
<1>3. \A r : Acknowledges(r, f) = IF r = s THEN f.payload ELSE 0
  BY <1>1 DEF Acknowledges
<1>4. \A r \in Streams : AcksToRead(r) = Acknowledges(r, f) + AcksToRead(r)' /\ AcksToRead(r)' \in Nat
  BY <1>1, AcksInInbox DEF TypeOK
<1>5. \A r \in Streams : pc'[r] = pc[r] \/ (pc[r] = "window" /\ pc'[r] = "woken")
  BY DEF ReadWindowUpdate, TypeOK, AppTypeOK
<1>6. OnItsWay' = OnItsWay /\ fut' = fut
  BY <1>1, QueueStays DEF queueVars
<1>7. \A r \in Streams : Uncounted(r)' = Uncounted(r) /\ Uncounted(r) \in Nat
  BY <1>1, <1>5, <1>6, UncountedType DEF Uncounted, TypeOK
<1>8. \A r \in Streams : state'[r].pending = IF r = s /\ s \in streams THEN left ELSE state[r].pending
  <2>1. CASE s \in streams
    <3>1. state' = [state EXCEPT ![s].pending = left]
      BY <2>1 DEF ReadWindowUpdate
    <3> HIDE DEF left, s
    <3> QED
      BY <1>2, <2>1, <3>1 DEF TypeOK, AppTypeOK, StreamState
  <2>2. CASE s \notin streams
    BY <2>2 DEF ReadWindowUpdate
  <2> QED
    BY <2>1, <2>2
<1>n. \A r \in Streams : state[r].pending \in Nat /\ credit[r] \in Nat
  BY DEF TypeOK, LinkTypeOK, AppTypeOK, StreamState
<1> HIDE DEF f
<1>9. ASSUME NEW r \in Streams PROVE Sending(r)'
  <2>1. CASE pc'[r] = pc[r]
    BY <1>1, <1>6, <2>1, SendingKept DEF Windows
  <2>2. CASE pc[r] = "window" /\ pc'[r] = "woken"
    <3>1. \A h \in OnItsWay : h.owner # r
      BY <2>2 DEF Windows, Sending, Awaits
    <3> QED
      BY <1>1, <1>6, <2>2, <3>1 DEF Windows, Sending, Answers
  <2> QED
    BY <1>5, <2>1, <2>2
<1>10. ASSUME NEW r \in Streams PROVE Untouched(r)'
  BY <1>1, <1>3, <1>4, <1>5, <1>7, <1>8, <1>n, <1>2 DEF Windows, Untouched, AfterAck
<1>11. ASSUME NEW r \in Streams, r \in streams' PROVE Balance(r)'
  <2>1. /\ r \in streams /\ credit'[r] = credit[r]
        /\ state[r].pending + Uncounted(r) = credit[r] + AcksToRead(r)
        /\ credit[r] >= Uncounted(r)
    BY <1>1, <1>11 DEF Windows, Balance
  <2>2. CASE r # s
    BY <1>3, <1>4, <1>7, <1>8, <2>1, <2>2 DEF Balance
  <2>3. CASE r = s
    <3>1. state[r].pending >= f.payload
      BY <1>2, <1>3, <1>4, <1>7, <1>n, <2>1, <2>3
    <3>2. left = state[r].pending - f.payload
      BY <1>2, <1>n, <2>3, <3>1 DEF AfterAck
    <3>3. state'[r].pending = left
      BY <1>8, <2>1, <2>3
    <3> HIDE DEF left
    <3> QED
      BY <1>2, <1>3, <1>4, <1>7, <1>n, <2>1, <2>3, <3>2, <3>3 DEF Balance
  <2> QED
    BY <2>2, <2>3
<1> QED
  BY <1>9, <1>10, <1>11 DEF Windows, Balance

(* Nothing that counts for any stream changes. *)
LEMMA QuietWindows ==
  ASSUME Windows, OnItsWay' \subseteq OnItsWay, UNCHANGED <<pc, todo, streams, credit>>,
         \A r \in Streams :
           /\ Uncounted(r)' = Uncounted(r)
           /\ state'[r].pending = state[r].pending
           /\ AcksToRead(r)' = AcksToRead(r)
  PROVE  Windows'
<1> SUFFICES ASSUME NEW r \in Streams PROVE Sending(r)' /\ Untouched(r)' /\ Balance(r)'
  BY DEF Windows
<1>1. Sending(r)'
  <2>1. pc'[r] = pc[r] /\ todo'[r] = todo[r] /\ (r \in streams' => r \in streams)
    OBVIOUS
  <2> QED
    BY <2>1, SendingKept DEF Windows
<1>2. pc[r] = "none" => Uncounted(r) = 0
  BY DEF Uncounted
<1> QED
  BY <1>1, <1>2, WindowKept DEF Windows

LEMMA ReadDataWindows ==
  ASSUME TypeOK, TypeOK', Windows, ReadData
  PROVE  Windows'
<1>1. /\ inbox # <<>> /\ inbox' = Tail(inbox) /\ Head(inbox).type = "DATA"
      /\ UNCHANGED <<pc, todo, streams, credit, queueVars>>
  BY DEF ReadData, Read, NextIs
<1>2. \A r \in Streams : state'[r].pending = state[r].pending
  BY DEF ReadData, TypeOK, AppTypeOK, StreamState
<1>3. \A r \in Streams : AcksToRead(r)' = AcksToRead(r)
  <2>1. \A r : Acknowledges(r, Head(inbox)) = 0
    BY <1>1 DEF Acknowledges
  <2> QED
    BY <1>1, <2>1, AcksInInbox DEF TypeOK
<1>4. OnItsWay' = OnItsWay /\ fut' = fut
  BY <1>1, QueueStays DEF queueVars
<1>5. \A r \in Streams : Uncounted(r)' = Uncounted(r)
  BY <1>1, <1>4 DEF Uncounted
<1> QED
  BY <1>1, <1>2, <1>3, <1>4, <1>5, QuietWindows

LEMMA ReaderWindows ==
  ASSUME TypeOK, TypeOK', HeadOnce, Windows, ReaderStep \/ Cancel
  PROVE  Windows'
<1>1. ASSUME NEW how, EndSession(how), UNCHANGED credit PROVE Windows'
  BY <1>1, EndWindows
<1>2. CASE ReadBad \/ ReadEnd \/ AckFails
  BY <1>1, <1>2 DEF ReadBad, ReadEnd, AckFails, endVars
(* What is left is the reader alone, and perhaps the end of the writer. *)
<1>3. ASSUME UNCHANGED <<inbox, credit, streams, appVars>>,
             UNCHANGED queueVars \/ Q!Resume(Reader) \/ Q!WriterCancelled
      PROVE  Windows'
  <2>1. OnItsWay' \subseteq OnItsWay
    <3>1. CASE UNCHANGED queueVars \/ Q!Resume(Reader)
      BY <3>1, QueueStays DEF queueVars, Q!Resume
    <3>2. CASE Q!WriterCancelled
      BY <3>2, WriterTakes DEF TypeOK
    <3> QED
      BY <1>3, <3>1, <3>2
  <2>2. \A r \in Streams : fut'[r] = fut[r]
    BY <1>3, SessionAssumption DEF queueVars, Q!Resume, Q!WriterCancelled, TypeOK, Q!TypeOK, Clients
  <2>3. UNCHANGED <<pc, todo, state, streams, credit>>
    BY <1>3 DEF appVars
  <2>4. \A r \in Streams : Uncounted(r)' = Uncounted(r)
    BY <2>2, <2>3 DEF Uncounted
  <2>5. \A r \in Streams : AcksToRead(r)' = AcksToRead(r)
    BY <1>3, AcksInInbox DEF TypeOK
  <2> QED
    BY <2>1, <2>3, <2>4, <2>5, QuietWindows
<1>4. CASE AckSent
  BY <1>3, <1>4 DEF AckSent, linkVars
<1>5. CASE Join
  BY <1>3, <1>5 DEF Join, linkVars
<1>6. CASE Cancel
  <2>1. CASE EndSession("cancelled")
    BY <1>1, <1>6, <2>1 DEF Cancel, endVars
  <2>2. CASE UNCHANGED <<inbox, streams, appVars>> /\ (Q!WriterCancelled \/ UNCHANGED queueVars)
    BY <1>3, <1>6, <2>2 DEF Cancel, endVars
  <2> QED
    BY <1>6, <2>1, <2>2 DEF Cancel
<1> QED
  BY <1>2, <1>4, <1>5, <1>6, ReadHeaderWindows, ReadDataWindows, ReadWindowUpdateWindows,
     ReadResetWindows DEF ReaderStep

LEMMA RouterWindows ==
  ASSUME TypeOK, TypeOK', Windows, NEW s \in Streams, RouterStep(s)
  PROVE  Windows'
<1>1. UNCHANGED <<pc, todo, state, streams, queueVars>>
  BY DEF RouterStep, RouterHeader, RouterData, RouterReset, RouterAck, RouterBad, appVars, sessionVars
<1>2. OnItsWay' = OnItsWay /\ \A r \in Streams : Uncounted(r)' = Uncounted(r)
  BY <1>1, QueueStays DEF queueVars, Uncounted
<1>3. ASSUME NEW type \in {"HEADER", "DATA", "RST_STREAM", "BAD"},
             NEW flags \in SUBSET {"STREAM_END", "HEADER_END"}, NEW n \in Nat,
             Arrive(Frame(type, flags, s, n)), UNCHANGED credit
      PROVE  Windows'
  <2>1. Frame(type, flags, s, n) \in RouterFrames
    BY RouterFrameType DEF MessageType
  <2>2. \A r : Acknowledges(r, Frame(type, flags, s, n)) = 0
    BY DEF Acknowledges, Frame
  <2>3. \A r \in Streams : AcksToRead(r)' = AcksToRead(r)
    BY <1>3, <2>1, <2>2, AcksInInbox DEF TypeOK
  <2> QED
    BY <1>1, <1>2, <1>3, <2>3, QuietWindows
<1>4. CASE RouterHeader(s)
  BY <1>3, <1>4 DEF RouterHeader
<1>5. CASE RouterData(s)
  <2>1. reqs[s] + 1 \in Nat
    BY DEF TypeOK, LinkTypeOK
  <2> QED
    BY <1>3, <1>5, <2>1 DEF RouterData
<1>6. CASE RouterReset(s) \/ RouterBad(s)
  BY <1>3, <1>6 DEF RouterReset, RouterBad
<1>7. CASE RouterAck(s)
  <2>1. PICK n \in 1..(credit[s] - Uncounted(s)) :
          /\ s \in streams /\ Arrive(WindowUpdate(s, n))
          /\ credit' = [credit EXCEPT ![s] = @ - n]
    BY <1>7 DEF RouterAck
  <2>2. credit \in [Streams -> Nat] /\ Uncounted(s) \in Nat /\ n \in Nat \ {0} /\ n <= credit[s] - Uncounted(s)
    BY <2>1, UncountedType DEF TypeOK, LinkTypeOK
  <2>3. WindowUpdate(s, n) \in RouterFrames
    BY <2>2, RouterFrameType DEF WindowUpdate, MessageType
  <2>4. \A r : Acknowledges(r, WindowUpdate(s, n)) = IF r = s THEN n ELSE 0
    BY DEF Acknowledges, WindowUpdate, Frame
  <2>5. \A r \in Streams : AcksToRead(r)' = AcksToRead(r) + (IF r = s THEN n ELSE 0) /\ AcksToRead(r) \in Nat
    BY <2>1, <2>3, <2>4, AcksInInbox DEF TypeOK
  <2>6. \A r \in Streams : Sending(r)'
    BY <1>1, <1>2, SendingKept DEF Windows
  <2>7. \A r \in Streams : Untouched(r)' /\ Balance(r)'
    <3> SUFFICES ASSUME NEW r \in Streams PROVE Untouched(r)' /\ Balance(r)'
      OBVIOUS
    <3>1. CASE r # s
      <4>1. credit'[r] = credit[r] /\ AcksToRead(r)' = AcksToRead(r)
        BY <2>1, <2>2, <2>5, <3>1
      <4>2. pc[r] = "none" => Uncounted(r) = 0
        BY DEF Uncounted
      <4> QED
        BY <1>1, <1>2, <4>1, <4>2, WindowKept DEF Windows
    <3>2. CASE r = s
      <4>1. credit'[s] = credit[s] - n /\ AcksToRead(s)' = AcksToRead(s) + n /\ AcksToRead(s) \in Nat
        BY <2>1, <2>2, <2>5
      <4>2. pc[s] # "none"
        BY <2>2 DEF Windows, Untouched
      <4>3. state[s].pending + Uncounted(s) = credit[s] + AcksToRead(s)
        BY <2>1 DEF Windows, Balance
      <4>4. Balance(s)'
        BY <1>1, <1>2, <2>2, <4>1, <4>3 DEF Balance
      <4> QED
        BY <1>1, <3>2, <4>2, <4>4 DEF Untouched
    <3> QED
      BY <3>1, <3>2
  <2> QED
    BY <2>6, <2>7 DEF Windows
<1> QED
  BY <1>4, <1>5, <1>6, <1>7 DEF RouterStep

(* A frame of the response is credited to the router as its future is      *)
(* answered; what an open stream sends is the frame that its task awaits.  *)
LEMMA SentWindows ==
  ASSUME TypeOK, TypeOK', Q!OneLiveItem, Windows, Sent
  PROVE  Windows'
<1> DEFINE h == writing
           f == h.frame
<1>1. /\ UNCHANGED <<inbox, streams, pc, todo, state>> /\ Q!WriterSent
      /\ credit' = IF f.type = "WINDOW_UPDATE" THEN credit ELSE [credit EXCEPT ![f.id] = @ + f.payload]
  BY DEF Sent, sessionVars, appVars
<1>2. writing \in Q!Item /\ f \in Frames /\ h \in OnItsWay
  BY <1>1 DEF TypeOK, Q!TypeOK, Q!WriterSent, Q!Item, OnItsWay
<1>3. f.id \in Streams /\ f.payload \in Nat
  BY <1>2, FrameFields
<1>4. \A c \in Clients : fut'[c] = IF c = h.owner THEN "ok" ELSE fut[c]
  BY <1>1 DEF TypeOK, Q!TypeOK, Q!WriterSent, Q!Resolve
<1>5. \A r \in Streams : credit'[r] = IF Answers(h, r) THEN credit[r] + f.payload ELSE credit[r]
  BY <1>1, <1>3 DEF Answers, TypeOK, LinkTypeOK
<1>6. OnItsWay' \subseteq OnItsWay
  BY <1>1, WriterTakes DEF TypeOK
<1>7. \A r \in Streams : AcksToRead(r)' = AcksToRead(r)
  BY <1>1, AcksInInbox DEF TypeOK
<1> HIDE DEF f, h
<1> SUFFICES ASSUME NEW r \in Streams PROVE Sending(r)' /\ Untouched(r)' /\ Balance(r)'
  BY DEF Windows
<1>8. Sending(r)'
  BY <1>1, <1>6, SendingKept DEF Windows
<1>c. r \in Clients
  BY DEF Clients
<1>n. credit[r] \in Nat /\ state[r].pending \in Nat /\ Uncounted(r) \in Nat /\ AcksToRead(r) \in Nat
  BY UncountedType, AcksInInbox DEF TypeOK, LinkTypeOK, AppTypeOK, StreamState
<1>9. CASE h.owner # r /\ ~ Answers(h, r)
  <2>1. Uncounted(r)' = Uncounted(r) /\ credit'[r] = credit[r]
    BY <1>1, <1>4, <1>5, <1>9, <1>c DEF Uncounted
  <2>2. pc[r] = "none" => Uncounted(r) = 0
    BY DEF Uncounted
  <2> QED
    BY <1>1, <1>7, <1>8, <2>1, <2>2, WindowKept DEF Windows
<1>10. CASE h.owner # r /\ Answers(h, r)
  <2>1. pc[r] # "none" /\ r \notin streams
    BY <1>2, <1>10 DEF Windows, Sending
  <2> QED
    BY <1>1, <1>8, <2>1 DEF Untouched, Balance
<1>11. CASE h.owner = r
  <2>1. Awaits(r) /\ h.frame = Awaited(r)
    BY <1>2, <1>11 DEF Windows, Sending
  <2>2. fut[r] = "pending" /\ Uncounted(r) = 0
    BY <1>2, <1>11, <1>c, CarriedIsPending DEF TypeOK, Uncounted
  <2>3. credit'[r] = credit[r] + Uncounted(r)' /\ Uncounted(r)' \in Nat
    <3>1. CASE pc[r] = "send"
      <4>1. h.frame = Head(todo[r])
        BY <2>1, <3>1 DEF Awaited
      <4>2. Head(todo[r]) \in ResponseFrames(r)
        <5>1. todo[r] \in Seq(Frames) /\ todo[r] # <<>>
          BY <3>1 DEF TypeOK, AppTypeOK
        <5>2. Head(todo[r]) = todo[r][1] /\ 1 \in 1..Len(todo[r])
          BY <5>1
        <5> QED
          BY <5>2 DEF Windows, Sending
      <4>3. Answers(h, r)
        BY <4>1, <4>2 DEF Answers, ResponseFrames
      <4>4. Uncounted(r)' = f.payload
        BY <1>1, <1>4, <1>11, <1>c, <3>1, <4>1 DEF Uncounted, f
      <4> QED
        BY <1>3, <1>5, <4>3, <4>4
    <3>2. CASE pc[r] # "send"
      <4>1. Uncounted(r)' = 0
        BY <1>1, <3>2 DEF Uncounted
      <4>2. Answers(h, r) => f.payload = 0
        BY <2>1, <3>2 DEF Awaits, Awaited, Answers, WindowUpdate, Frame, f
      <4> QED
        BY <1>5, <1>n, <4>1, <4>2
    <3> QED
      BY <3>1, <3>2
  <2>4. Untouched(r)'
    BY <1>1, <2>1 DEF Awaits, Untouched
  <2>5. Balance(r)'
    BY <1>1, <1>7, <1>n, <2>2, <2>3 DEF Windows, Balance
  <2> QED
    BY <1>8, <2>4, <2>5
<1> QED
  BY <1>9, <1>10, <1>11

LEMMA WindowsStep ==
  ASSUME "timeout" \notin AppMay, TypeOK, TypeOK', Q!OneLiveItem, HeadOnce, Windows, [Next]_vars
  PROVE  Windows'
<1>1. CASE ReaderStep \/ Cancel
  BY <1>1, ReaderWindows
<1>2. CASE \E s \in Streams : RouterStep(s)
  BY <1>2, RouterWindows
<1>3. CASE \E s \in Streams : AppStep(s) \/ TaskStep(s) \/ CallTimeout(s)
  BY <1>3, TaskWindows
<1>4. CASE Sent
  BY <1>4, SentWindows
<1>5. CASE LinkEnd \/ Get \/ SendFails \/ UNCHANGED vars
  <2>1. UNCHANGED <<inbox, credit, streams, pc, todo, state>>
    BY <1>5 DEF LinkEnd, Get, SendFails, vars, linkVars, sessionVars, appVars
  <2>2. UNCHANGED queueVars \/ Q!WriterGet \/ Q!WriterFail
    BY <1>5 DEF LinkEnd, Get, SendFails, vars
  <2>3. OnItsWay' \subseteq OnItsWay
    <3>1. CASE UNCHANGED queueVars
      BY <3>1, QueueStays DEF queueVars
    <3>2. CASE Q!WriterGet \/ Q!WriterFail
      BY <3>2, WriterTakes DEF TypeOK
    <3> QED
      BY <2>2, <3>1, <3>2
  <2>4. \A r \in Streams : AcksToRead(r)' = AcksToRead(r)
    BY <2>1, AcksInInbox DEF TypeOK
  <2>5. \A r \in Streams : fut'[r] = fut[r] \/ (fut[r] = "pending" /\ fut'[r] = "err")
    <3>1. CASE UNCHANGED queueVars \/ Q!WriterGet
      BY <3>1 DEF queueVars, Q!WriterGet
    <3>2. CASE Q!WriterFail
      <4>1. writing \in OnItsWay
        BY <3>2 DEF TypeOK, Q!TypeOK, Q!WriterFail, OnItsWay
      <4>2. writing.owner \in Clients => fut[writing.owner] = "pending"
        BY <4>1, CarriedIsPending DEF TypeOK
      <4>3. fut' = fut \/ (writing.owner \in Clients /\ fut' = [fut EXCEPT ![writing.owner] = "err"])
        BY <3>2 DEF Q!WriterFail, Q!Resolve
      <4> QED
        BY <4>2, <4>3 DEF TypeOK, Q!TypeOK, Clients
    <3> QED
      BY <2>2, <3>1, <3>2
  <2>6. \A r \in Streams : Uncounted(r)' = Uncounted(r)
    BY <2>1, <2>5 DEF Uncounted
  <2> QED
    BY <2>1, <2>3, <2>4, <2>6, QuietWindows
<1> QED
  BY <1>1, <1>2, <1>3, <1>4, <1>5 DEF Next

LEMMA WindowsInit == Init => Windows
<1> SUFFICES ASSUME Init, NEW s \in Streams PROVE Sending(s) /\ Untouched(s) /\ Balance(s)
  BY DEF Windows
<1>1. OnItsWay = {}
  BY SessionAssumption DEF Init, Q!Init, OnItsWay
<1>2. AcksToRead(s) = 0
  <2>1. LinkTypeOK /\ inbox = <<>>
    BY TypeInit DEF Init, TypeOK
  <2>2. inbox \in Seq(RouterFrames) /\ AckWeight(s) \in [RouterFrames -> Nat]
    BY <2>1, AckWeights DEF LinkTypeOK
  <2>3. AcksToRead(s) = Weight(AckWeight(s), inbox)
    BY <2>2, AckWeights DEF AcksToRead
  <2> QED
    BY <2>1, <2>3, WeightEmpty
<1>3. todo[s] = <<>> /\ pc[s] = "none" /\ state[s].pending = 0 /\ credit[s] = 0 /\ streams = {}
  BY DEF Init
<1> QED
  BY <1>1, <1>2, <1>3 DEF Sending, Untouched, Balance

(***************************************************************************)
(* No byte of a response is lost or counted twice on the way to the router *)
(* and back, through resets, failures and cancellations, as long as the    *)
(* app gives no send up: what an open stream counts as pending is what the *)
(* router has still to acknowledge and what it has acknowledged and nobody *)
(* has read.                                                               *)
(***************************************************************************)
THEOREM WindowAccountingHolds == "timeout" \notin AppMay /\ SafeSpec => []WindowAccounting
<1> SUFFICES ASSUME "timeout" \notin AppMay PROVE SafeSpec => []WindowAccounting
  OBVIOUS
<1>1. Init => HeadOnce
  BY HeadOnceInit
<1>2. TypeOK /\ HeadOnce /\ [Next]_vars => HeadOnce'
  BY HeadOnceStep
<1>3. TypeOK /\ TypeOK' /\ Q!OneLiveItem /\ HeadOnce /\ Windows /\ [Next]_vars => Windows'
  BY WindowsStep
<1>4. TypeOK /\ Windows => WindowAccounting
  BY DEF TypeOK, ReaderTypeOK, Windows, Balance, WindowAccounting
<1> QED
  BY <1>1, <1>2, <1>3, <1>4, WindowsInit, TypeCorrect, QueueOneLiveItem, PTL DEF SafeSpec

-----------------------------------------------------------------------------
(* The sums over the request frames, the chunks and the acknowledgements.  *)

(* Each element of q weighs the same in r. *)
LEMMA WeightSame ==
  ASSUME NEW w, NEW q, NEW r, DOMAIN r = DOMAIN q, \A i \in DOMAIN q : w[r[i]] = w[q[i]]
  PROVE  Weight(w, r) = Weight(w, q)
<1>1. [i \in DOMAIN r |-> w[r[i]]] = [i \in DOMAIN q |-> w[q[i]]]
  OBVIOUS
<1> QED
  BY <1>1 DEF Weight

(* A request frame of s is worth 1. *)
Worth(s, f) == IF f.id = s /\ f.type \in {"HEADER", "DATA"} /\ f.payload > 0 THEN 1 ELSE 0

FrameWeight(s) == [f \in RouterFrames |-> Worth(s, f)]

LEMMA FrameWeights ==
  \A s : /\ FrameWeight(s) \in [RouterFrames -> Nat]
         /\ \A q \in Seq(RouterFrames) :
              Total([i \in DOMAIN q |-> Worth(s, q[i])]) = Weight(FrameWeight(s), q)
<1> SUFFICES ASSUME NEW s
             PROVE  /\ FrameWeight(s) \in [RouterFrames -> Nat]
                    /\ \A q \in Seq(RouterFrames) :
                         Total([i \in DOMAIN q |-> Worth(s, q[i])]) = Weight(FrameWeight(s), q)
  OBVIOUS
<1>1. FrameWeight(s) \in [RouterFrames -> Nat]
  BY DEF FrameWeight, Worth
<1>2. ASSUME NEW q \in Seq(RouterFrames)
      PROVE  Total([i \in DOMAIN q |-> Worth(s, q[i])]) = Weight(FrameWeight(s), q)
  <2>1. \A i \in DOMAIN q : FrameWeight(s)[q[i]] = Worth(s, q[i])
    BY <1>2 DEF FrameWeight
  <2>2. [i \in DOMAIN q |-> FrameWeight(s)[q[i]]] = [i \in DOMAIN q |-> Worth(s, q[i])]
    BY <2>1
  <2> QED
    BY <2>2 DEF Weight
<1> QED
  BY <1>1, <1>2

LEMMA FramesToRead ==
  ASSUME LinkTypeOK, LinkTypeOK', NEW s
  PROVE  /\ ToRead(s) \in Nat /\ ToRead(s)' \in Nat
         /\ \A f \in RouterFrames : Arrive(f) => ToRead(s)' = ToRead(s) + Worth(s, f)
         /\ inbox # <<>> /\ inbox' = Tail(inbox) => ToRead(s) = Worth(s, Head(inbox)) + ToRead(s)'
         /\ inbox' = inbox => ToRead(s)' = ToRead(s)
<1> DEFINE w == FrameWeight(s)
<1>1. inbox \in Seq(RouterFrames) /\ inbox' \in Seq(RouterFrames) /\ w \in [RouterFrames -> Nat]
  BY FrameWeights DEF LinkTypeOK
<1>2. ToRead(s) = Weight(w, inbox) /\ ToRead(s)' = Weight(w, inbox')
  BY <1>1, FrameWeights DEF ToRead, Worth
<1>4. \A f \in RouterFrames : w[f] = Worth(s, f)
  BY DEF FrameWeight
<1> HIDE DEF w
<1>5. Weight(w, inbox) \in Nat /\ Weight(w, inbox') \in Nat
  BY <1>1, WeightType
<1>6. ASSUME NEW f \in RouterFrames, Arrive(f) PROVE Weight(w, inbox') = Weight(w, inbox) + w[f]
  BY <1>1, <1>6, WeightAppend DEF Arrive
<1>7. ASSUME inbox # <<>>, inbox' = Tail(inbox)
      PROVE  Weight(w, inbox) = w[Head(inbox)] + Weight(w, inbox') /\ Head(inbox) \in RouterFrames
  BY <1>1, <1>7, WeightTail
<1> QED
  BY <1>2, <1>4, <1>5, <1>6, <1>7

(* A chunk on the request queue is worth 1, a sentinel nothing. *)
ChunkWeight == [x \in RequestItem |-> IF x > 0 THEN 1 ELSE 0]

LEMMA ChunkWeights ==
  /\ ChunkWeight \in [RequestItem -> Nat]
  /\ \A q \in Seq(RequestItem) :
       Total([i \in DOMAIN q |-> IF q[i] > 0 THEN 1 ELSE 0]) = Weight(ChunkWeight, q)
<1>1. ChunkWeight \in [RequestItem -> Nat]
  BY DEF ChunkWeight
<1>2. ASSUME NEW q \in Seq(RequestItem)
      PROVE  Total([i \in DOMAIN q |-> IF q[i] > 0 THEN 1 ELSE 0]) = Weight(ChunkWeight, q)
  <2>1. \A i \in DOMAIN q : ChunkWeight[q[i]] = IF q[i] > 0 THEN 1 ELSE 0
    BY <1>2 DEF ChunkWeight
  <2>2. [i \in DOMAIN q |-> ChunkWeight[q[i]]] = [i \in DOMAIN q |-> IF q[i] > 0 THEN 1 ELSE 0]
    BY <2>1
  <2> QED
    BY <2>2 DEF Weight
<1> QED
  BY <1>1, <1>2

(* What the acknowledgements of the request on their way give back. *)
AnswerWeight(s) == [h \in Q!Item \cup {Stop} |-> GivesBack(s, h)]

LEMMA GivesBackType ==
  ASSUME NEW s
  PROVE  /\ \A h \in Q!Item : GivesBack(s, h) = Acknowledges(s, h.frame) /\ GivesBack(s, h) \in Nat
         /\ GivesBack(s, Stop) = 0 /\ GivesBack(s, NoItem) = 0
<1>1. ASSUME NEW h \in Q!Item PROVE GivesBack(s, h) = Acknowledges(s, h.frame) /\ GivesBack(s, h) \in Nat
  <2>1. h.frame \in Frames /\ h \notin {Stop, NoItem}
    BY SessionAssumption DEF Q!Item
  <2> QED
    BY <2>1, FrameFields DEF GivesBack, Acknowledges
<1> QED
  BY <1>1 DEF GivesBack

LEMMA AnswerWeights ==
  \A s : /\ AnswerWeight(s) \in [Q!Item \cup {Stop} -> Nat]
         /\ \A q \in Seq(Q!Item \cup {Stop}) :
              Total([i \in DOMAIN q |-> GivesBack(s, q[i])]) = Weight(AnswerWeight(s), q)
<1> SUFFICES ASSUME NEW s
             PROVE  /\ AnswerWeight(s) \in [Q!Item \cup {Stop} -> Nat]
                    /\ \A q \in Seq(Q!Item \cup {Stop}) :
                         Total([i \in DOMAIN q |-> GivesBack(s, q[i])]) = Weight(AnswerWeight(s), q)
  OBVIOUS
<1>1. AnswerWeight(s) \in [Q!Item \cup {Stop} -> Nat]
  BY GivesBackType DEF AnswerWeight
<1>2. ASSUME NEW q \in Seq(Q!Item \cup {Stop})
      PROVE  Total([i \in DOMAIN q |-> GivesBack(s, q[i])]) = Weight(AnswerWeight(s), q)
  <2>1. \A i \in DOMAIN q : AnswerWeight(s)[q[i]] = GivesBack(s, q[i])
    BY <1>2 DEF AnswerWeight
  <2>2. [i \in DOMAIN q |-> AnswerWeight(s)[q[i]]] = [i \in DOMAIN q |-> GivesBack(s, q[i])]
    BY <2>1
  <2> QED
    BY <2>2 DEF Weight
<1> QED
  BY <1>1, <1>2

LEMMA AcksOnTheirWay ==
  ASSUME Q!TypeOK, Q!TypeOK', NEW s
  PROVE  /\ AcksToWrite(s) \in Nat
         /\ AcksToWrite(s)' \in Nat
         /\ UNCHANGED <<writeq, writing>> => AcksToWrite(s)' = AcksToWrite(s)
         /\ \A c \in Clients, f \in Frames :
              Q!SendFrame(c, f) => AcksToWrite(s)' = AcksToWrite(s) + Acknowledges(s, f)
         /\ \A C \in SUBSET Clients : Q!Abandon(C) => AcksToWrite(s)' = AcksToWrite(s)
         /\ Q!WriterGet /\ writer' = "sending" => AcksToWrite(s)' = AcksToWrite(s)
         /\ Q!WriterSent => AcksToWrite(s) = AcksToWrite(s)' + Acknowledges(s, writing.frame)
<1> DEFINE w == AnswerWeight(s)
           D == Q!Item \cup {Stop}
<1>1. writeq \in Seq(D) /\ writeq' \in Seq(D) /\ w \in [D -> Nat] /\ writing \in Q!Item \cup {NoItem}
  BY AnswerWeights DEF Q!TypeOK
<1>t. \A q \in Seq(D) : Total([i \in DOMAIN q |-> GivesBack(s, q[i])]) = Weight(w, q)
  BY AnswerWeights
<1>n. writing' \in Q!Item \cup {NoItem}
  BY DEF Q!TypeOK
<1>2. AcksToWrite(s) = Weight(w, writeq) + GivesBack(s, writing)
  BY <1>1, <1>t DEF AcksToWrite
<1>3. AcksToWrite(s)' = Weight(w, writeq') + GivesBack(s, writing')
  BY <1>1, <1>t DEF AcksToWrite
<1>4. \A h \in D : w[h] = GivesBack(s, h)
  BY DEF AnswerWeight
<1>5. \A h \in Q!Item : h \in D /\ GivesBack(s, h) = Acknowledges(s, h.frame) /\ GivesBack(s, h) \in Nat
  BY GivesBackType
<1>6. GivesBack(s, Stop) = 0 /\ GivesBack(s, NoItem) = 0
  BY GivesBackType
<1>i. \A h \in Q!Item : \A C : Q!Disown(h, C) \in Q!Item /\ Q!Disown(h, C).frame = h.frame
  BY DEF Q!Disown, Q!Item
<1>o. \A h, C : h \notin Q!Item => Q!Disown(h, C) = h
  BY DEF Q!Disown
<1> HIDE DEF w, D
<1>7. Weight(w, writeq) \in Nat /\ Weight(w, writeq') \in Nat
  BY <1>1, WeightType
<1>8. GivesBack(s, writing) \in Nat /\ GivesBack(s, writing') \in Nat
  BY <1>1, <1>n, <1>5, <1>6
<1>9. ASSUME NEW c \in Clients, NEW f \in Frames, Q!SendFrame(c, f)
      PROVE  AcksToWrite(s)' = AcksToWrite(s) + Acknowledges(s, f)
  <2>1. [owner |-> c, frame |-> f] \in Q!Item
    BY DEF Q!Item
  <2>2. w[[owner |-> c, frame |-> f]] = Acknowledges(s, f) /\ Acknowledges(s, f) \in Nat
    BY <1>4, <1>5, <2>1
  <2>3. Weight(w, writeq') = Weight(w, writeq) + w[[owner |-> c, frame |-> f]]
    BY <1>1, <1>5, <1>9, <2>1, WeightAppend DEF Q!SendFrame
  <2>4. writing' = writing
    BY <1>9 DEF Q!SendFrame
  <2> QED
    BY <1>2, <1>3, <1>7, <1>8, <2>2, <2>3, <2>4
<1>10. ASSUME NEW C \in SUBSET Clients, Q!Abandon(C) PROVE AcksToWrite(s)' = AcksToWrite(s)
  <2>1. /\ DOMAIN writeq' = DOMAIN writeq
        /\ \A i \in DOMAIN writeq : writeq'[i] = Q!Disown(writeq[i], C) /\ writeq[i] \in D
    BY <1>1, <1>10 DEF Q!Abandon
  <2>2. \A h \in D : w[Q!Disown(h, C)] = w[h]
    BY <1>4, <1>5, <1>i, <1>o DEF D
  <2>3. Weight(w, writeq') = Weight(w, writeq)
    BY <2>1, <2>2, WeightSame
  <2>4. GivesBack(s, writing') = GivesBack(s, writing)
    <3>1. writing' = Q!Disown(writing, C)
      BY <1>10 DEF Q!Abandon
    <3> QED
      BY <1>5, <1>i, <1>o, <3>1
  <2> QED
    BY <1>2, <1>3, <2>3, <2>4
<1>11. ASSUME Q!WriterGet, writer' = "sending" PROVE AcksToWrite(s)' = AcksToWrite(s)
  <2>1. writing = NoItem /\ writeq # <<>> /\ writeq' = Tail(writeq) /\ writing' = Head(writeq)
    BY <1>11 DEF Q!WriterGet, Q!TypeOK
  <2>2. Weight(w, writeq) = w[Head(writeq)] + Weight(w, Tail(writeq)) /\ Head(writeq) \in D
    BY <1>1, <2>1, WeightTail
  <2>3. w[Head(writeq)] = GivesBack(s, writing') /\ w[Head(writeq)] \in Nat
    BY <1>1, <1>4, <2>1, <2>2
  <2> QED
    BY <1>2, <1>3, <1>6, <1>7, <2>1, <2>2, <2>3
<1>12. ASSUME Q!WriterSent PROVE AcksToWrite(s) = AcksToWrite(s)' + Acknowledges(s, writing.frame)
  <2>1. writing \in Q!Item /\ writing' = NoItem /\ writeq' = writeq
    BY <1>12 DEF Q!WriterSent, Q!TypeOK
  <2> QED
    BY <1>2, <1>3, <1>5, <1>6, <1>7, <2>1
<1>13. ASSUME UNCHANGED <<writeq, writing>> PROVE AcksToWrite(s)' = AcksToWrite(s)
  BY <1>2, <1>3, <1>13
<1>14. AcksToWrite(s) \in Nat /\ AcksToWrite(s)' \in Nat
  BY <1>2, <1>3, <1>7, <1>8
<1> QED
  BY <1>9, <1>10, <1>11, <1>12, <1>13, <1>14

-----------------------------------------------------------------------------
(* The order of the frames of one request.                                 *)

(* The last frame of the request head of s is ahead of place i, or         *)
(* anywhere, on the link, or has been read.                                *)
HeadAhead(s, i) == pc[s] # "none" \/ \E j \in 1..(i - 1) : EndsHead(inbox[j]) /\ inbox[j].id = s
HeadCame(s) == pc[s] # "none" \/ \E j \in 1..Len(inbox) : EndsHead(inbox[j]) /\ inbox[j].id = s

HeadFirst ==
  \A s \in Streams :
    /\ \A i \in 1..Len(inbox) : inbox[i].id = s =>
         /\ inbox[i].type = "HEADER" => inbox[i].payload = 1
         /\ inbox[i].type = "DATA" => HeadAhead(s, i)
    /\ SessionOpen /\ request[s] = "body" => HeadCame(s)

LEMMA HeadFirstKept ==
  ASSUME HeadFirst, UNCHANGED <<inbox, request>>, SessionOpen' => SessionOpen,
         \A s \in Streams : pc[s] # "none" => pc'[s] # "none"
  PROVE  HeadFirst'
<1> SUFFICES ASSUME NEW s \in Streams
             PROVE  (/\ \A i \in 1..Len(inbox) : inbox[i].id = s =>
                          /\ inbox[i].type = "HEADER" => inbox[i].payload = 1
                          /\ inbox[i].type = "DATA" => HeadAhead(s, i)
                     /\ SessionOpen /\ request[s] = "body" => HeadCame(s))'
  BY DEF HeadFirst
<1>1. \A i : HeadAhead(s, i) => HeadAhead(s, i)'
  BY DEF HeadAhead
<1>2. HeadCame(s) => HeadCame(s)'
  BY DEF HeadCame
<1> QED
  BY <1>1, <1>2 DEF HeadFirst

LEMMA ArriveHeadFirst ==
  ASSUME TypeOK, HeadFirst, NEW f \in RouterFrames, Arrive(f), UNCHANGED <<pc, reader>>,
         f.type = "HEADER" => f.payload = 1,
         f.type = "DATA" => request[f.id] = "body",
         \A s \in Streams : request'[s] = "body" => request[s] = "body" \/ (EndsHead(f) /\ f.id = s)
  PROVE  HeadFirst'
<1>1. /\ Len(inbox') = Len(inbox) + 1 /\ Len(inbox) \in Nat /\ inbox'[Len(inbox) + 1] = f
      /\ \A i \in 1..Len(inbox) : inbox'[i] = inbox[i] /\ inbox[i].id \in Streams
  BY InboxGrows DEF TypeOK
<1>2. SessionOpen
  BY DEF Arrive
<1> SUFFICES ASSUME NEW s \in Streams
             PROVE  (/\ \A i \in 1..Len(inbox) : inbox[i].id = s =>
                          /\ inbox[i].type = "HEADER" => inbox[i].payload = 1
                          /\ inbox[i].type = "DATA" => HeadAhead(s, i)
                     /\ SessionOpen /\ request[s] = "body" => HeadCame(s))'
  BY DEF HeadFirst
<1>3. ASSUME NEW i \in 1..Len(inbox), HeadAhead(s, i) PROVE HeadAhead(s, i)'
  BY <1>1, <1>3 DEF HeadAhead
<1>4. HeadCame(s) => HeadCame(s)' /\ HeadAhead(s, Len(inbox) + 1)
  BY <1>1 DEF HeadCame, HeadAhead
<1>5. EndsHead(f) /\ f.id = s => HeadCame(s)'
  BY <1>1 DEF HeadCame, EndsHead
<1>6. ASSUME NEW i \in 1..Len(inbox'), inbox'[i].id = s
      PROVE  /\ inbox'[i].type = "HEADER" => inbox'[i].payload = 1
             /\ inbox'[i].type = "DATA" => HeadAhead(s, i)'
  <2>1. CASE i \in 1..Len(inbox)
    BY <1>1, <1>3, <1>6, <2>1 DEF HeadFirst
  <2>2. CASE i = Len(inbox) + 1
    <3>1. inbox'[i] = f
      BY <1>1, <2>2
    <3>2. ASSUME f.type = "DATA" PROVE HeadAhead(s, i)'
      <4>1. HeadCame(s)
        BY <1>2, <1>6, <3>1, <3>2 DEF HeadFirst
      <4> QED
        BY <1>1, <2>2, <4>1 DEF HeadCame, HeadAhead
    <3> QED
      BY <3>1, <3>2
  <2> QED
    BY <1>1, <2>1, <2>2
<1>7. SessionOpen' /\ request'[s] = "body" => HeadCame(s)'
  BY <1>2, <1>4, <1>5 DEF HeadFirst
<1> QED
  BY <1>6, <1>7

LEMMA TailHeadFirst ==
  ASSUME TypeOK, HeadFirst, inbox # <<>>, inbox' = Tail(inbox), UNCHANGED request,
         SessionOpen' => SessionOpen,
         \A s \in Streams : pc[s] # "none" => pc'[s] # "none",
         \A s \in Streams : EndsHead(Head(inbox)) /\ Head(inbox).id = s => pc'[s] # "none"
  PROVE  HeadFirst'
<1>1. /\ Len(inbox') = Len(inbox) - 1 /\ Len(inbox) \in Nat \ {0}
      /\ Head(inbox) = inbox[1]
      /\ \A i \in 1..Len(inbox') : inbox'[i] = inbox[i + 1] /\ i + 1 \in 1..Len(inbox)
  BY InboxShrinks DEF TypeOK
<1> SUFFICES ASSUME NEW s \in Streams
             PROVE  (/\ \A i \in 1..Len(inbox) : inbox[i].id = s =>
                          /\ inbox[i].type = "HEADER" => inbox[i].payload = 1
                          /\ inbox[i].type = "DATA" => HeadAhead(s, i)
                     /\ SessionOpen /\ request[s] = "body" => HeadCame(s))'
  BY DEF HeadFirst
<1>2. ASSUME NEW j \in 1..Len(inbox), EndsHead(inbox[j]), inbox[j].id = s
      PROVE  pc'[s] # "none" \/ (j - 1 \in 1..Len(inbox') /\ EndsHead(inbox'[j - 1]) /\ inbox'[j - 1].id = s)
  <2>1. CASE j = 1
    BY <1>1, <1>2, <2>1
  <2>2. CASE j # 1
    <3>1. j - 1 \in 1..Len(inbox') /\ (j - 1) + 1 = j
      BY <1>1, <2>2
    <3>2. inbox'[j - 1] = inbox[j]
      BY <1>1, <3>1
    <3> QED
      BY <1>2, <3>1, <3>2
  <2> QED
    BY <2>1, <2>2
<1>3. ASSUME NEW i \in 1..Len(inbox'), HeadAhead(s, i + 1) PROVE HeadAhead(s, i)'
  <2>1. CASE pc[s] # "none"
    BY <2>1 DEF HeadAhead
  <2>2. CASE pc[s] = "none"
    <3>1. PICK j \in 1..i : EndsHead(inbox[j]) /\ inbox[j].id = s
      BY <1>3, <2>2 DEF HeadAhead
    <3>2. j \in 1..Len(inbox)
      BY <1>1
    <3>3. pc'[s] # "none" \/ (j - 1 \in 1..Len(inbox') /\ EndsHead(inbox'[j - 1]) /\ inbox'[j - 1].id = s)
      BY <1>2, <3>1, <3>2
    <3>4. j - 1 \in 1..Len(inbox') => j - 1 \in 1..(i - 1)
      BY <3>1
    <3> QED
      BY <3>3, <3>4 DEF HeadAhead
  <2> QED
    BY <2>1, <2>2
<1>4. HeadCame(s) => HeadCame(s)'
  BY <1>2 DEF HeadCame
<1>5. ASSUME NEW i \in 1..Len(inbox'), inbox'[i].id = s
      PROVE  /\ inbox'[i].type = "HEADER" => inbox'[i].payload = 1
             /\ inbox'[i].type = "DATA" => HeadAhead(s, i)'
  BY <1>1, <1>3, <1>5 DEF HeadFirst
<1>6. SessionOpen' /\ request'[s] = "body" => HeadCame(s)'
  BY <1>4 DEF HeadFirst
<1> QED
  BY <1>5, <1>6

LEMMA EmptyHeadFirst ==
  ASSUME inbox' = <<>>, ~ SessionOpen'
  PROVE  HeadFirst'
BY DEF HeadFirst

(* A frame that carries a part of a request. *)
IsPart(f) == f.type \in {"HEADER", "DATA"}

(* Nothing of a request is behind its RST_STREAM, on the link or read. *)
ResetLast ==
  \A s \in Streams :
    /\ \A i \in 1..Len(inbox) : inbox[i].id = s /\ inbox[i].type = "RST_STREAM" =>
         /\ request[s] = "reset"
         /\ \A j \in 1..Len(inbox) : inbox[j].id = s /\ IsPart(inbox[j]) => j < i
    /\ SessionOpen /\ pc[s] = "none" /\ state[s].disconnected =>
         /\ request[s] = "reset"
         /\ \A j \in 1..Len(inbox) : ~ (inbox[j].id = s /\ IsPart(inbox[j]))

(* A stream that has no task is told of no disconnect. *)
NoneTold ==
  \A s \in Streams :
    pc'[s] = "none" /\ state'[s].disconnected => pc[s] = "none" /\ state[s].disconnected

LEMMA ResetLastKept ==
  ASSUME ResetLast, UNCHANGED <<inbox, request>>, SessionOpen' => SessionOpen, NoneTold
  PROVE  ResetLast'
BY DEF ResetLast, NoneTold

LEMMA ArriveResetLast ==
  ASSUME TypeOK, ResetLast, NEW f \in RouterFrames, Arrive(f), UNCHANGED <<pc, reader, state>>,
         IsPart(f) => request[f.id] # "reset",
         f.type = "RST_STREAM" => request'[f.id] = "reset",
         \A s \in Streams : request[s] = "reset" => request'[s] = "reset"
  PROVE  ResetLast'
<1>1. /\ Len(inbox') = Len(inbox) + 1 /\ Len(inbox) \in Nat /\ inbox'[Len(inbox) + 1] = f
      /\ \A i \in 1..Len(inbox) : inbox'[i] = inbox[i] /\ inbox[i].id \in Streams
  BY InboxGrows DEF TypeOK
<1>2. SessionOpen /\ f.id \in Streams
  BY RouterFrameFields DEF Arrive
<1>s. \A i \in 1..Len(inbox') : i \in 1..Len(inbox) \/ i = Len(inbox) + 1
  BY <1>1
<1> SUFFICES ASSUME NEW s \in Streams
             PROVE  (/\ \A i \in 1..Len(inbox) : inbox[i].id = s /\ inbox[i].type = "RST_STREAM" =>
                          /\ request[s] = "reset"
                          /\ \A j \in 1..Len(inbox) : inbox[j].id = s /\ IsPart(inbox[j]) => j < i
                     /\ SessionOpen /\ pc[s] = "none" /\ state[s].disconnected =>
                          /\ request[s] = "reset"
                          /\ \A j \in 1..Len(inbox) : ~ (inbox[j].id = s /\ IsPart(inbox[j])))'
  BY DEF ResetLast
<1>3. ASSUME NEW i \in 1..Len(inbox'), inbox'[i].id = s, inbox'[i].type = "RST_STREAM"
      PROVE  /\ request'[s] = "reset"
             /\ \A j \in 1..Len(inbox') : inbox'[j].id = s /\ IsPart(inbox'[j]) => j < i
  <2>1. CASE i \in 1..Len(inbox)
    <3>1. inbox[i].id = s /\ inbox[i].type = "RST_STREAM" /\ request[s] = "reset"
      BY <1>1, <1>3, <2>1 DEF ResetLast
    <3>2. ~ (f.id = s /\ IsPart(f))
      BY <3>1
    <3>3. ASSUME NEW j \in 1..Len(inbox'), inbox'[j].id = s, IsPart(inbox'[j]) PROVE j < i
      <4>1. j \in 1..Len(inbox)
        BY <1>1, <1>s, <3>2, <3>3
      <4>2. inbox[j].id = s /\ IsPart(inbox[j])
        BY <1>1, <3>3, <4>1
      <4> QED
        BY <2>1, <3>1, <4>1, <4>2 DEF ResetLast
    <3> QED
      BY <3>1, <3>3
  <2>2. CASE i = Len(inbox) + 1
    <3>1. f.id = s /\ f.type = "RST_STREAM" /\ ~ IsPart(f)
      BY <1>1, <1>3, <2>2 DEF IsPart
    <3>2. ASSUME NEW j \in 1..Len(inbox'), inbox'[j].id = s, IsPart(inbox'[j]) PROVE j < i
      <4>1. j # Len(inbox) + 1
        BY <1>1, <3>1, <3>2
      <4> QED
        BY <1>1, <1>s, <2>2, <4>1
    <3> QED
      BY <3>1, <3>2
  <2> QED
    BY <1>s, <2>1, <2>2
<1>4. ASSUME SessionOpen', pc'[s] = "none", state'[s].disconnected
      PROVE  /\ request'[s] = "reset"
             /\ \A j \in 1..Len(inbox') : ~ (inbox'[j].id = s /\ IsPart(inbox'[j]))
  <2>1. request[s] = "reset" /\ \A j \in 1..Len(inbox) : ~ (inbox[j].id = s /\ IsPart(inbox[j]))
    BY <1>2, <1>4 DEF ResetLast
  <2>2. ~ (f.id = s /\ IsPart(f))
    BY <2>1
  <2> QED
    BY <1>1, <1>s, <2>1, <2>2
<1> QED
  BY <1>3, <1>4

LEMMA TailResetLast ==
  ASSUME TypeOK, ResetLast, inbox # <<>>, inbox' = Tail(inbox), UNCHANGED request,
         SessionOpen' => SessionOpen,
         \A s \in Streams :
           pc'[s] = "none" /\ state'[s].disconnected =>
             \/ pc[s] = "none" /\ state[s].disconnected
             \/ Head(inbox).id = s /\ Head(inbox).type = "RST_STREAM"
  PROVE  ResetLast'
<1>1. /\ Len(inbox') = Len(inbox) - 1 /\ Len(inbox) \in Nat \ {0}
      /\ Head(inbox) = inbox[1]
      /\ \A i \in 1..Len(inbox') : inbox'[i] = inbox[i + 1] /\ i + 1 \in 1..Len(inbox)
  BY InboxShrinks DEF TypeOK
<1> SUFFICES ASSUME NEW s \in Streams
             PROVE  (/\ \A i \in 1..Len(inbox) : inbox[i].id = s /\ inbox[i].type = "RST_STREAM" =>
                          /\ request[s] = "reset"
                          /\ \A j \in 1..Len(inbox) : inbox[j].id = s /\ IsPart(inbox[j]) => j < i
                     /\ SessionOpen /\ pc[s] = "none" /\ state[s].disconnected =>
                          /\ request[s] = "reset"
                          /\ \A j \in 1..Len(inbox) : ~ (inbox[j].id = s /\ IsPart(inbox[j])))'
  BY DEF ResetLast
<1>3. ASSUME NEW i \in 1..Len(inbox'), inbox'[i].id = s, inbox'[i].type = "RST_STREAM"
      PROVE  /\ request'[s] = "reset"
             /\ \A j \in 1..Len(inbox') : inbox'[j].id = s /\ IsPart(inbox'[j]) => j < i
  <2>1. i + 1 \in 1..Len(inbox) /\ inbox[i + 1].id = s /\ inbox[i + 1].type = "RST_STREAM"
    BY <1>1, <1>3
  <2>2. ASSUME NEW j \in 1..Len(inbox'), inbox'[j].id = s, IsPart(inbox'[j]) PROVE j < i
    <3>1. j + 1 \in 1..Len(inbox) /\ inbox[j + 1].id = s /\ IsPart(inbox[j + 1])
      BY <1>1, <2>2
    <3>2. j + 1 < i + 1
      BY <2>1, <3>1 DEF ResetLast
    <3> QED
      BY <3>2
  <2> QED
    BY <2>1, <2>2 DEF ResetLast
<1>4. ASSUME SessionOpen', pc'[s] = "none", state'[s].disconnected
      PROVE  /\ request'[s] = "reset"
             /\ \A j \in 1..Len(inbox') : ~ (inbox'[j].id = s /\ IsPart(inbox'[j]))
  <2>1. CASE pc[s] = "none" /\ state[s].disconnected
    BY <1>1, <1>4, <2>1 DEF ResetLast
  <2>2. CASE Head(inbox).id = s /\ Head(inbox).type = "RST_STREAM"
    <3>1. 1 \in 1..Len(inbox) /\ inbox[1].id = s /\ inbox[1].type = "RST_STREAM"
      BY <1>1, <2>2
    <3>2. request[s] = "reset" /\ \A j \in 1..Len(inbox) : inbox[j].id = s /\ IsPart(inbox[j]) => j < 1
      BY <3>1 DEF ResetLast
    <3> QED
      BY <1>1, <3>2
  <2> QED
    BY <1>4, <2>1, <2>2
<1> QED
  BY <1>3, <1>4

LEMMA EmptyResetLast ==
  ASSUME inbox' = <<>>, ~ SessionOpen'
  PROVE  ResetLast'
BY DEF ResetLast

PartsInOrder == HeadFirst /\ ResetLast

LEMMA RouterParts ==
  ASSUME TypeOK, PartsInOrder, NEW s \in Streams, RouterStep(s)
  PROVE  PartsInOrder'
<1>r. request \in [Streams -> {"idle", "head", "body", "ended", "reset"}] /\ reqs[s] \in Nat
  BY DEF TypeOK, LinkTypeOK
<1>u. UNCHANGED <<pc, reader, state>>
  BY DEF RouterStep, RouterHeader, RouterData, RouterReset, RouterAck, RouterBad, appVars, sessionVars
<1>a. ASSUME NEW type \in MessageType \cup {"BAD"}, NEW flags \in SUBSET {"STREAM_END", "HEADER_END"},
             NEW n \in Nat, Arrive(Frame(type, flags, s, n)),
             type = "HEADER" => n = 1 /\ request[s] # "reset",
             type = "DATA" => request[s] = "body",
             type = "RST_STREAM" => request'[s] = "reset",
             \A t \in Streams \ {s} : request'[t] = request[t],
             request[s] = "reset" => request'[s] = "reset",
             request'[s] = "body" => request[s] = "body" \/ (type = "HEADER" /\ "HEADER_END" \in flags)
      PROVE  PartsInOrder'
  <2> DEFINE f == Frame(type, flags, s, n)
  <2>1. f \in RouterFrames /\ f.id = s /\ f.type = type /\ f.payload = n /\ f.flags = flags
    BY RouterFrameType DEF Frame
  <2> HIDE DEF f
  <2>2. Arrive(f)
    BY <1>a DEF f
  <2>3. HeadFirst'
    <3>1. f.type = "HEADER" => f.payload = 1
      BY <1>a, <2>1
    <3>2. f.type = "DATA" => request[f.id] = "body"
      BY <1>a, <2>1
    <3>3. \A t \in Streams : request'[t] = "body" => request[t] = "body" \/ (EndsHead(f) /\ f.id = t)
      BY <1>a, <2>1 DEF EndsHead
    <3> QED
      BY <1>u, <2>1, <2>2, <3>1, <3>2, <3>3, ArriveHeadFirst DEF PartsInOrder
  <2>4. ResetLast'
    <3>1. IsPart(f) => request[f.id] # "reset"
      BY <1>a, <2>1 DEF IsPart
    <3>2. f.type = "RST_STREAM" => request'[f.id] = "reset"
      BY <1>a, <2>1
    <3>3. \A t \in Streams : request[t] = "reset" => request'[t] = "reset"
      BY <1>a
    <3> QED
      BY <1>u, <2>1, <2>2, <3>1, <3>2, <3>3, ArriveResetLast DEF PartsInOrder
  <2> QED
    BY <2>3, <2>4 DEF PartsInOrder
<1>1. CASE RouterHeader(s)
  <2>1. PICK flags \in SUBSET {"STREAM_END", "HEADER_END"} :
          /\ Arrive(Frame("HEADER", flags, s, 1))
          /\ \/ request[s] = "idle" /\ request' = [request EXCEPT ![s] = "head"]
             \/ /\ "HEADER_END" \in flags /\ request[s] \in {"idle", "head"}
                /\ \E r \in {"ended", "body"} : request' = [request EXCEPT ![s] = r]
    BY <1>1 DEF RouterHeader
  <2>2. /\ request[s] # "reset" /\ \A t \in Streams \ {s} : request'[t] = request[t]
        /\ request'[s] = "body" => "HEADER_END" \in flags
    BY <1>r, <2>1
  <2> QED
    BY <1>a, <2>1, <2>2 DEF MessageType
<1>2. CASE RouterData(s)
  <2>1. PICK chunk \in {0, reqs[s] + 1}, flags \in SUBSET {"STREAM_END"} :
          /\ Arrive(Frame("DATA", flags, s, chunk))
          /\ request[s] = "body"
          /\ request' = [request EXCEPT ![s] = IF flags = {} THEN "body" ELSE "ended"]
    BY <1>2 DEF RouterData
  <2>2. chunk \in Nat /\ flags \in SUBSET {"STREAM_END", "HEADER_END"}
        /\ \A t \in Streams \ {s} : request'[t] = request[t]
    BY <1>r, <2>1
  <2> QED
    BY <1>a, <2>1, <2>2 DEF MessageType
<1>3. CASE RouterReset(s)
  <2>1. Arrive(Frame("RST_STREAM", {}, s, 0)) /\ request' = [request EXCEPT ![s] = "reset"]
    BY <1>3 DEF RouterReset
  <2>2. request'[s] = "reset" /\ \A t \in Streams \ {s} : request'[t] = request[t]
    BY <1>r, <2>1
  <2> QED
    BY <1>a, <2>1, <2>2 DEF MessageType
<1>4. CASE RouterAck(s)
  <2>1. PICK n \in 1..(credit[s] - Uncounted(s)) : Arrive(WindowUpdate(s, n)) /\ request' = request
    BY <1>4 DEF RouterAck
  <2>2. n \in Nat
    BY UncountedType DEF TypeOK, LinkTypeOK
  <2> QED
    BY <1>a, <2>1, <2>2 DEF MessageType, WindowUpdate
<1>5. CASE RouterBad(s)
  BY <1>5, <1>a DEF RouterBad
<1> QED
  BY <1>1, <1>2, <1>3, <1>4, <1>5 DEF RouterStep

LEMMA ReaderParts ==
  ASSUME TypeOK, PartsInOrder, ReaderStep \/ Cancel
  PROVE  PartsInOrder'
<1>m. /\ request' = request
      /\ \A s \in Streams : pc[s] # "none" => pc'[s] # "none"
  BY ReaderMoves
<1>e. ASSUME NEW how, EndSession(how) PROVE PartsInOrder'
  BY <1>e, EmptyHeadFirst, EmptyResetLast DEF EndSession, SessionOpen, PartsInOrder
<1>s. state \in [Streams -> StreamState] /\ pc \in [Streams -> TaskState]
  BY DEF TypeOK, AppTypeOK
<1>t. ASSUME inbox # <<>>, inbox' = Tail(inbox), SessionOpen,
             \A s \in Streams : EndsHead(Head(inbox)) /\ Head(inbox).id = s => pc'[s] # "none",
             \A s \in Streams :
               pc'[s] = "none" /\ state'[s].disconnected =>
                 \/ pc[s] = "none" /\ state[s].disconnected
                 \/ Head(inbox).id = s /\ Head(inbox).type = "RST_STREAM"
      PROVE  PartsInOrder'
  BY <1>m, <1>t, TailHeadFirst, TailResetLast DEF PartsInOrder
<1>1. CASE ReadHeader
  <2>1. inbox # <<>> /\ inbox' = Tail(inbox) /\ SessionOpen
    BY <1>1 DEF ReadHeader, Read, NextIs, SessionOpen
  <2>2. \A s \in Streams : EndsHead(Head(inbox)) /\ Head(inbox).id = s => pc'[s] # "none"
    BY <1>1, <1>s DEF ReadHeader, EndsHead
  <2>3. \A s \in Streams : state'[s].disconnected = state[s].disconnected
    BY <1>1, <1>s DEF ReadHeader, StreamState
  <2> QED
    BY <1>m, <1>t, <2>1, <2>2, <2>3
<1>2. CASE ReadData
  <2>1. inbox # <<>> /\ inbox' = Tail(inbox) /\ SessionOpen /\ Head(inbox).type = "DATA" /\ pc' = pc
    BY <1>2 DEF ReadData, Read, NextIs, SessionOpen
  <2>2. \A s \in Streams : state'[s].disconnected = state[s].disconnected
    BY <1>2, <1>s DEF ReadData, StreamState
  <2> QED
    BY <1>t, <2>1, <2>2 DEF EndsHead
<1>3. CASE ReadWindowUpdate
  <2>1. inbox # <<>> /\ inbox' = Tail(inbox) /\ SessionOpen /\ Head(inbox).type = "WINDOW_UPDATE"
    BY <1>3 DEF ReadWindowUpdate, Read, NextIs, SessionOpen
  <2>2. \A s \in Streams : state'[s].disconnected = state[s].disconnected
    <3>1. CASE state' = state
      BY <3>1
    <3>2. ASSUME NEW r, NEW left, state' = [state EXCEPT ![r].pending = left]
          PROVE  \A s \in Streams : state'[s].disconnected = state[s].disconnected
      <4> TAKE s \in Streams
      <4>1. CASE s = r
        BY <1>s, <3>2, <4>1 DEF StreamState
      <4>2. CASE s # r
        BY <1>s, <3>2, <4>2
      <4> QED
        BY <4>1, <4>2
    <3>3. state' = state \/ \E r, left : state' = [state EXCEPT ![r].pending = left]
      BY <1>3 DEF ReadWindowUpdate
    <3> QED
      BY <3>1, <3>2, <3>3
  <2> QED
    BY <1>m, <1>t, <2>1, <2>2 DEF EndsHead
<1>4. CASE ReadReset
  <2>1. inbox # <<>> /\ inbox' = Tail(inbox) /\ SessionOpen /\ Head(inbox).type = "RST_STREAM"
    BY <1>4 DEF ReadReset, Read, NextIs, SessionOpen
  <2>2. \A s \in Streams : Head(inbox).id # s => state'[s] = state[s]
    BY <1>4 DEF ReadReset, CloseFromRouter
  <2> QED
    BY <1>m, <1>t, <2>1, <2>2 DEF EndsHead
<1>5. CASE ReadBad \/ ReadEnd \/ AckFails
  BY <1>5, <1>e DEF ReadBad, ReadEnd, AckFails
<1>6. ASSUME UNCHANGED <<inbox, appVars>>, SessionOpen' => SessionOpen PROVE PartsInOrder'
  <2>1. NoneTold
    BY <1>6 DEF NoneTold, appVars
  <2> QED
    BY <1>m, <1>6, <2>1, HeadFirstKept, ResetLastKept DEF PartsInOrder
<1>7. CASE AckSent \/ Join
  BY <1>6, <1>7 DEF AckSent, Join, SessionOpen, linkVars
<1>8. CASE Cancel
  BY <1>6, <1>8, <1>e DEF Cancel, SessionOpen
<1> QED
  BY <1>1, <1>2, <1>3, <1>4, <1>5, <1>7, <1>8 DEF ReaderStep

LEMMA PartsStep ==
  ASSUME TypeOK, PartsInOrder, [Next]_vars
  PROVE  PartsInOrder'
<1>k. ASSUME UNCHANGED <<inbox, request, reader>>, NoneTold,
             \A s \in Streams : pc[s] # "none" => pc'[s] # "none"
      PROVE  PartsInOrder'
  BY <1>k, HeadFirstKept, ResetLastKept DEF PartsInOrder, SessionOpen
<1>1. CASE ReaderStep \/ Cancel
  BY <1>1, ReaderParts
<1>2. CASE \E s \in Streams : RouterStep(s)
  BY <1>2, RouterParts
<1>3. ASSUME NEW s \in Streams, AppStep(s) \/ TaskStep(s) \/ CallTimeout(s) PROVE PartsInOrder'
  <2>1. /\ UNCHANGED <<linkVars, reader>>
        /\ \A r \in Streams \ {s} : pc'[r] = pc[r] /\ state'[r] = state[r]
    BY <1>3, TaskTouches
  <2>2. pc'[s] # "none"
    BY <1>3, AppMoves DEF Moved, TypeOK, AppTypeOK
  <2> QED
    BY <1>k, <2>1, <2>2 DEF NoneTold, linkVars
<1>4. CASE LinkEnd \/ Get \/ Sent \/ SendFails \/ UNCHANGED vars
  <2>1. UNCHANGED <<inbox, request, reader, pc, state>>
    BY <1>4 DEF LinkEnd, Get, Sent, SendFails, vars, linkVars, sessionVars, appVars
  <2> QED
    BY <1>k, <2>1 DEF NoneTold
<1> QED
  BY <1>1, <1>2, <1>3, <1>4 DEF Next

LEMMA PartsInit == Init => PartsInOrder
BY DEF Init, PartsInOrder, HeadFirst, ResetLast

-----------------------------------------------------------------------------
(* The window of the requests.                                             *)

LEMMA ArrivalsAppend ==
  ASSUME NEW q \in Seq(RequestItem), NEW f \in RouterFrames
  PROVE  /\ Arrivals(f) \in Seq(RequestItem)
         /\ \/ Arrivals(f) = <<>> /\ q \o Arrivals(f) = q /\ f.payload = 0
            \/ f.payload = 0 /\ q \o Arrivals(f) = Append(q, RequestEnd)
            \/ f.payload > 0 /\ q \o Arrivals(f) = Append(q, f.payload)
            \/ f.payload > 0 /\ q \o Arrivals(f) = Append(Append(q, f.payload), RequestEnd)
<1>1. f.payload \in Nat /\ RequestEnd \in RequestItem /\ f.payload \in RequestItem
  BY RouterFrameFields DEF RequestItem, RequestEnd
<1> DEFINE a == <<f.payload>>
           e == <<RequestEnd>>
<1>2. a \in Seq(RequestItem) /\ e \in Seq(RequestItem) /\ <<>> \in Seq(RequestItem)
  BY <1>1
<1>3. /\ \A r \in Seq(RequestItem) : r \o <<>> = r /\ <<>> \o r = r
      /\ \A r \in Seq(RequestItem) : r \o e = Append(r, RequestEnd) /\ r \o a = Append(r, f.payload)
  BY <1>1, ConcatEmptySeq, AppendIsConcat
<1>4. Arrivals(f) \in {<<>>, a, e, a \o e} /\ (f.payload = 0 <=> Arrivals(f) \in {<<>>, e} /\ f.payload = 0)
  BY <1>2, <1>3 DEF Arrivals
<1>5. q \o (a \o e) = (q \o a) \o e
  BY <1>2, ConcatAssociative
<1>6. a \o e \in Seq(RequestItem) /\ q \o a \in Seq(RequestItem)
  BY <1>2, ConcatProperties
<1>7. CASE f.payload = 0
  <2>1. Arrivals(f) = <<>> \/ Arrivals(f) = e
    BY <1>4, <1>7
  <2> QED
    BY <1>2, <1>3, <1>7, <2>1
<1>8. CASE f.payload # 0
  <2>1. Arrivals(f) = a \/ Arrivals(f) = a \o e
    BY <1>2, <1>3, <1>8 DEF Arrivals
  <2>2. f.payload > 0
    BY <1>1, <1>8
  <2> HIDE DEF a, e
  <2> QED
    BY <1>2, <1>3, <1>5, <1>6, <2>1, <2>2
<1> QED
  BY <1>7, <1>8

LEMMA ChunksQueued ==
  ASSUME AppTypeOK, AppTypeOK', NEW s \in Streams
  PROVE  /\ Queued(s) \in Nat
         /\ Queued(s)' \in Nat
         /\ state'[s].queue = state[s].queue => Queued(s)' = Queued(s)
         /\ \A x \in RequestItem :
              state'[s].queue = Append(state[s].queue, x) =>
                Queued(s)' = Queued(s) + (IF x > 0 THEN 1 ELSE 0)
         /\ state[s].queue # <<>> /\ state'[s].queue = Tail(state[s].queue) =>
              Queued(s) = (IF Head(state[s].queue) > 0 THEN 1 ELSE 0) + Queued(s)'
         /\ \A f \in RouterFrames :
              state'[s].queue = state[s].queue \o Arrivals(f) =>
                Queued(s)' = Queued(s) + (IF f.payload > 0 THEN 1 ELSE 0)
<1> DEFINE w == ChunkWeight
           q == state[s].queue
           p == state'[s].queue
<1>1. q \in Seq(RequestItem) /\ p \in Seq(RequestItem) /\ w \in [RequestItem -> Nat]
  BY ChunkWeights DEF AppTypeOK, StreamState
<1>2. Queued(s) = Weight(w, q) /\ Queued(s)' = Weight(w, p)
  BY <1>1, ChunkWeights DEF Queued
<1>3. \A x \in RequestItem : w[x] = IF x > 0 THEN 1 ELSE 0
  BY DEF ChunkWeight
<1> HIDE DEF w, q, p
<1>4. Weight(w, q) \in Nat /\ Weight(w, p) \in Nat
  BY <1>1, WeightType
<1>5. \A r \in Seq(RequestItem), x \in RequestItem : Weight(w, Append(r, x)) = Weight(w, r) + w[x]
  BY <1>1, WeightAppend
<1>6. q # <<>> => Weight(w, q) = w[Head(q)] + Weight(w, Tail(q)) /\ Head(q) \in RequestItem
  BY <1>1, WeightTail
<1>7. ASSUME NEW f \in RouterFrames, p = q \o Arrivals(f)
      PROVE  Weight(w, p) = Weight(w, q) + (IF f.payload > 0 THEN 1 ELSE 0)
  <2>1. \/ p = q /\ f.payload = 0
        \/ f.payload = 0 /\ p = Append(q, RequestEnd)
        \/ f.payload > 0 /\ p = Append(q, f.payload)
        \/ f.payload > 0 /\ p = Append(Append(q, f.payload), RequestEnd)
    BY <1>1, <1>7, ArrivalsAppend
  <2>2. RequestEnd \in RequestItem /\ f.payload \in RequestItem /\ f.payload \in Nat /\ w[RequestEnd] = 0
    BY <1>3, RouterFrameFields DEF RequestItem, RequestEnd
  <2>3. Append(q, f.payload) \in Seq(RequestItem)
    BY <1>1, <2>2
  <2>4. Weight(w, Append(q, f.payload)) = Weight(w, q) + w[f.payload]
    BY <1>1, <1>5, <2>2
  <2>5. Weight(w, Append(q, RequestEnd)) = Weight(w, q) + 0
    BY <1>1, <1>5, <2>2
  <2>6. Weight(w, Append(Append(q, f.payload), RequestEnd)) = Weight(w, Append(q, f.payload)) + 0
    BY <1>5, <2>2, <2>3
  <2>7. f.payload > 0 => w[f.payload] = 1
    BY <1>3, <2>2
  <2>8. CASE p = q /\ f.payload = 0
    BY <1>4, <2>8
  <2>9. CASE f.payload = 0 /\ p = Append(q, RequestEnd)
    BY <1>4, <2>5, <2>9
  <2>10. CASE f.payload > 0 /\ p = Append(q, f.payload)
    BY <2>4, <2>7, <2>10
  <2>11. CASE f.payload > 0 /\ p = Append(Append(q, f.payload), RequestEnd)
    <3>1. Weight(w, p) = Weight(w, Append(q, f.payload)) + 0
      BY <2>6, <2>11
    <3> QED
      BY <1>4, <2>4, <2>7, <2>11, <3>1
  <2> QED
    BY <2>1, <2>8, <2>9, <2>10, <2>11
<1>8. /\ p = q => Queued(s)' = Queued(s)
      /\ \A x \in RequestItem : p = Append(q, x) => Queued(s)' = Queued(s) + (IF x > 0 THEN 1 ELSE 0)
  BY <1>1, <1>2, <1>3, <1>5
<1>9. q # <<>> /\ p = Tail(q) => Queued(s) = (IF Head(q) > 0 THEN 1 ELSE 0) + Queued(s)'
  BY <1>2, <1>3, <1>6
<1>10. \A f \in RouterFrames : p = q \o Arrivals(f) => Queued(s)' = Queued(s) + (IF f.payload > 0 THEN 1 ELSE 0)
  BY <1>2, <1>7
<1> QED
  BY <1>2, <1>4, <1>8, <1>9, <1>10 DEF p, q

(* Writing one field of a stream keeps the others. *)
LEMMA StreamFields ==
  ASSUME NEW x \in StreamState, NEW y, NEW v
  PROVE  /\ y = [x EXCEPT !.pending = v] => y.queue = x.queue
         /\ y = [x EXCEPT !.started = v] => y.queue = x.queue
         /\ y = [x EXCEPT !.complete = v] => y.queue = x.queue
         /\ y = [x EXCEPT !.queue = v] => y.queue = v
BY DEF StreamState

(* Items can still reach the wire. *)
WriterUp == writer \in {"idle", "sending"}

(* The stream is registered, or may be once its head is read. *)
MayOpen(s) == s \in streams \/ (SessionOpen /\ pc[s] = "none")

(* What the router is owed is on its way. *)
Due(s) == owed[s] = ToRead(s) + Queued(s) + AcksToWrite(s)

Owed == \A s \in Streams : WriterUp /\ MayOpen(s) => Due(s)

LEMMA DueTypes ==
  ASSUME TypeOK, TypeOK', NEW s \in Streams
  PROVE  /\ owed[s] \in Int /\ owed'[s] \in Int
         /\ ToRead(s) \in Nat /\ Queued(s) \in Nat /\ AcksToWrite(s) \in Nat
BY FramesToRead, ChunksQueued, AcksOnTheirWay DEF TypeOK, LinkTypeOK

(* The router sends one more frame of a request, or another one. *)
LEMMA RouterOwed ==
  ASSUME TypeOK, TypeOK', Owed, NEW s \in Streams, RouterStep(s)
  PROVE  Owed'
<1>1. UNCHANGED <<streams, reader, pc, state, queueVars>>
  BY DEF RouterStep, RouterHeader, RouterData, RouterReset, RouterAck, RouterBad, appVars, sessionVars
<1>2. \A r \in Streams : Queued(r)' = Queued(r) /\ AcksToWrite(r)' = AcksToWrite(r)
  BY <1>1, ChunksQueued, AcksOnTheirWay DEF TypeOK, queueVars
<1>3. (WriterUp' <=> WriterUp) /\ \A r \in Streams : MayOpen(r)' <=> MayOpen(r)
  BY <1>1 DEF WriterUp, MayOpen, SessionOpen, queueVars
<1>4. ASSUME NEW f \in RouterFrames, Arrive(f), f.id = s,
             owed' = [owed EXCEPT ![s] = @ + Worth(s, f)] \/ (owed' = owed /\ Worth(s, f) = 0)
      PROVE  Owed'
  <2>1. \A r \in Streams : owed'[r] = owed[r] + Worth(r, f) /\ Worth(r, f) \in Nat
    BY <1>4 DEF TypeOK, LinkTypeOK, Worth
  <2>2. \A r \in Streams : ToRead(r)' = ToRead(r) + Worth(r, f)
    BY <1>4, FramesToRead DEF TypeOK
  <2> SUFFICES ASSUME NEW r \in Streams, Due(r) PROVE Due(r)'
    BY <1>3 DEF Owed
  <2> QED
    BY <1>2, <2>1, <2>2, DueTypes DEF Due
<1>5. CASE RouterHeader(s)
  <2>1. PICK flags \in SUBSET {"STREAM_END", "HEADER_END"} :
          Arrive(Frame("HEADER", flags, s, 1)) /\ owed' = [owed EXCEPT ![s] = @ + 1]
    BY <1>5 DEF RouterHeader
  <2>2. /\ Frame("HEADER", flags, s, 1) \in RouterFrames
        /\ Frame("HEADER", flags, s, 1).id = s
        /\ Worth(s, Frame("HEADER", flags, s, 1)) = 1
    BY RouterFrameType DEF MessageType, Frame, Worth
  <2> QED
    BY <1>4, <2>1, <2>2
<1>6. CASE RouterData(s)
  <2>1. PICK chunk \in {0, reqs[s] + 1}, flags \in SUBSET {"STREAM_END"} :
          /\ Arrive(Frame("DATA", flags, s, chunk))
          /\ owed' = [owed EXCEPT ![s] = IF chunk = 0 THEN @ ELSE @ + 1]
    BY <1>6 DEF RouterData
  <2>2. chunk \in Nat /\ owed \in [Streams -> Int]
    BY DEF TypeOK, LinkTypeOK
  <2>3. /\ Frame("DATA", flags, s, chunk) \in RouterFrames
        /\ Frame("DATA", flags, s, chunk).id = s
        /\ Worth(s, Frame("DATA", flags, s, chunk)) = IF chunk = 0 THEN 0 ELSE 1
    BY <2>2, RouterFrameType DEF MessageType, Frame, Worth
  <2>4. chunk = 0 => owed' = owed
    BY <2>1, <2>2
  <2>5. chunk # 0 => owed' = [owed EXCEPT ![s] = @ + 1]
    BY <2>1
  <2> QED
    BY <1>4, <2>1, <2>3, <2>4, <2>5
<1>7. ASSUME NEW type \in {"RST_STREAM", "BAD", "WINDOW_UPDATE"}, NEW n \in Nat,
             Arrive(Frame(type, {}, s, n)), UNCHANGED owed
      PROVE  Owed'
  <2>1. /\ Frame(type, {}, s, n) \in RouterFrames /\ Frame(type, {}, s, n).id = s
        /\ Worth(s, Frame(type, {}, s, n)) = 0
    BY RouterFrameType DEF MessageType, Frame, Worth
  <2> QED
    BY <1>4, <1>7, <2>1
<1>8. CASE RouterReset(s) \/ RouterBad(s)
  BY <1>7, <1>8 DEF RouterReset, RouterBad
<1>9. CASE RouterAck(s)
  <2>1. PICK n \in 1..(credit[s] - Uncounted(s)) : Arrive(WindowUpdate(s, n)) /\ owed' = owed
    BY <1>9 DEF RouterAck
  <2>2. n \in Nat
    BY UncountedType DEF TypeOK, LinkTypeOK
  <2> QED
    BY <1>7, <2>1, <2>2 DEF WindowUpdate
<1> QED
  BY <1>5, <1>6, <1>8, <1>9 DEF RouterStep

(* Neither the link nor the queues change for a stream. *)
LEMMA OwedKept ==
  ASSUME TypeOK, TypeOK', Owed, UNCHANGED <<inbox, owed>>,
         \A r \in Streams : state'[r].queue = state[r].queue /\ AcksToWrite(r)' = AcksToWrite(r),
         WriterUp' => WriterUp,
         \A r \in Streams : MayOpen(r)' => MayOpen(r)
  PROVE  Owed'
<1>1. \A r \in Streams : ToRead(r)' = ToRead(r) /\ Queued(r)' = Queued(r)
  BY FramesToRead, ChunksQueued DEF TypeOK
<1> QED
  BY <1>1 DEF Owed, Due

(* A frame of the head has been read and is answered by the reader. *)
LEMMA ReadHeaderOwed ==
  ASSUME TypeOK, TypeOK', HeadOnce, HeadFirst, Owed, ReadHeader
  PROVE  Owed'
<1> DEFINE f == Head(inbox)
<1>1. /\ inbox # <<>> /\ inbox' = Tail(inbox) /\ f.type = "HEADER" /\ owed' = owed
      /\ Q!SendFrame(Reader, WindowUpdate(f.id, 1)) /\ reader = "recv"
      /\ streams' = streams \cup {f.id}
      /\ pc' = [pc EXCEPT ![f.id] = IF "HEADER_END" \in f.flags THEN "created" ELSE pc[f.id]]
      /\ state' = [state EXCEPT ![f.id].queue =
                    IF "HEADER_END" \in f.flags /\ "STREAM_END" \in f.flags THEN Append(@, RequestEnd) ELSE @]
  BY DEF ReadHeader, Read, NextIs
<1>2. PICK s \in Streams : s = f.id
  BY <1>1, InboxHead DEF TypeOK
<1>3. f = inbox[1] /\ 1 \in 1..Len(inbox)
  BY <1>1 DEF TypeOK, LinkTypeOK
<1>4. pc[s] = "none" /\ f.payload = 1
  BY <1>1, <1>2, <1>3 DEF HeadOnce, IsHead, HeadFirst
<1>5. Reader \in Clients /\ WindowUpdate(f.id, 1) \in Frames
  BY <1>2, WindowUpdateType DEF Clients
<1>6. \A r \in Streams : Acknowledges(r, WindowUpdate(f.id, 1)) = IF r = s THEN 1 ELSE 0
  BY <1>2 DEF Acknowledges, WindowUpdate, Frame
<1>7. \A r \in Streams : AcksToWrite(r)' = AcksToWrite(r) + (IF r = s THEN 1 ELSE 0)
  BY <1>1, <1>5, <1>6, AcksOnTheirWay DEF TypeOK
<1>8. \A r \in Streams : ToRead(r) = (IF r = s THEN 1 ELSE 0) + ToRead(r)'
  <2>1. \A r \in Streams : Worth(r, f) = IF r = s THEN 1 ELSE 0
    BY <1>1, <1>2, <1>4 DEF Worth
  <2> QED
    BY <1>1, <2>1, FramesToRead DEF TypeOK
<1>9. \A r \in Streams : Queued(r)' = Queued(r)
  <2>1. \A r \in Streams : state'[r].queue = state[r].queue \/ state'[r].queue = Append(state[r].queue, RequestEnd)
    <3>1. PICK q \in {state[s].queue, Append(state[s].queue, RequestEnd)} :
            state' = [state EXCEPT ![s].queue = q]
      BY <1>1, <1>2
    <3>2. state'[s] = [state[s] EXCEPT !.queue = q] /\ \A r \in Streams \ {s} : state'[r] = state[r]
      BY <3>1 DEF TypeOK, AppTypeOK
    <3>3. state'[s].queue = q
      BY <3>2, StreamFields DEF TypeOK, AppTypeOK
    <3> QED
      BY <3>2, <3>3
  <2>2. RequestEnd \in RequestItem /\ ~ RequestEnd > 0
    BY DEF RequestItem, RequestEnd
  <2>3. \A r \in Streams : /\ Queued(r) \in Nat
                           /\ state'[r].queue = state[r].queue => Queued(r)' = Queued(r)
                           /\ state'[r].queue = Append(state[r].queue, RequestEnd) => Queued(r)' = Queued(r) + 0
    BY <2>2, ChunksQueued DEF TypeOK
  <2> QED
    BY <2>1, <2>3
<1>10. WriterUp' => WriterUp
  BY <1>1 DEF Q!SendFrame, WriterUp
<1>11. \A r \in Streams : MayOpen(r)' => MayOpen(r)
  BY <1>1, <1>2, <1>4 DEF MayOpen, SessionOpen, TypeOK, AppTypeOK
<1> HIDE DEF f
<1> SUFFICES ASSUME NEW r \in Streams, Due(r) PROVE Due(r)'
  BY <1>10, <1>11 DEF Owed
<1>12. /\ owed[r] \in Int /\ owed'[r] = owed[r] /\ ToRead(r)' \in Nat
       /\ Queued(r) \in Nat /\ AcksToWrite(r) \in Nat
  BY <1>1, DueTypes, FramesToRead DEF TypeOK
<1>13. CASE r = s
  BY <1>7, <1>8, <1>9, <1>12, <1>13 DEF Due
<1>14. CASE r # s
  BY <1>7, <1>8, <1>9, <1>12, <1>14 DEF Due
<1> QED
  BY <1>13, <1>14

(* A chunk is queued; one of a stream that is gone is dropped, and with it *)
(* what the router was owed for it.                                        *)
LEMMA ReadDataOwed ==
  ASSUME TypeOK, TypeOK', HeadFirst, Owed, ReadData
  PROVE  Owed'
<1> DEFINE f == Head(inbox)
<1>1. /\ inbox # <<>> /\ inbox' = Tail(inbox) /\ f.type = "DATA" /\ UNCHANGED <<owed, queueVars, streams, reader, pc>>
      /\ state' = [state EXCEPT ![f.id].queue = IF f.id \in streams THEN @ \o Arrivals(f) ELSE @]
  BY DEF ReadData, Read, NextIs
<1>2. f \in RouterFrames /\ f.payload \in Nat /\ f.id \in Streams
  BY <1>1, InboxHead DEF TypeOK
<1>3. PICK s \in Streams : s = f.id
  BY <1>2
<1>4. pc[s] # "none"
  <2>1. f = inbox[1] /\ 1 \in 1..Len(inbox)
    BY <1>1 DEF TypeOK, LinkTypeOK
  <2>2. HeadAhead(s, 1)
    BY <1>1, <1>3, <2>1 DEF HeadFirst
  <2> QED
    BY <2>2 DEF HeadAhead
<1>5. (WriterUp' <=> WriterUp) /\ \A r \in Streams : MayOpen(r)' <=> MayOpen(r)
  BY <1>1 DEF WriterUp, MayOpen, SessionOpen, queueVars
<1> SUFFICES ASSUME NEW r \in Streams, MayOpen(r), Due(r) PROVE Due(r)'
  BY <1>5 DEF Owed
<1>6. AcksToWrite(r)' = AcksToWrite(r)
  BY <1>1, AcksOnTheirWay DEF TypeOK, queueVars
<1>7. ToRead(r) = Worth(r, f) + ToRead(r)' /\ ToRead(r)' \in Nat
  BY <1>1, FramesToRead DEF TypeOK
<1>8. Queued(r)' = Queued(r) + Worth(r, f)
  <2>1. CASE r = s
    <3>1. s \in streams
      BY <1>4, <2>1 DEF MayOpen
    <3>2. state'[s].queue = state[s].queue \o Arrivals(f)
      BY <1>1, <1>3, <3>1 DEF TypeOK, AppTypeOK, StreamState
    <3>3. Queued(s)' = Queued(s) + (IF f.payload > 0 THEN 1 ELSE 0)
      BY <1>2, <3>2, ChunksQueued DEF TypeOK
    <3> QED
      BY <1>1, <1>3, <2>1, <3>3 DEF Worth
  <2>2. CASE r # s
    <3>1. state'[r].queue = state[r].queue /\ Worth(r, f) = 0
      BY <1>1, <1>3, <2>2 DEF Worth, TypeOK, AppTypeOK
    <3>2. Queued(r)' = Queued(r) /\ Queued(r) \in Nat
      BY <3>1, ChunksQueued DEF TypeOK
    <3> QED
      BY <3>1, <3>2
  <2> QED
    BY <2>1, <2>2
<1>9. Worth(r, f) \in Nat
  BY DEF Worth
<1> HIDE DEF f
<1> QED
  BY <1>1, <1>6, <1>7, <1>8, <1>9, DueTypes DEF Due

LEMMA ReadResetOwed ==
  ASSUME TypeOK, TypeOK', Owed, ReadReset
  PROVE  Owed'
<1> DEFINE S == streams \cap {Head(inbox).id}
<1>1. /\ inbox # <<>> /\ inbox' = Tail(inbox) /\ Head(inbox).type = "RST_STREAM" /\ UNCHANGED <<owed, reader>>
      /\ streams' = streams \ S /\ S \in SUBSET streams /\ CloseFromRouter(S) /\ Q!Abandon(S)
  BY DEF ReadReset, Read, NextIs
<1>2. S \in SUBSET Clients /\ S \in SUBSET Streams
  BY <1>1 DEF TypeOK, ReaderTypeOK, Clients
<1> HIDE DEF S
<1>3. \A r \in Streams : pc'[r] = "none" => pc[r] = "none"
  BY <1>1 DEF CloseFromRouter, Cancelled
<1>4. \A r \in Streams : MayOpen(r)' => MayOpen(r)
  BY <1>1, <1>3 DEF MayOpen, SessionOpen
<1>5. WriterUp' => WriterUp
  BY <1>1 DEF WriterUp, Q!Abandon
<1>6. \A r \in Streams : AcksToWrite(r)' = AcksToWrite(r)
  BY <1>1, <1>2, AcksOnTheirWay DEF TypeOK
<1>7. \A r \in Streams : ToRead(r)' = ToRead(r)
  <2>1. \A r \in Streams : Worth(r, Head(inbox)) = 0
    BY <1>1 DEF Worth
  <2> QED
    BY <1>1, <2>1, FramesToRead DEF TypeOK
<1>8. \A r \in Streams : Queued(r)' = Queued(r)
  <2>1. \A r \in Streams : state'[r].queue = state[r].queue \/ state'[r].queue = Append(state[r].queue, RequestDisconnect)
    <3> SUFFICES ASSUME NEW r \in Streams
                 PROVE  state'[r].queue = state[r].queue \/ state'[r].queue = Append(state[r].queue, RequestDisconnect)
      OBVIOUS
    <3>1. state'[r] = IF r \in S THEN [state[r] EXCEPT !.disconnected = TRUE, !.queue = Append(@, RequestDisconnect)]
                                 ELSE state[r]
      BY <1>1, Zenon DEF CloseFromRouter
    <3>2. state[r] \in StreamState
      BY DEF TypeOK, AppTypeOK
    <3> DEFINE c == Append(state[r].queue, RequestDisconnect)
    <3>3. state'[r] = (IF r \in S THEN [state[r] EXCEPT !.disconnected = TRUE, !.queue = c] ELSE state[r])
      BY <3>1, Zenon
    <3> HIDE DEF c
    <3>4. [state[r] EXCEPT !.disconnected = TRUE, !.queue = c].queue = c
      BY <3>2 DEF StreamState
    <3>5. CASE r \in S
      BY <3>3, <3>4, <3>5 DEF c
    <3>6. CASE r \notin S
      BY <3>3, <3>6
    <3> QED
      BY <3>5, <3>6
  <2>2. RequestDisconnect \in RequestItem /\ ~ RequestDisconnect > 0
    BY DEF RequestItem, RequestDisconnect
  <2>3. \A r \in Streams :
          /\ Queued(r) \in Nat
          /\ state'[r].queue = state[r].queue => Queued(r)' = Queued(r)
          /\ state'[r].queue = Append(state[r].queue, RequestDisconnect) => Queued(r)' = Queued(r) + 0
    BY <2>2, ChunksQueued DEF TypeOK
  <2> QED
    BY <2>1, <2>3
<1> QED
  BY <1>1, <1>4, <1>5, <1>6, <1>7, <1>8 DEF Owed, Due

LEMMA ReaderOwed ==
  ASSUME TypeOK, TypeOK', HeadOnce, HeadFirst, Owed, ReaderStep \/ Cancel
  PROVE  Owed'
<1>1. ASSUME NEW how, EndSession(how) PROVE Owed'
  BY <1>1 DEF EndSession, Owed, MayOpen, SessionOpen
<1>2. CASE ReadBad \/ ReadEnd \/ AckFails
  BY <1>1, <1>2 DEF ReadBad, ReadEnd, AckFails
<1>3. CASE ReadWindowUpdate
  <2>1. /\ inbox # <<>> /\ inbox' = Tail(inbox) /\ Head(inbox).type = "WINDOW_UPDATE"
        /\ UNCHANGED <<owed, queueVars, streams, reader>>
    BY <1>3 DEF ReadWindowUpdate, Read, NextIs
  <2>2. \A r \in Streams : state'[r].queue = state[r].queue
    <3>1. state' = state \/ \E s, left : state' = [state EXCEPT ![s].pending = left]
      BY <1>3 DEF ReadWindowUpdate
    <3>2. ASSUME NEW s, NEW left, state' = [state EXCEPT ![s].pending = left], NEW r \in Streams
          PROVE  state'[r].queue = state[r].queue
      <4>1. state'[r] = [state[r] EXCEPT !.pending = left] \/ state'[r] = state[r]
        BY <3>2 DEF TypeOK, AppTypeOK
      <4> QED
        BY <4>1, StreamFields DEF TypeOK, AppTypeOK
    <3> QED
      BY <3>1, <3>2
  <2>3. \A r \in Streams : pc'[r] = "none" => pc[r] = "none"
    BY <1>3, ReaderMoves
  <2>4. \A r \in Streams : ToRead(r)' = ToRead(r)
    <3>1. \A r \in Streams : Worth(r, Head(inbox)) = 0
      BY <2>1 DEF Worth
    <3> QED
      BY <2>1, <3>1, FramesToRead DEF TypeOK
  <2>5. \A r \in Streams : Queued(r)' = Queued(r) /\ AcksToWrite(r)' = AcksToWrite(r)
    BY <2>1, <2>2, ChunksQueued, AcksOnTheirWay DEF TypeOK, queueVars
  <2>6. (WriterUp' => WriterUp) /\ \A r \in Streams : MayOpen(r)' => MayOpen(r)
    BY <2>1, <2>3 DEF WriterUp, MayOpen, SessionOpen, queueVars
  <2> QED
    BY <2>1, <2>4, <2>5, <2>6 DEF Owed, Due
<1>4. ASSUME UNCHANGED <<inbox, owed, streams, appVars>>, SessionOpen' => SessionOpen,
             UNCHANGED queueVars \/ Q!Resume(Reader) \/ Q!WriterCancelled
      PROVE  Owed'
  <2>1. UNCHANGED <<writeq, writing>> /\ (WriterUp' => WriterUp)
    BY <1>4 DEF queueVars, Q!Resume, Q!WriterCancelled, WriterUp
  <2>2. \A r \in Streams : AcksToWrite(r)' = AcksToWrite(r)
    BY <2>1, AcksOnTheirWay DEF TypeOK
  <2>3. \A r \in Streams : state'[r].queue = state[r].queue /\ (MayOpen(r)' => MayOpen(r))
    BY <1>4 DEF MayOpen, appVars
  <2> QED
    BY <1>4, <2>1, <2>2, <2>3, OwedKept
<1>5. CASE AckSent \/ Join
  BY <1>4, <1>5 DEF AckSent, Join, linkVars, SessionOpen
<1>6. CASE Cancel
  <2>1. CASE EndSession("cancelled")
    BY <1>1, <2>1
  <2>2. CASE UNCHANGED <<inbox, streams, appVars>> /\ (Q!WriterCancelled \/ UNCHANGED queueVars)
             /\ reader = "join" /\ reader' = "done"
    BY <1>4, <1>6, <2>2 DEF Cancel, endVars, SessionOpen
  <2> QED
    BY <1>6, <2>1, <2>2 DEF Cancel
<1> QED
  BY <1>2, <1>3, <1>5, <1>6, ReadHeaderOwed, ReadDataOwed, ReadResetOwed DEF ReaderStep

(* A task takes from its request queue in receive only. *)
LEMMA TaskQueues ==
  ASSUME TypeOK, NEW s \in Streams, AppStep(s) \/ TaskStep(s) \/ CallTimeout(s), ~ Receive(s)
  PROVE  state'[s].queue = state[s].queue /\ pc'[s] # "recvack"
<1>p. pc \in [Streams -> TaskState] /\ state \in [Streams -> StreamState] /\ state[s] \in StreamState
  BY DEF TypeOK, AppTypeOK
<1>1. CASE AppStart(s) \/ AppBadStart(s) \/ AppReturn(s) \/ TaskStart(s)
  <2>1. state' = state \/ state' = [state EXCEPT ![s].started = TRUE]
    BY <1>1 DEF AppStart, AppBadStart, AppReturn, TaskStart, AutoResponse
  <2>2. state'[s] = state[s] \/ state'[s] = [state[s] EXCEPT !.started = TRUE]
    BY <1>p, <2>1
  <2>3. pc'[s] # "recvack"
    BY <1>1, <1>p DEF AppStart, AppBadStart, AppReturn, TaskStart, AutoResponse, StartSending, Finish, Raise
  <2> QED
    BY <1>p, <2>2, <2>3, StreamFields
<1>a. ASSUME NEW pending, AfterFrame(s, pending)
      PROVE  state'[s].queue = state[s].queue /\ pc'[s] # "recvack"
  <2>1. \E c : state' = [state EXCEPT ![s].pending = pending, ![s].complete = c]
    BY <1>a DEF AfterFrame
  <2>2. state'[s].queue = state[s].queue
    BY <1>p, <2>1 DEF StreamState
  <2>3. pc'[s] # "recvack"
    BY <1>a, <1>p DEF AfterFrame, Finish
  <2> QED
    BY <2>2, <2>3
<1>2. CASE FrameSent(s) \/ Woken(s)
  <2>1. CASE pc' = [pc EXCEPT ![s] = "window"] /\ \E x : state' = [state EXCEPT ![s].pending = x]
    BY <1>p, <2>1 DEF StreamState
  <2>2. CASE pc' = [pc EXCEPT ![s] = "window"] /\ state' = state
    BY <1>p, <2>2
  <2> QED
    BY <1>2, <1>a, <2>1, <2>2 DEF FrameSent, Woken
<1>3. CASE AppBody(s) \/ AppReceive(s) \/ AppRaise(s) \/ FrameFails(s) \/ ResetSent(s) \/ ReceiveAcked(s)
           \/ TaskCancelled(s) \/ CallTimeout(s)
  <2>1. state' = state
    BY <1>3 DEF AppBody, AppReceive, AppRaise, FrameFails, ResetSent, ReceiveAcked, TaskCancelled,
         CallTimeout
  <2>2. pc'[s] # "recvack"
    BY <1>3, <1>p DEF AppBody, AppReceive, AppRaise, FrameFails, ResetSent, ReceiveAcked, TaskCancelled,
         CallTimeout, StartSending, Raise, Finish
  <2> QED
    BY <2>1, <2>2
<1> QED
  BY <1>1, <1>2, <1>3 DEF AppStep, TaskStep

(* Whatever a task awaits but for its own acknowledgement gives nothing back. *)
LEMMA TaskAcks ==
  ASSUME TypeOK, TypeOK', NEW s \in Streams, Goes(s), pc'[s] # "recvack"
  PROVE  \A r \in Streams : AcksToWrite(r)' = AcksToWrite(r)
<1> SUFFICES ASSUME NEW r \in Streams PROVE AcksToWrite(r)' = AcksToWrite(r)
  OBVIOUS
<1>c. s \in Clients /\ {s} \in SUBSET Clients
  BY DEF Clients
<1>1. CASE Sends(s)
  <2>1. PICK f \in Frames : Q!SendFrame(s, f) /\ Awaits(s)' /\ f = Awaited(s)'
    BY <1>1 DEF Sends
  <2>2. f.type # "WINDOW_UPDATE"
    <3>1. CASE pc'[s] = "send"
      <4>1. f = Head(todo'[s]) /\ todo'[s] \in Seq(Frames) /\ todo'[s] # <<>>
        BY <2>1, <3>1 DEF Awaited, TypeOK, AppTypeOK
      <4>2. f = todo'[s][1] /\ 1 \in 1..Len(todo'[s])
        BY <4>1
      <4> QED
        BY <4>2 DEF Goes, ResponseFrames
    <3>2. CASE pc'[s] # "send"
      BY <2>1, <3>2 DEF Awaited, Frame
    <3> QED
      BY <3>1, <3>2
  <2>3. AcksToWrite(r)' = AcksToWrite(r) + Acknowledges(r, f) /\ AcksToWrite(r) \in Nat
    BY <1>c, <2>1, AcksOnTheirWay DEF TypeOK
  <2> QED
    BY <2>2, <2>3 DEF Acknowledges
<1>2. CASE Rests(s)
  <2>1. UNCHANGED <<writeq, writing>>
    BY <1>2 DEF Rests, Q!Resume, queueVars
  <2> QED
    BY <2>1, AcksOnTheirWay DEF TypeOK
<1>3. CASE GivesUp(s)
  BY <1>3, <1>c, AcksOnTheirWay DEF GivesUp, TypeOK
<1> QED
  BY <1>1, <1>2, <1>3 DEF Goes

(* receive takes a chunk from the queue as it acknowledges it. *)
LEMMA ReceiveOwed ==
  ASSUME TypeOK, TypeOK', NEW s \in Streams, Receive(s), Due(s)
  PROVE  Due(s)'
<1>1. /\ state[s].queue # <<>> /\ state'[s].queue = Tail(state[s].queue)
      /\ state[s].queue \in Seq(RequestItem)
  BY DEF Receive, TypeOK, AppTypeOK, StreamState
<1> DEFINE next == Head(state[s].queue)
<1>2. next \in RequestItem
  BY <1>1
<1>3. Queued(s) = (IF next > 0 THEN 1 ELSE 0) + Queued(s)' /\ Queued(s)' \in Nat
  BY <1>1, ChunksQueued DEF TypeOK
<1>4. ToRead(s)' = ToRead(s) /\ owed'[s] = owed[s]
  BY FramesToRead DEF Receive, linkVars, TypeOK
<1>5. AcksToWrite(s)' = AcksToWrite(s) + (IF next > 0 THEN 1 ELSE 0)
  <2>1. CASE next \in {RequestEnd, RequestDisconnect}
    <3>1. UNCHANGED queueVars
      BY <2>1 DEF Receive
    <3>2. AcksToWrite(s)' = AcksToWrite(s) /\ AcksToWrite(s) \in Nat /\ ~ next > 0
      BY <2>1, <3>1, AcksOnTheirWay DEF TypeOK, queueVars, RequestEnd, RequestDisconnect
    <3> QED
      BY <3>2
  <2>2. CASE next \notin {RequestEnd, RequestDisconnect}
    <3>1. Q!SendFrame(s, WindowUpdate(s, 1)) /\ next > 0
      BY <1>2, <2>2 DEF Receive, RequestItem, RequestEnd, RequestDisconnect
    <3>2. s \in Clients /\ WindowUpdate(s, 1) \in Frames
      BY WindowUpdateType DEF Clients
    <3>3. Acknowledges(s, WindowUpdate(s, 1)) = 1
      BY DEF Acknowledges, WindowUpdate, Frame
    <3> QED
      BY <3>1, <3>2, <3>3, AcksOnTheirWay DEF TypeOK
  <2> QED
    BY <2>1, <2>2
<1>6. ToRead(s) \in Nat /\ AcksToWrite(s) \in Nat
  BY DueTypes
<1> HIDE DEF next
<1> QED
  BY <1>3, <1>4, <1>5, <1>6 DEF Due

(* A task has nothing but frames of its own stream to send. *)
OwnOnly == \A s \in Streams : OwnFrames(s)

LEMMA OwnStep ==
  ASSUME TypeOK, OwnOnly, [Next]_vars
  PROVE  OwnOnly'
<1>u. ASSUME \A s \in Streams : todo'[s] \in {<<>>, todo[s]} PROVE OwnOnly'
  BY <1>u DEF OwnOnly, OwnFrames
<1>c. ASSUME NEW S \in SUBSET Streams, CloseFromRouter(S) PROVE OwnOnly'
  BY <1>c, <1>u DEF CloseFromRouter
<1>e. ASSUME NEW how, EndSession(how) PROVE OwnOnly'
  BY <1>c, <1>e DEF EndSession, TypeOK, ReaderTypeOK
<1>1. ASSUME NEW s \in Streams, AppStep(s) \/ TaskStep(s) \/ CallTimeout(s) PROVE OwnOnly'
  <2>1. Goes(s)
    BY <1>1, TaskGoes DEF OwnOnly
  <2>2. \A r \in Streams \ {s} : todo'[r] = todo[r]
    BY <1>1, TaskTouches
  <2> QED
    BY <2>1, <2>2 DEF Goes, OwnOnly, OwnFrames
<1>2. CASE ReadReset
  BY <1>2, <1>c DEF ReadReset, TypeOK, ReaderTypeOK
<1>3. CASE ReadBad \/ ReadEnd \/ AckFails
  BY <1>3, <1>e DEF ReadBad, ReadEnd, AckFails
<1>4. CASE Cancel
  BY <1>4, <1>e, <1>u DEF Cancel, appVars
<1>5. CASE ReadHeader \/ ReadData \/ ReadWindowUpdate \/ AckSent \/ Join
  BY <1>5, <1>u DEF ReadHeader, ReadData, ReadWindowUpdate, AckSent, Join, appVars
<1>6. CASE LinkEnd \/ Get \/ Sent \/ SendFails \/ UNCHANGED vars
  BY <1>6, <1>u DEF LinkEnd, Get, Sent, SendFails, vars, appVars
<1>7. ASSUME NEW s \in Streams, RouterStep(s) PROVE OwnOnly'
  BY <1>7, <1>u DEF RouterStep, RouterHeader, RouterData, RouterReset, RouterAck, RouterBad, appVars
<1> QED
  BY <1>1, <1>2, <1>3, <1>4, <1>5, <1>6, <1>7 DEF Next, ReaderStep

LEMMA TaskOwed ==
  ASSUME TypeOK, TypeOK', OwnOnly, Owed,
         NEW s \in Streams, AppStep(s) \/ TaskStep(s) \/ CallTimeout(s)
  PROVE  Owed'
<1>1. Goes(s)
  BY TaskGoes DEF OwnOnly
<1>2. /\ UNCHANGED <<linkVars, reader>> /\ streams' \subseteq streams
      /\ \A r \in Streams \ {s} : pc'[r] = pc[r] /\ state'[r] = state[r]
  BY TaskTouches
<1>3. pc'[s] # "none"
  BY AppMoves DEF Moved, TypeOK, AppTypeOK
<1>4. \A r \in Streams : MayOpen(r)' => MayOpen(r)
  BY <1>2, <1>3 DEF MayOpen, SessionOpen
<1>5. WriterUp' => WriterUp
  BY <1>1 DEF Goes, Sends, Rests, GivesUp, Q!SendFrame, Q!Resume, Q!Abandon, queueVars, WriterUp
<1>6. CASE ~ Receive(s)
  <2>1. state'[s].queue = state[s].queue /\ pc'[s] # "recvack"
    BY <1>6, TaskQueues
  <2>2. \A r \in Streams : AcksToWrite(r)' = AcksToWrite(r)
    BY <1>1, <2>1, TaskAcks
  <2> QED
    BY <1>2, <1>4, <1>5, <2>1, <2>2, OwedKept DEF linkVars
<1>7. CASE Receive(s)
  <2> SUFFICES ASSUME NEW r \in Streams, Due(r) PROVE Due(r)'
    BY <1>4, <1>5 DEF Owed
  <2>1. CASE r = s
    BY <1>7, <2>1, ReceiveOwed
  <2>2. CASE r # s
    <3>1. ToRead(r)' = ToRead(r) /\ Queued(r)' = Queued(r) /\ owed' = owed
      BY <1>2, <2>2, FramesToRead, ChunksQueued DEF TypeOK, linkVars
    <3>2. AcksToWrite(r)' = AcksToWrite(r)
      <4>1. CASE Q!SendFrame(s, WindowUpdate(s, 1))
        <5>1. s \in Clients /\ WindowUpdate(s, 1) \in Frames
          BY WindowUpdateType DEF Clients
        <5>2. Acknowledges(r, WindowUpdate(s, 1)) = 0
          BY <2>2 DEF Acknowledges, WindowUpdate, Frame
        <5>3. AcksToWrite(r)' = AcksToWrite(r) + 0 /\ AcksToWrite(r) \in Nat
          BY <4>1, <5>1, <5>2, AcksOnTheirWay DEF TypeOK
        <5> QED
          BY <5>3
      <4>2. CASE UNCHANGED queueVars
        BY <4>2, AcksOnTheirWay DEF TypeOK, queueVars
      <4> QED
        BY <1>7, <4>1, <4>2 DEF Receive
    <3> QED
      BY <3>1, <3>2 DEF Due
  <2> QED
    BY <2>1, <2>2
<1> QED
  BY <1>6, <1>7

LEMMA SentOwed ==
  ASSUME TypeOK, TypeOK', Owed, Sent
  PROVE  Owed'
<1> DEFINE f == writing.frame
<1>1. /\ UNCHANGED <<inbox, streams, reader, pc, state>> /\ Q!WriterSent
      /\ owed' = IF f.type = "WINDOW_UPDATE" THEN [owed EXCEPT ![f.id] = @ - f.payload] ELSE owed
  BY DEF Sent, sessionVars, appVars
<1>2. f \in Frames
  BY <1>1 DEF TypeOK, Q!TypeOK, Q!WriterSent, Q!Item
<1>3. f.id \in Streams /\ f.payload \in Nat
  BY <1>2, FrameFields
<1>4. \A r \in Streams : owed'[r] = owed[r] - Acknowledges(r, f) /\ Acknowledges(r, f) \in Nat
  BY <1>1, <1>3 DEF Acknowledges, TypeOK, LinkTypeOK
<1>5. \A r \in Streams : AcksToWrite(r) = AcksToWrite(r)' + Acknowledges(r, f) /\ AcksToWrite(r)' \in Nat
  BY <1>1, AcksOnTheirWay DEF TypeOK
<1>6. \A r \in Streams : ToRead(r)' = ToRead(r) /\ Queued(r)' = Queued(r)
  BY <1>1, FramesToRead, ChunksQueued DEF TypeOK
<1>7. WriterUp /\ \A r \in Streams : MayOpen(r)' => MayOpen(r)
  BY <1>1 DEF Q!WriterSent, WriterUp, MayOpen, SessionOpen
<1> HIDE DEF f
<1> SUFFICES ASSUME NEW r \in Streams, Due(r) PROVE Due(r)'
  BY <1>7 DEF Owed
<1> QED
  BY <1>4, <1>5, <1>6, DueTypes DEF Due

LEMMA OwedStep ==
  ASSUME TypeOK, TypeOK', HeadOnce, PartsInOrder, OwnOnly, Owed, [Next]_vars
  PROVE  Owed'
<1>1. CASE ReaderStep \/ Cancel
  BY <1>1, ReaderOwed DEF PartsInOrder
<1>2. CASE \E s \in Streams : RouterStep(s)
  BY <1>2, RouterOwed
<1>3. CASE \E s \in Streams : AppStep(s) \/ TaskStep(s) \/ CallTimeout(s)
  BY <1>3, TaskOwed
<1>4. CASE Sent
  BY <1>4, SentOwed
<1>5. CASE SendFails
  BY <1>5 DEF SendFails, Q!WriterFail, Owed, WriterUp
<1>6. CASE LinkEnd \/ Get \/ UNCHANGED vars
  <2>1. UNCHANGED <<inbox, owed, streams, reader, pc, state>>
    BY <1>6 DEF LinkEnd, Get, vars, linkVars, sessionVars, appVars
  <2>2. CASE ~ WriterUp'
    BY <2>2 DEF Owed
  <2>3. CASE WriterUp'
    <3>1. WriterUp /\ \A r \in Streams : AcksToWrite(r)' = AcksToWrite(r)
      <4>1. CASE UNCHANGED queueVars
        BY <2>3, <4>1, AcksOnTheirWay DEF TypeOK, queueVars, WriterUp
      <4>2. CASE Q!WriterGet
        <5>1. WriterUp /\ writer' = "sending"
          BY <2>3, <4>2 DEF Q!WriterGet, WriterUp
        <5> QED
          BY <4>2, <5>1, AcksOnTheirWay DEF TypeOK
      <4> QED
        BY <1>6, <4>1, <4>2 DEF LinkEnd, Get, vars
    <3>2. \A r \in Streams : state'[r].queue = state[r].queue /\ (MayOpen(r)' => MayOpen(r))
      BY <2>1 DEF MayOpen, SessionOpen
    <3> QED
      BY <2>1, <3>1, <3>2, OwedKept
  <2> QED
    BY <2>2, <2>3
<1> QED
  BY <1>1, <1>2, <1>3, <1>4, <1>5, <1>6 DEF Next

LEMMA OwedInit == Init => Owed
<1> SUFFICES ASSUME Init, NEW s \in Streams PROVE Due(s)
  BY DEF Owed
<1>1. inbox = <<>> /\ state[s].queue = <<>> /\ writeq = <<>> /\ writing = NoItem /\ owed[s] = 0
  BY DEF Init, Q!Init
<1>2. ToRead(s) = 0
  <2>1. inbox \in Seq(RouterFrames)
    BY TypeInit DEF TypeOK, LinkTypeOK
  <2>2. ToRead(s) = Weight(FrameWeight(s), inbox)
    BY <2>1, FrameWeights DEF ToRead, Worth
  <2> QED
    BY <1>1, <2>2, WeightEmpty
<1>3. Queued(s) = 0
  <2>1. state[s].queue \in Seq(RequestItem)
    BY TypeInit DEF TypeOK, AppTypeOK, StreamState
  <2>2. Queued(s) = Weight(ChunkWeight, state[s].queue)
    BY <2>1, ChunkWeights DEF Queued
  <2> QED
    BY <1>1, <2>2, WeightEmpty
<1>4. AcksToWrite(s) = 0
  <2>1. writeq \in Seq(Q!Item \cup {Stop})
    BY TypeInit DEF TypeOK, Q!TypeOK
  <2>2. Total([i \in DOMAIN writeq |-> GivesBack(s, writeq[i])]) = Weight(AnswerWeight(s), writeq)
    BY <2>1, AnswerWeights
  <2>3. Weight(AnswerWeight(s), writeq) = 0
    BY <1>1, WeightEmpty
  <2> QED
    BY <1>1, <2>2, <2>3, GivesBackType DEF AcksToWrite
<1> QED
  BY <1>1, <1>2, <1>3, <1>4 DEF Due

(***************************************************************************)
(* The router gets the window of every request frame back, while its       *)
(* stream is open and the writer runs: what it is owed waits to be read,   *)
(* waits for the app or is being acknowledged, whatever the app does.      *)
(***************************************************************************)
THEOREM RequestWindowConservedHolds == SafeSpec => []RequestWindowConserved
<1>1. Init => HeadOnce
  BY HeadOnceInit
<1>2. TypeOK /\ HeadOnce /\ [Next]_vars => HeadOnce'
  BY HeadOnceStep
<1>3. TypeOK /\ OwnOnly /\ [Next]_vars => OwnOnly'
  BY OwnStep
<1>4. TypeOK /\ PartsInOrder /\ [Next]_vars => PartsInOrder'
  BY PartsStep
<1>5. TypeOK /\ TypeOK' /\ HeadOnce /\ PartsInOrder /\ OwnOnly /\ Owed /\ [Next]_vars => Owed'
  BY OwedStep
<1>6. TypeOK /\ Owed => RequestWindowConserved
  BY DEF TypeOK, ReaderTypeOK, Owed, Due, MayOpen, Live, WriterUp, RequestWindowConserved
<1>7. Init => OwnOnly
  BY DEF Init, OwnOnly, OwnFrames
<1> QED
  BY <1>1, <1>2, <1>3, <1>4, <1>5, <1>6, <1>7, PartsInit, OwedInit, TypeCorrect, PTL DEF SafeSpec

-----------------------------------------------------------------------------
(* Sequences put one behind the other.                                     *)

(* r behind q: a name for it, which the provers need not look into. *)
Joined(q, r) == q \o r

LEMMA JoinedFacts ==
  ASSUME NEW D
  PROVE  /\ <<>> \in Seq(D)
         /\ \A q \in Seq(D) : Joined(q, <<>>) = q /\ Joined(<<>>, q) = q
         /\ \A q, r \in Seq(D) : Joined(q, r) \in Seq(D)
         /\ \A q, r, t \in Seq(D) : Joined(q, Joined(r, t)) = Joined(Joined(q, r), t)
         /\ \A e \in D : <<e>> \in Seq(D)
         /\ \A q \in Seq(D), e \in D : Append(q, e) = Joined(q, <<e>>)
<1>1. <<>> \in Seq(D) /\ \A e \in D : <<e>> \in Seq(D)
  OBVIOUS
<1>2. \A q \in Seq(D) : Joined(q, <<>>) = q /\ Joined(<<>>, q) = q
  BY ConcatEmptySeq DEF Joined
<1>3. \A q, r \in Seq(D) : Joined(q, r) \in Seq(D)
  BY ConcatProperties DEF Joined
<1>4. \A q, r, t \in Seq(D) : Joined(q, Joined(r, t)) = Joined(Joined(q, r), t)
  BY ConcatAssociative DEF Joined
<1>5. \A q \in Seq(D), e \in D : Append(q, e) = Joined(q, <<e>>)
  BY AppendIsConcat DEF Joined
<1> QED
  BY <1>1, <1>2, <1>3, <1>4, <1>5

(* g has the first elements of f put together. *)
Flattens(g, f) == g = [i \in 1..Len(f) |-> IF i = 1 THEN f[i] ELSE Joined(g[i - 1], f[i])]

(* The same, by what g has at each place, and with none of them at 0. *)
Joins(D, g, f, m) ==
  /\ g \in [0..m -> Seq(D)]
  /\ g[0] = <<>>
  /\ \A n \in 1..m : g[n] = Joined(g[n - 1], f[n])

LEMMA JoinsExist ==
  ASSUME NEW D, NEW f \in Seq(Seq(D))
  PROVE  \E g : Joins(D, g, f, Len(f))
<1> DEFINE S == {m \in Nat : m <= Len(f) => \E g : Joins(D, g, f, m)}
<1>1. 0 \in S
  <2>1. Joins(D, [n \in 0..0 |-> <<>>], f, 0)
    BY JoinedFacts DEF Joins
  <2> QED
    BY <2>1
<1>2. ASSUME NEW m \in Nat, m \in S PROVE m + 1 \in S
  <2> SUFFICES ASSUME m + 1 <= Len(f) PROVE \E g : Joins(D, g, f, m + 1)
    OBVIOUS
  <2>1. PICK g : Joins(D, g, f, m)
    BY <1>2
  <2> DEFINE last == Joined(g[m], f[m + 1])
             h == [n \in 0..(m + 1) |-> IF n = m + 1 THEN last ELSE g[n]]
  <2>2. g \in [0..m -> Seq(D)] /\ g[m] \in Seq(D) /\ f[m + 1] \in Seq(D)
    BY <2>1 DEF Joins
  <2>a. last \in Seq(D)
    BY <2>2, JoinedFacts
  <2>b. last = Joined(g[m], f[m + 1])
    OBVIOUS
  <2> HIDE DEF last
  <2>3. h \in [0..(m + 1) -> Seq(D)] /\ h[m + 1] = last /\ \A n \in 0..m : h[n] = g[n]
    BY <2>2, <2>a
  <2> HIDE DEF h
  <2>4. ASSUME NEW n \in 1..(m + 1) PROVE h[n] = Joined(h[n - 1], f[n])
    <3>1. CASE n = m + 1
      <4>1. h[m] = g[m] /\ n - 1 = m
        BY <2>3, <3>1
      <4> QED
        BY <2>3, <2>b, <3>1, <4>1
    <3>2. CASE n \in 1..m
      <4>1. g[n] = Joined(g[n - 1], f[n])
        BY <2>1, <3>2 DEF Joins
      <4>2. n \in 0..m /\ n - 1 \in 0..m
        BY <3>2
      <4> QED
        BY <2>3, <4>1, <4>2
    <3> QED
      BY <3>1, <3>2
  <2>5. Joins(D, h, f, m + 1)
    <3>1. h[0] = <<>>
      BY <2>1, <2>3 DEF Joins
    <3> QED
      BY <2>3, <2>4, <3>1 DEF Joins
  <2> QED
    BY <2>5
<1> HIDE DEF S
<1>3. Nat \subseteq S
  BY <1>1, <1>2, Induction
<1> QED
  BY <1>3 DEF S

LEMMA JoinsAgree ==
  ASSUME NEW D, NEW f \in Seq(Seq(D)), NEW g, NEW h, Joins(D, g, f, Len(f)), Flattens(h, f)
  PROVE  \A n \in 1..Len(f) : h[n] = g[n]
<1> DEFINE S == {m \in Nat : m + 1 <= Len(f) => h[m + 1] = g[m + 1]}
<1>h. \A i \in 1..Len(f) : h[i] = IF i = 1 THEN f[i] ELSE Joined(h[i - 1], f[i])
  BY DEF Flattens
<1>g. g[0] = <<>> /\ \A i \in 1..Len(f) : g[i] = Joined(g[i - 1], f[i])
  BY DEF Joins
<1>1. 0 \in S
  <2> SUFFICES ASSUME 1 <= Len(f) PROVE h[1] = g[1]
    OBVIOUS
  <2>1. h[1] = f[1] /\ f[1] \in Seq(D)
    BY <1>h
  <2>2. g[1] = Joined(g[0], f[1])
    BY <1>g
  <2>3. Joined(<<>>, f[1]) = f[1]
    BY <2>1, JoinedFacts
  <2> QED
    BY <1>g, <2>1, <2>2, <2>3
<1>2. ASSUME NEW m \in Nat, m \in S PROVE m + 1 \in S
  <2> SUFFICES ASSUME (m + 1) + 1 <= Len(f) PROVE h[(m + 1) + 1] = g[(m + 1) + 1]
    OBVIOUS
  <2> DEFINE n == (m + 1) + 1
  <2>1. n \in 1..Len(f) /\ n - 1 = m + 1 /\ n # 1
    OBVIOUS
  <2>2. h[m + 1] = g[m + 1]
    BY <1>2
  <2> HIDE DEF n
  <2>3. h[n] = Joined(h[n - 1], f[n])
    BY <1>h, <2>1
  <2>4. g[n] = Joined(g[n - 1], f[n])
    BY <1>g, <2>1
  <2>5. h[n] = g[n]
    BY <2>1, <2>2, <2>3, <2>4
  <2> QED
    BY <2>5 DEF n
<1> HIDE DEF S
<1>3. Nat \subseteq S
  BY <1>1, <1>2, Induction
<1> SUFFICES ASSUME NEW n \in 1..Len(f) PROVE h[n] = g[n]
  OBVIOUS
<1>4. n - 1 \in Nat /\ (n - 1) + 1 = n
  OBVIOUS
<1>5. n - 1 \in S
  BY <1>3, <1>4
<1> QED
  BY <1>4, <1>5 DEF S

(* A function that joins f has what FlattenSeq makes of it. *)
LEMMA FlattenIs ==
  ASSUME NEW D, NEW f \in Seq(Seq(D)), NEW g, Joins(D, g, f, Len(f))
  PROVE  FlattenSeq(f) = g[Len(f)]
<1>1. CASE Len(f) = 0
  <2>1. f = <<>> /\ FlattenSeq(f) = f
    BY <1>1 DEF FlattenSeq
  <2> QED
    BY <1>1, <2>1 DEF Joins
<1>2. CASE Len(f) # 0
  <2> DEFINE k == [i \in 1..Len(f) |-> g[i]]
  <2>1. \A i \in 1..Len(f) : g[i] = IF i = 1 THEN f[i] ELSE Joined(k[i - 1], f[i])
    <3> SUFFICES ASSUME NEW i \in 1..Len(f) PROVE g[i] = IF i = 1 THEN f[i] ELSE Joined(k[i - 1], f[i])
      OBVIOUS
    <3>1. g[i] = Joined(g[i - 1], f[i]) /\ f[i] \in Seq(D) /\ g[0] = <<>>
      BY DEF Joins
    <3>2. CASE i = 1
      <4>1. g[1] = Joined(<<>>, f[1]) /\ f[1] \in Seq(D)
        BY <3>1, <3>2
      <4>2. Joined(<<>>, f[1]) = f[1]
        BY <4>1, JoinedFacts
      <4> QED
        BY <3>2, <4>1, <4>2
    <3>3. CASE i # 1
      <4>1. k[i - 1] = g[i - 1]
        BY <3>3
      <4> QED
        BY <3>1, <3>3, <4>1
    <3> QED
      BY <3>2, <3>3
  <2>2. Flattens(k, f)
    BY <2>1 DEF Flattens
  <2> HIDE DEF k
  <2> DEFINE h == CHOOSE x : Flattens(x, f)
  <2>3. Flattens(h, f)
    BY <2>2
  <2>4. FlattenSeq(f) = h[Len(f)]
    BY <1>2 DEF FlattenSeq, Flattens, Joined
  <2> HIDE DEF h
  <2>5. Len(f) \in 1..Len(f)
    BY <1>2
  <2> QED
    BY <2>3, <2>4, <2>5, JoinsAgree
<1> QED
  BY <1>1, <1>2

LEMMA FlattenType ==
  ASSUME NEW D, NEW f \in Seq(Seq(D))
  PROVE  FlattenSeq(f) \in Seq(D)
<1>1. PICK g : Joins(D, g, f, Len(f))
  BY JoinsExist
<1>2. FlattenSeq(f) = g[Len(f)]
  BY <1>1, FlattenIs
<1> QED
  BY <1>1, <1>2 DEF Joins

LEMMA FlattenEmpty == FlattenSeq(<<>>) = <<>>
BY DEF FlattenSeq

LEMMA FlattenAppend ==
  ASSUME NEW D, NEW f \in Seq(Seq(D)), NEW e \in Seq(D)
  PROVE  FlattenSeq(Append(f, e)) = Joined(FlattenSeq(f), e)
<1>1. PICK g : Joins(D, g, f, Len(f))
  BY JoinsExist
<1> DEFINE a == Append(f, e)
           last == Joined(g[Len(f)], e)
           h == [n \in 0..(Len(f) + 1) |-> IF n = Len(f) + 1 THEN last ELSE g[n]]
<1>2. /\ a \in Seq(Seq(D)) /\ Len(a) = Len(f) + 1 /\ a[Len(f) + 1] = e
      /\ \A n \in 1..Len(f) : a[n] = f[n]
      /\ Len(f) \in Nat
  OBVIOUS
<1>3. g \in [0..Len(f) -> Seq(D)] /\ g[Len(f)] \in Seq(D)
  <2> HIDE DEF a, h, last
  <2>1. g \in [0..Len(f) -> Seq(D)]
    BY <1>1 DEF Joins
  <2>2. Len(f) \in Nat
    BY <1>2
  <2> QED
    BY <2>1, <2>2
<1>a. last \in Seq(D)
  BY <1>3, JoinedFacts
<1>b. last = Joined(g[Len(f)], e)
  OBVIOUS
<1> HIDE DEF last
<1>4. /\ h \in [0..(Len(f) + 1) -> Seq(D)] /\ h[Len(f) + 1] = last
      /\ \A n \in 0..Len(f) : h[n] = g[n]
  BY <1>2, <1>3, <1>a
<1> HIDE DEF a, h
<1>5. \A n \in 1..(Len(f) + 1) : n = Len(f) + 1 \/ (n \in 1..Len(f) /\ n - 1 \in 0..Len(f))
  BY <1>2
<1>6. Joins(D, h, a, Len(a))
  <2>1. h[0] = <<>>
    BY <1>1, <1>2, <1>4 DEF Joins
  <2>2. ASSUME NEW n \in 1..(Len(f) + 1) PROVE h[n] = Joined(h[n - 1], a[n])
    <3>1. CASE n = Len(f) + 1
      <4>1. n - 1 = Len(f) /\ Len(f) \in 0..Len(f)
        BY <1>2, <3>1
      <4> QED
        BY <1>2, <1>4, <1>b, <3>1, <4>1
    <3>2. CASE n \in 1..Len(f) /\ n - 1 \in 0..Len(f)
      <4>1. g[n] = Joined(g[n - 1], f[n])
        BY <1>1, <3>2 DEF Joins
      <4>2. n \in 0..Len(f)
        BY <1>2, <3>2
      <4> QED
        BY <1>2, <1>4, <3>2, <4>1, <4>2
    <3> QED
      BY <1>5, <3>1, <3>2
  <2> QED
    BY <1>2, <1>4, <2>1, <2>2 DEF Joins
<1>7. FlattenSeq(a) = h[Len(a)]
  BY <1>2, <1>6, FlattenIs
<1>8. FlattenSeq(f) = g[Len(f)]
  BY <1>1, FlattenIs
<1> QED
  BY <1>2, <1>4, <1>7, <1>8, <1>b DEF a

LEMMA FlattenTail ==
  ASSUME NEW D, NEW f \in Seq(Seq(D)), f # <<>>
  PROVE  FlattenSeq(f) = Joined(Head(f), FlattenSeq(Tail(f)))
<1>q. /\ \A q \in Seq(D) : Joined(q, <<>>) = q /\ Joined(<<>>, q) = q
      /\ \A q, r, x \in Seq(D) : Joined(q, Joined(r, x)) = Joined(Joined(q, r), x)
  BY JoinedFacts
<1> DEFINE t == Tail(f)
<1>2. /\ t \in Seq(Seq(D)) /\ Len(f) = Len(t) + 1 /\ Head(f) = f[1] /\ f[1] \in Seq(D)
      /\ \A n \in 1..Len(t) : t[n] = f[n + 1] /\ t[n] \in Seq(D)
      /\ Len(t) \in Nat
  OBVIOUS
<1> HIDE DEF t
<1>1. PICK g : Joins(D, g, t, Len(t))
  BY <1>2, JoinsExist
<1> DEFINE k == [n \in 0..Len(t) |-> Joined(f[1], g[n])]
           h == [n \in 0..(Len(t) + 1) |-> IF n = 0 THEN <<>> ELSE k[n - 1]]
<1>3. g \in [0..Len(t) -> Seq(D)] /\ g[0] = <<>>
  BY <1>1, <1>2 DEF Joins
<1>4. \A n \in 0..Len(t) : k[n] = Joined(f[1], g[n]) /\ g[n] \in Seq(D)
  BY <1>3
<1>5. k \in [0..Len(t) -> Seq(D)]
  <2>1. \A n \in 0..Len(t) : Joined(f[1], g[n]) \in Seq(D)
    BY <1>2, <1>4, JoinedFacts
  <2> QED
    BY <2>1
<1> HIDE DEF k
<1>b. \A n \in 0..(Len(t) + 1) : h[n] = IF n = 0 THEN <<>> ELSE k[n - 1]
  OBVIOUS
<1>c. \A n \in 0..(Len(t) + 1) : h[n] \in Seq(D)
  <2> SUFFICES ASSUME NEW n \in 0..(Len(t) + 1) PROVE h[n] \in Seq(D)
    OBVIOUS
  <2> HIDE DEF h
  <2>1. CASE n = 0
    BY <1>b, <2>1, JoinedFacts
  <2>2. CASE n # 0
    <3>1. n - 1 \in 0..Len(t)
      BY <1>2, <2>2
    <3> QED
      BY <1>5, <1>b, <2>2, <3>1
  <2> QED
    BY <2>1, <2>2
<1>d. h \in [0..(Len(t) + 1) -> Seq(D)]
  BY <1>c
<1> HIDE DEF h
<1>e. ASSUME NEW n \in 0..Len(t) PROVE h[n + 1] = k[n]
  <2>1. n + 1 \in 0..(Len(t) + 1) /\ n + 1 # 0 /\ (n + 1) - 1 = n
    BY <1>2
  <2> QED
    BY <1>b, <2>1
<1>z. h[0] = <<>>
  <2>1. 0 \in 0..(Len(t) + 1)
    BY <1>2
  <2> QED
    BY <1>b, <2>1
<1>6. Joins(D, h, f, Len(f))
  <2>2. ASSUME NEW n \in 1..(Len(t) + 1) PROVE h[n] = Joined(h[n - 1], f[n])
    <3>1. CASE n = 1
      <4>1. 0 \in 0..Len(t) /\ 0 + 1 = 1 /\ n - 1 = 0
        BY <1>2, <3>1
      <4>2. h[1] = k[0] /\ k[0] = Joined(f[1], <<>>)
        BY <1>3, <1>4, <1>e, <4>1
      <4>3. Joined(f[1], <<>>) = f[1] /\ Joined(<<>>, f[1]) = f[1]
        BY <1>2, <1>q
      <4> QED
        BY <1>z, <3>1, <4>1, <4>2, <4>3
    <3>2. CASE n \in 2..(Len(t) + 1)
      <4>1. PICK i \in 1..Len(t) : n = i + 1
        BY <1>2, <3>2
      <4>2. g[i] = Joined(g[i - 1], f[i + 1])
        BY <1>1, <1>2 DEF Joins
      <4>3. i - 1 \in 0..Len(t) /\ i \in 0..Len(t) /\ (i - 1) + 1 = i /\ n - 1 = i
        BY <1>2, <4>1
      <4>4. h[i + 1] = k[i] /\ h[i] = k[i - 1]
        BY <1>e, <4>3
      <4>5. f[i + 1] \in Seq(D) /\ g[i - 1] \in Seq(D) /\ f[1] \in Seq(D)
        BY <1>2, <1>4, <4>3
      <4>6. k[i] = Joined(f[1], Joined(g[i - 1], f[i + 1])) /\ k[i - 1] = Joined(f[1], g[i - 1])
        BY <1>4, <4>2, <4>3
      <4>7. Joined(f[1], Joined(g[i - 1], f[i + 1])) = Joined(Joined(f[1], g[i - 1]), f[i + 1])
        BY <1>q, <4>5
      <4> QED
        BY <4>1, <4>3, <4>4, <4>6, <4>7
    <3> QED
      BY <1>2, <3>1, <3>2
  <2> QED
    BY <1>2, <1>d, <1>z, <2>2 DEF Joins
<1>7. FlattenSeq(t) = g[Len(t)]
  BY <1>1, <1>2, FlattenIs
<1>8. FlattenSeq(f) = h[Len(f)]
  BY <1>6, FlattenIs
<1>9. Len(t) \in 0..Len(t)
  BY <1>2
<1> QED
  BY <1>2, <1>4, <1>7, <1>8, <1>9, <1>e DEF t

-----------------------------------------------------------------------------
(* What the elements of q stand for, put together. *)
Spread(v, q) == FlattenSeq([i \in DOMAIN q |-> v[q[i]]])

LEMMA MapForm ==
  ASSUME NEW T, NEW E, NEW v \in [T -> E], NEW q \in Seq(T), NEW f, f = [i \in DOMAIN q |-> v[q[i]]]
  PROVE  f \in Seq(E) /\ Len(f) = Len(q) /\ Len(q) \in Nat
         /\ \A i \in 1..Len(q) : f[i] = v[q[i]] /\ f[i] \in E
<1>1. DOMAIN q = 1..Len(q) /\ Len(q) \in Nat /\ \A i \in 1..Len(q) : v[q[i]] \in E
  OBVIOUS
<1> QED
  BY <1>1

LEMMA AppendIs ==
  ASSUME NEW E, NEW f \in Seq(E), NEW g \in Seq(E), NEW e \in E,
         Len(g) = Len(f) + 1, g[Len(f) + 1] = e, \A i \in 1..Len(f) : g[i] = f[i]
  PROVE  g = Append(f, e)
<1> DEFINE a == Append(f, e)
<1>1. a \in Seq(E) /\ Len(a) = Len(f) + 1 /\ a[Len(f) + 1] = e /\ \A i \in 1..Len(f) : a[i] = f[i]
  OBVIOUS
<1>2. Len(f) \in Nat
  OBVIOUS
<1> HIDE DEF a
<1>3. \A i \in 1..Len(g) : i = Len(f) + 1 \/ i \in 1..Len(f)
  BY <1>2
<1>4. \A i \in 1..Len(g) : a[i] = g[i]
  BY <1>1, <1>3
<1>5. a = g
  BY <1>1, <1>4, SeqEqual
<1> QED
  BY <1>5 DEF a

LEMMA TailIs ==
  ASSUME NEW E, NEW f \in Seq(E), NEW g \in Seq(E),
         Len(f) = Len(g) + 1, \A i \in 1..Len(g) : g[i] = f[i + 1]
  PROVE  f # <<>> /\ Head(f) = f[1] /\ g = Tail(f)
<1>1. f # <<>> /\ Head(f) = f[1] /\ Len(g) \in Nat
  OBVIOUS
<1> DEFINE t == Tail(f)
<1>2. t \in Seq(E) /\ Len(t) = Len(g) /\ \A i \in 1..Len(t) : t[i] = f[i + 1]
  BY <1>1
<1> HIDE DEF t
<1>3. t = g
  BY <1>2, SeqEqual
<1> QED
  BY <1>1, <1>3 DEF t

(* Taking one more element, and leaving the first one out. *)
LEMMA MapAppend ==
  ASSUME NEW T, NEW E, NEW v \in [T -> E], NEW q \in Seq(T), NEW e \in T
  PROVE  LET r == Append(q, e) IN
         [i \in DOMAIN r |-> v[r[i]]] = Append([i \in DOMAIN q |-> v[q[i]]], v[e])
<1> DEFINE r == Append(q, e)
           f == [i \in DOMAIN q |-> v[q[i]]]
           g == [i \in DOMAIN r |-> v[r[i]]]
<1>1. r \in Seq(T) /\ Len(r) = Len(q) + 1 /\ r[Len(q) + 1] = e /\ \A i \in 1..Len(q) : r[i] = q[i]
  OBVIOUS
<1> HIDE DEF r
<1>2. f \in Seq(E) /\ Len(f) = Len(q) /\ Len(q) \in Nat
      /\ \A i \in 1..Len(q) : f[i] = v[q[i]] /\ f[i] \in E
  BY MapForm
<1>3. g \in Seq(E) /\ Len(g) = Len(r) /\ \A i \in 1..Len(r) : g[i] = v[r[i]] /\ g[i] \in E
  BY <1>1, MapForm
<1>4. v[e] \in E
  OBVIOUS
<1> HIDE DEF f, g
<1>5. \A i \in 1..Len(f) : g[i] = f[i]
  BY <1>1, <1>2, <1>3
<1>6. g[Len(f) + 1] = v[e]
  BY <1>1, <1>2, <1>3
<1>7. Len(g) = Len(f) + 1
  BY <1>1, <1>2, <1>3
<1>8. g = Append(f, v[e])
  BY <1>2, <1>3, <1>4, <1>5, <1>6, <1>7, AppendIs
<1> QED
  BY <1>8 DEF f, g, r

LEMMA MapTail ==
  ASSUME NEW T, NEW E, NEW v \in [T -> E], NEW q \in Seq(T), q # <<>>
  PROVE  LET f == [i \in DOMAIN q |-> v[q[i]]]
             r == Tail(q)
         IN f # <<>> /\ Head(f) = v[Head(q)] /\ Tail(f) = [i \in DOMAIN r |-> v[r[i]]]
<1> DEFINE r == Tail(q)
           f == [i \in DOMAIN q |-> v[q[i]]]
           g == [i \in DOMAIN r |-> v[r[i]]]
<1>1. r \in Seq(T) /\ Len(q) = Len(r) + 1 /\ Head(q) = q[1] /\ \A i \in 1..Len(r) : r[i] = q[i + 1]
  OBVIOUS
<1> HIDE DEF r
<1>2. f \in Seq(E) /\ Len(f) = Len(q) /\ Len(q) \in Nat
      /\ \A i \in 1..Len(q) : f[i] = v[q[i]] /\ f[i] \in E
  BY MapForm
<1>3. g \in Seq(E) /\ Len(g) = Len(r) /\ Len(r) \in Nat
      /\ \A i \in 1..Len(r) : g[i] = v[r[i]] /\ g[i] \in E
  BY <1>1, MapForm
<1> HIDE DEF f, g
<1>4. \A i \in 1..Len(g) : i + 1 \in 1..Len(q)
  BY <1>1, <1>2, <1>3
<1>5. \A i \in 1..Len(g) : g[i] = f[i + 1]
  BY <1>1, <1>2, <1>3, <1>4
<1>6. f # <<>> /\ Head(f) = f[1] /\ g = Tail(f)
  BY <1>1, <1>2, <1>3, <1>5, TailIs
<1>7. f[1] = v[Head(q)]
  BY <1>1, <1>2, <1>3
<1> QED
  BY <1>6, <1>7 DEF f, g, r

LEMMA SpreadType ==
  ASSUME NEW T, NEW D, NEW v \in [T -> Seq(D)], NEW q \in Seq(T)
  PROVE  Spread(v, q) \in Seq(D)
<1> DEFINE f == [i \in DOMAIN q |-> v[q[i]]]
<1>1. f \in Seq(Seq(D))
  BY MapForm
<1> HIDE DEF f
<1>2. FlattenSeq(f) \in Seq(D)
  BY <1>1, FlattenType
<1> QED
  BY <1>2 DEF Spread, f

LEMMA SpreadEmpty == \A v : Spread(v, <<>>) = <<>>
<1>1. \A v : [i \in DOMAIN <<>> |-> v[<<>>[i]]] = <<>>
  OBVIOUS
<1> QED
  BY <1>1, FlattenEmpty DEF Spread

LEMMA SpreadAppend ==
  ASSUME NEW T, NEW D, NEW v \in [T -> Seq(D)], NEW q \in Seq(T), NEW e \in T
  PROVE  Spread(v, Append(q, e)) = Joined(Spread(v, q), v[e])
<1> DEFINE f == [i \in DOMAIN q |-> v[q[i]]]
           r == Append(q, e)
           g == [i \in DOMAIN r |-> v[r[i]]]
<1>1. f \in Seq(Seq(D))
  BY MapForm
<1>2. g = Append(f, v[e])
  BY MapAppend
<1>3. Spread(v, r) = FlattenSeq(g) /\ Spread(v, q) = FlattenSeq(f)
  BY DEF Spread
<1>4. v[e] \in Seq(D)
  OBVIOUS
<1> HIDE DEF f, g, r
<1>5. FlattenSeq(Append(f, v[e])) = Joined(FlattenSeq(f), v[e])
  BY <1>1, <1>4, FlattenAppend
<1> QED
  BY <1>2, <1>3, <1>5 DEF r

LEMMA SpreadTail ==
  ASSUME NEW T, NEW D, NEW v \in [T -> Seq(D)], NEW q \in Seq(T), q # <<>>
  PROVE  Spread(v, q) = Joined(v[Head(q)], Spread(v, Tail(q)))
<1> DEFINE f == [i \in DOMAIN q |-> v[q[i]]]
           r == Tail(q)
           g == [i \in DOMAIN r |-> v[r[i]]]
<1>1. f \in Seq(Seq(D))
  BY MapForm
<1>2. f # <<>> /\ Head(f) = v[Head(q)] /\ Tail(f) = g
  BY MapTail
<1>3. Spread(v, r) = FlattenSeq(g) /\ Spread(v, q) = FlattenSeq(f)
  BY DEF Spread
<1> HIDE DEF f, g, r
<1>4. FlattenSeq(f) = Joined(Head(f), FlattenSeq(Tail(f)))
  BY <1>1, <1>2, FlattenTail
<1> QED
  BY <1>2, <1>3, <1>4 DEF r

-----------------------------------------------------------------------------
(* Where the items of a request body are.                                  *)

(* What waits to be read of the body of s. *)
BodyToRead(s) == FlattenSeq([i \in DOMAIN inbox |-> Items(s, inbox[i])])

(* What the frames have of it. *)
BodyOf(s) == [f \in RouterFrames |-> Items(s, f)]

(* The chunk in the one receive call. *)
InReceive(s) == IF item[s] = 0 THEN <<>> ELSE <<item[s]>>

(* With the app, or on its way to it inside receive. *)
Taken(s) == Joined(handed[s], InReceive(s))

LEMMA ItemsType ==
  ASSUME NEW s \in Streams, NEW f \in RouterFrames
  PROVE  /\ Items(s, f) \in Seq(RequestItem)
         /\ f.id # s \/ f.type \notin {"HEADER", "DATA"} => Items(s, f) = <<>>
         /\ f.id = s /\ f.type = "DATA" => Items(s, f) = Arrivals(f)
         /\ f.id = s /\ f.type = "HEADER" =>
              Items(s, f) = IF f.flags = {"HEADER_END", "STREAM_END"} THEN <<RequestEnd>> ELSE <<>>
<1>1. <<>> \in Seq(RequestItem) /\ <<RequestEnd>> \in Seq(RequestItem)
  BY DEF RequestItem, RequestEnd
<1>2. Arrivals(f) \in Seq(RequestItem)
  BY <1>1, ArrivalsAppend
<1> QED
  BY <1>1, <1>2 DEF Items

LEMMA BodySpreads ==
  ASSUME NEW s \in Streams, NEW q \in Seq(RouterFrames)
  PROVE  /\ BodyOf(s) \in [RouterFrames -> Seq(RequestItem)]
         /\ FlattenSeq([i \in DOMAIN q |-> Items(s, q[i])]) = Spread(BodyOf(s), q)
<1>1. BodyOf(s) \in [RouterFrames -> Seq(RequestItem)]
  BY ItemsType DEF BodyOf
<1>2. \A i \in DOMAIN q : q[i] \in RouterFrames
  OBVIOUS
<1>3. [i \in DOMAIN q |-> Items(s, q[i])] = [i \in DOMAIN q |-> BodyOf(s)[q[i]]]
  BY <1>2 DEF BodyOf
<1> QED
  BY <1>1, <1>3 DEF Spread

LEMMA BodyOnTheLink ==
  ASSUME LinkTypeOK, LinkTypeOK', NEW s \in Streams
  PROVE  /\ BodyToRead(s) \in Seq(RequestItem)
         /\ BodyToRead(s)' \in Seq(RequestItem)
         /\ inbox' = inbox => BodyToRead(s)' = BodyToRead(s)
         /\ \A f \in RouterFrames :
              Arrive(f) => BodyToRead(s)' = Joined(BodyToRead(s), Items(s, f))
         /\ inbox # <<>> /\ inbox' = Tail(inbox) =>
              BodyToRead(s) = Joined(Items(s, Head(inbox)), BodyToRead(s)')
<1> DEFINE v == BodyOf(s)
           D == RequestItem
<1>1. inbox \in Seq(RouterFrames) /\ inbox' \in Seq(RouterFrames)
  BY DEF LinkTypeOK
<1>2. v \in [RouterFrames -> Seq(D)]
  BY <1>1, BodySpreads
<1>3. BodyToRead(s) = Spread(v, inbox) /\ BodyToRead(s)' = Spread(v, inbox')
  BY <1>1, BodySpreads DEF BodyToRead
<1>4. \A f \in RouterFrames : v[f] = Items(s, f)
  BY DEF BodyOf
<1>5. inbox # <<>> => Head(inbox) \in RouterFrames
  BY <1>1
<1> HIDE DEF v, D
<1>6. Spread(v, inbox) \in Seq(D) /\ Spread(v, inbox') \in Seq(D)
  BY <1>1, <1>2, SpreadType
<1>7. \A f \in RouterFrames : Spread(v, Append(inbox, f)) = Joined(Spread(v, inbox), v[f])
  BY <1>1, <1>2, SpreadAppend
<1>8. inbox # <<>> => Spread(v, inbox) = Joined(v[Head(inbox)], Spread(v, Tail(inbox)))
  BY <1>1, <1>2, SpreadTail
<1>9. \A f \in RouterFrames : Arrive(f) => Spread(v, inbox') = Joined(Spread(v, inbox), Items(s, f))
  BY <1>4, <1>7 DEF Arrive
<1>10. inbox # <<>> /\ inbox' = Tail(inbox) =>
         Spread(v, inbox) = Joined(Items(s, Head(inbox)), Spread(v, inbox'))
  BY <1>4, <1>5, <1>8
<1> QED
  BY <1>3, <1>6, <1>9, <1>10 DEF D

LEMMA HeldIs ==
  ASSUME NEW s \in Streams
  PROVE  /\ RequestHeld(s) = Joined(Joined(Taken(s), state[s].queue), BodyToRead(s))
         /\ RequestHeld(s)' = Joined(Joined(Taken(s)', state'[s].queue), BodyToRead(s)')
BY DEF RequestHeld, Taken, InReceive, BodyToRead, Joined

LEMMA HeldType ==
  ASSUME TypeOK, NEW s \in Streams
  PROVE  /\ handed[s] \in Seq(RequestItem) /\ InReceive(s) \in Seq(RequestItem)
         /\ Taken(s) \in Seq(RequestItem) /\ state[s].queue \in Seq(RequestItem)
         /\ BodyToRead(s) \in Seq(RequestItem)
<1>1. handed[s] \in Seq(RequestItem) /\ item[s] \in Nat /\ state[s].queue \in Seq(RequestItem)
  BY DEF TypeOK, AppTypeOK, StreamState
<1>2. item[s] \in RequestItem
  BY <1>1 DEF RequestItem
<1>3. InReceive(s) \in Seq(RequestItem)
  BY <1>2, JoinedFacts DEF InReceive
<1>4. Taken(s) \in Seq(RequestItem)
  BY <1>1, <1>3, JoinedFacts DEF Taken
<1>5. BodyToRead(s) \in Seq(RequestItem)
  <2>1. inbox \in Seq(RouterFrames)
    BY DEF TypeOK, LinkTypeOK
  <2>2. BodyOf(s) \in [RouterFrames -> Seq(RequestItem)] /\ BodyToRead(s) = Spread(BodyOf(s), inbox)
    BY <2>1, BodySpreads DEF BodyToRead
  <2> QED
    BY <2>1, <2>2, SpreadType
<1> QED
  BY <1>1, <1>3, <1>4, <1>5

(* Nothing of the body of s moves. *)
LEMMA HeldStays ==
  ASSUME NEW s \in Streams, inbox' = inbox, state'[s].queue = state[s].queue,
         handed'[s] = handed[s], item'[s] = item[s]
  PROVE  RequestHeld(s)' = RequestHeld(s)
BY DEF RequestHeld

(* One more frame comes. *)
LEMMA HeldGrows ==
  ASSUME TypeOK, TypeOK', NEW s \in Streams, NEW f \in RouterFrames, Arrive(f), UNCHANGED <<handed, item, state>>
  PROVE  RequestHeld(s) \in Seq(RequestItem) /\ RequestHeld(s)' = Joined(RequestHeld(s), Items(s, f))
<1> DEFINE a == Joined(Taken(s), state[s].queue)
           b == BodyToRead(s)
           c == Items(s, f)
<1>1. RequestHeld(s) = Joined(a, b) /\ a \in Seq(RequestItem)
  BY HeldIs, HeldType, JoinedFacts
<1>2. RequestHeld(s)' = Joined(a, BodyToRead(s)')
  <2>1. Taken(s)' = Taken(s) /\ state'[s].queue = state[s].queue
    BY DEF Taken, InReceive
  <2> QED
    BY <2>1, HeldIs
<1>3. BodyToRead(s)' = Joined(b, c) /\ b \in Seq(RequestItem)
  BY BodyOnTheLink DEF TypeOK
<1>4. c \in Seq(RequestItem)
  BY ItemsType
<1> HIDE DEF a, b, c
<1>5. Joined(a, Joined(b, c)) = Joined(Joined(a, b), c) /\ Joined(a, b) \in Seq(RequestItem)
  BY <1>1, <1>3, <1>4, JoinedFacts
<1> QED
  BY <1>1, <1>2, <1>3, <1>5 DEF c

(* The reader puts what a frame has on the request queue. *)
LEMMA HeldRead ==
  ASSUME TypeOK, TypeOK', NEW s \in Streams, inbox # <<>>, inbox' = Tail(inbox),
         handed'[s] = handed[s], item'[s] = item[s],
         state'[s].queue = Joined(state[s].queue, Items(s, Head(inbox)))
  PROVE  RequestHeld(s)' = RequestHeld(s)
<1> DEFINE t == Taken(s)
           q == state[s].queue
           c == Items(s, Head(inbox))
           b == BodyToRead(s)'
<1>1. t \in Seq(RequestItem) /\ q \in Seq(RequestItem)
  BY HeldType
<1>2. c \in Seq(RequestItem)
  BY InboxHead, ItemsType DEF TypeOK
<1>3. BodyToRead(s) = Joined(c, b) /\ b \in Seq(RequestItem)
  BY BodyOnTheLink DEF TypeOK
<1>4. RequestHeld(s) = Joined(Joined(t, q), BodyToRead(s))
  BY HeldIs
<1>5. RequestHeld(s)' = Joined(Joined(t, Joined(q, c)), b)
  <2>1. Taken(s)' = Taken(s)
    BY DEF Taken, InReceive
  <2> QED
    BY <2>1, HeldIs
<1> HIDE DEF t, q, c, b
<1>6. Joined(t, Joined(q, c)) = Joined(Joined(t, q), c)
  BY <1>1, <1>2, JoinedFacts
<1>7. Joined(t, q) \in Seq(RequestItem)
  BY <1>1, JoinedFacts
<1>8. Joined(Joined(t, q), Joined(c, b)) = Joined(Joined(Joined(t, q), c), b)
  BY <1>2, <1>3, <1>7, JoinedFacts
<1> QED
  BY <1>3, <1>4, <1>5, <1>6, <1>8

(* What a frame without a part of the body leaves alone. *)
LEMMA HeldSkips ==
  ASSUME TypeOK, TypeOK', NEW s \in Streams, inbox # <<>>, inbox' = Tail(inbox),
         handed'[s] = handed[s], item'[s] = item[s],
         state'[s].queue = state[s].queue, Items(s, Head(inbox)) = <<>>
  PROVE  RequestHeld(s)' = RequestHeld(s)
<1>1. state'[s].queue = Joined(state[s].queue, <<>>)
  BY HeldType, JoinedFacts
<1> QED
  BY <1>1, HeldRead

(* receive takes an item from the queue. *)
LEMMA HeldReceive ==
  ASSUME TypeOK, TypeOK', NEW s \in Streams, Receive(s), item[s] = 0
  PROVE  RequestHeld(s)' = RequestHeld(s)
<1> DEFINE n == Head(state[s].queue)
           h == handed[s]
           q == state[s].queue
           p == Tail(state[s].queue)
           D == RequestItem
<1>j. /\ \A x, y, z \in Seq(D) : Joined(x, Joined(y, z)) = Joined(Joined(x, y), z)
      /\ \A x \in Seq(D), e \in D : Append(x, e) = Joined(x, <<e>>) /\ <<e>> \in Seq(D)
      /\ \A x, y \in Seq(D) : Joined(x, y) \in Seq(D)
  BY JoinedFacts
<1>1. q # <<>> /\ q \in Seq(D) /\ h \in Seq(D)
  BY HeldType DEF Receive
<1>2. n \in D /\ p \in Seq(D)
  BY <1>1
<1>3. q = Joined(<<n>>, p)
  <2>1. <<n>> \in Seq(D)
    BY <1>2
  <2>2. q = <<n>> \o p
    BY <1>1, HeadTailProperties, ConcatProperties
  <2> QED
    BY <2>2 DEF Joined
<1>4. state'[s].queue = p /\ BodyToRead(s)' = BodyToRead(s)
  <2>1. state'[s].queue = p
    BY DEF Receive, TypeOK, AppTypeOK, StreamState
  <2>2. inbox' = inbox
    BY DEF Receive, linkVars
  <2> QED
    BY <2>1, <2>2, BodyOnTheLink DEF TypeOK
<1>5. Taken(s) = h
  BY <1>1, JoinedFacts DEF Taken, InReceive
<1>6. Taken(s)' = Joined(h, <<n>>)
  <2>1. CASE n \in {RequestEnd, RequestDisconnect}
    <3>1. handed'[s] = Append(h, n) /\ item'[s] = 0
      BY <2>1 DEF Receive, TypeOK, AppTypeOK
    <3>2. Append(h, n) = Joined(h, <<n>>) /\ Joined(h, <<n>>) \in Seq(D)
      <4> HIDE DEF n, h, q, p, D
      <4> QED
        BY <1>1, <1>2, <1>j
    <3>3. Joined(Joined(h, <<n>>), <<>>) = Joined(h, <<n>>)
      BY <3>2, JoinedFacts
    <3> QED
      BY <3>1, <3>2, <3>3 DEF Taken, InReceive
  <2>2. CASE n \notin {RequestEnd, RequestDisconnect}
    <3>1. handed'[s] = h /\ item'[s] = n /\ n # 0
      BY <2>2 DEF Receive, TypeOK, AppTypeOK, RequestEnd
    <3> QED
      BY <3>1 DEF Taken, InReceive
  <2> QED
    BY <2>1, <2>2
<1> HIDE DEF n, h, q, p, D
<1>7. <<n>> \in Seq(D)
  BY <1>2
<1>8. Joined(h, Joined(<<n>>, p)) = Joined(Joined(h, <<n>>), p)
  <2> DEFINE x == <<n>>
  <2>1. x \in Seq(D)
    BY <1>7
  <2> HIDE DEF x
  <2>2. Joined(h, Joined(x, p)) = Joined(Joined(h, x), p)
    BY <1>1, <1>2, <1>j, <2>1
  <2> QED
    BY <2>2 DEF x
<1> QED
  BY <1>3, <1>4, <1>5, <1>6, <1>8, HeldIs DEF q

(* The chunk of receive is handed to the app. *)
LEMMA HeldAcked ==
  ASSUME TypeOK, TypeOK', NEW s \in Streams, ReceiveAcked(s), fut[s] = "ok", item[s] # 0
  PROVE  RequestHeld(s)' = RequestHeld(s)
<1>1. /\ handed'[s] = Append(handed[s], item[s]) /\ item'[s] = 0
      /\ state' = state /\ inbox' = inbox
  BY DEF ReceiveAcked, TypeOK, AppTypeOK, linkVars
<1>2. BodyToRead(s)' = BodyToRead(s)
  BY <1>1, BodyOnTheLink DEF TypeOK
<1>3. handed[s] \in Seq(RequestItem) /\ item[s] \in RequestItem
  BY DEF TypeOK, AppTypeOK, RequestItem
<1>4. Taken(s) = Joined(handed[s], <<item[s]>>)
  BY DEF Taken, InReceive
<1>5. Taken(s)' = Joined(handed'[s], <<>>)
  BY <1>1 DEF Taken, InReceive
<1>6. handed'[s] = Joined(handed[s], <<item[s]>>) /\ handed'[s] \in Seq(RequestItem)
  BY <1>1, <1>3, JoinedFacts
<1>7. Taken(s)' = Taken(s)
  BY <1>4, <1>5, <1>6, JoinedFacts
<1> QED
  BY <1>1, <1>2, <1>7, HeldIs

-----------------------------------------------------------------------------
(* The order of the request body.                                          *)

(* A task has a chunk in its hands while it awaits the acknowledgement. *)
Receiving == \A s \in Streams : pc[s] = "recvack" <=> item[s] # 0

(* As long as the writer runs it has failed nobody. *)
NoneFailed == WriterUp => \A c \in Clients : fut[c] # "err"

(* The app gets, or may still get, what the router sends for the stream. *)
Reachable(s) == s \in streams \/ (SessionOpen /\ pc[s] = "none" /\ ~ state[s].disconnected)

(* In progress q of a request, held is where the items sent are. *)
Fits(q, held, sent) ==
  \/ q # "ended" /\ held = sent
  \/ q \in {"ended", "reset"} /\ held = Append(sent, RequestEnd)

InOrder(s) == Fits(request[s], RequestHeld(s), RequestSent(s))

Ordered == \A s \in Streams : WriterUp /\ Reachable(s) => InOrder(s)

LEMMA NoneFailedStep ==
  ASSUME TypeOK, NoneFailed, [Next]_vars
  PROVE  NoneFailed'
<1>1. [Q!Next]_queueVars
  BY QueueStep
<1>2. fut \in [Clients -> {"none", "pending", "ok", "err"}]
  BY DEF TypeOK, Q!TypeOK
<1> QED
  BY <1>1, <1>2 DEF NoneFailed, WriterUp, queueVars, Q!Next, Q!SendFrame, Q!Resume, Q!Abandon, Q!Close,
     Q!WriterGet, Q!WriterSent, Q!WriterFail, Q!WriterCancelled, Q!Resolve

(* What a task has in its hands. *)
LEMMA TaskHands ==
  ASSUME TypeOK, NEW s \in Streams, AppStep(s) \/ TaskStep(s) \/ CallTimeout(s),
         ~ Receive(s), ~ ReceiveAcked(s), ~ CallTimeout(s)
  PROVE  pc[s] # "recvack" /\ UNCHANGED <<item, handed>>
BY DEF AppStep, TaskStep, AppStart, AppBody, AppReceive, AppReturn, AppRaise, AppBadStart, TaskStart,
     FrameSent, FrameFails, Woken, ResetSent, TaskCancelled

LEMMA CloseReceiving ==
  ASSUME Receiving, NEW S \in SUBSET Streams, CloseFromRouter(S)
  PROVE  Receiving'
BY DEF Receiving, CloseFromRouter, Cancelled

LEMMA ReceivingStep ==
  ASSUME TypeOK, HeadOnce, Receiving, [Next]_vars
  PROVE  Receiving'
<1>p. pc \in [Streams -> TaskState] /\ item \in [Streams -> Nat]
  BY DEF TypeOK, AppTypeOK
<1>u. UNCHANGED <<pc, item>> => Receiving'
  BY DEF Receiving
<1>1. ASSUME NEW how, EndSession(how) PROVE Receiving'
  BY <1>1, CloseReceiving DEF EndSession, TypeOK, ReaderTypeOK
<1>2. CASE ReadBad \/ ReadEnd \/ AckFails
  BY <1>1, <1>2 DEF ReadBad, ReadEnd, AckFails
<1>3. CASE ReadReset
  <2>1. streams \cap {Head(inbox).id} \in SUBSET Streams
    BY DEF TypeOK, ReaderTypeOK
  <2> QED
    BY <1>3, <2>1, CloseReceiving DEF ReadReset
<1>4. CASE ReadHeader
  <2> DEFINE f == Head(inbox)
  <2>1. inbox # <<>> /\ f.type = "HEADER" /\ item' = item
        /\ pc' = [pc EXCEPT ![f.id] = IF "HEADER_END" \in f.flags THEN "created" ELSE pc[f.id]]
    BY <1>4 DEF ReadHeader, Read, NextIs
  <2>2. f = inbox[1] /\ 1 \in 1..Len(inbox)
    BY <2>1 DEF TypeOK, LinkTypeOK
  <2>3. pc[f.id] = "none"
    BY <2>1, <2>2 DEF HeadOnce, IsHead
  <2> HIDE DEF f
  <2>4. \A s \in Streams : pc'[s] = pc[s] \/ (pc[s] = "none" /\ pc'[s] = "created")
    BY <1>p, <2>1, <2>3
  <2> QED
    BY <2>1, <2>4 DEF Receiving
<1>5. CASE ReadWindowUpdate
  <2>1. item' = item
    BY <1>5 DEF ReadWindowUpdate
  <2>2. \A s \in Streams : pc'[s] = pc[s] \/ (pc[s] = "window" /\ pc'[s] = "woken")
    BY <1>5, <1>p DEF ReadWindowUpdate
  <2> QED
    BY <2>1, <2>2 DEF Receiving
<1>6. CASE Cancel
  BY <1>1, <1>6, <1>u DEF Cancel, appVars
<1>7. CASE ReadData \/ AckSent \/ Join \/ (\E s \in Streams : RouterStep(s)) \/ LinkEnd \/ Get \/ Sent \/ SendFails
           \/ UNCHANGED vars
  BY <1>7, <1>u DEF ReadData, AckSent, Join, RouterStep, RouterHeader, RouterData, RouterReset, RouterAck,
       RouterBad, LinkEnd, Get, Sent, SendFails, vars, appVars
<1>8. ASSUME NEW s \in Streams, AppStep(s) \/ TaskStep(s) \/ CallTimeout(s)
      PROVE  Receiving'
  <2>1. \A r \in Streams \ {s} : pc'[r] = pc[r] /\ item'[r] = item[r]
    BY <1>8, TaskTouches
  <2>2. pc'[s] = "recvack" <=> item'[s] # 0
    <3>1. CASE Receive(s)
      <4>1. pc[s] # "recvack"
        BY <3>1 DEF Receive
      <4> QED
        BY <1>p, <3>1, <4>1 DEF Receive, Receiving, RequestEnd
    <3>2. CASE ReceiveAcked(s) \/ CallTimeout(s)
      BY <1>p, <3>2 DEF ReceiveAcked, CallTimeout
    <3>3. CASE ~ Receive(s) /\ ~ ReceiveAcked(s) /\ ~ CallTimeout(s)
      <4>1. pc[s] # "recvack" /\ item' = item
        BY <1>8, <3>3, TaskHands
      <4>2. pc'[s] # "recvack"
        BY <1>8, <3>3, TaskQueues
      <4> QED
        BY <4>1, <4>2 DEF Receiving
    <3> QED
      BY <3>1, <3>2, <3>3
  <2> QED
    BY <2>1, <2>2 DEF Receiving
<1> QED
  BY <1>2, <1>3, <1>4, <1>5, <1>6, <1>7, <1>8 DEF Next, ReaderStep

LEMMA SentType ==
  ASSUME NEW n \in Nat
  PROVE  /\ [i \in 1..n |-> i] \in Seq(RequestItem)
         /\ [i \in 1..(n + 1) |-> i] = Joined([i \in 1..n |-> i], <<n + 1>>)
<1> DEFINE f == [i \in 1..n |-> i]
           g == [i \in 1..(n + 1) |-> i]
<1>1. f \in Seq(Nat) /\ Len(f) = n /\ \A i \in 1..n : f[i] = i
  OBVIOUS
<1>2. g \in Seq(Nat) /\ Len(g) = n + 1 /\ \A i \in 1..(n + 1) : g[i] = i
  OBVIOUS
<1>3. f \in Seq(RequestItem)
  BY DEF RequestItem
<1> HIDE DEF f, g
<1>4. g = Append(f, n + 1)
  BY <1>1, <1>2, AppendIs
<1>5. Append(f, n + 1) = Joined(f, <<n + 1>>)
  BY <1>1, JoinedFacts
<1> QED
  BY <1>3, <1>4, <1>5 DEF f, g

(* Nothing moves for a stream that is still reachable. *)
LEMMA OrderedKept ==
  ASSUME Ordered, UNCHANGED <<request, reqs>>, WriterUp' => WriterUp,
         \A r \in Streams : Reachable(r)' => Reachable(r) /\ RequestHeld(r)' = RequestHeld(r)
  PROVE  Ordered'
BY DEF Ordered, InOrder, RequestSent

(* The router sends one more frame. *)
LEMMA ArriveOrdered ==
  ASSUME TypeOK, TypeOK', Ordered, NEW s \in Streams, NEW f \in RouterFrames, f.id = s, Arrive(f),
         UNCHANGED <<sessionVars, appVars, queueVars>>,
         \A r \in Streams \ {s} : request'[r] = request[r] /\ reqs'[r] = reqs[r],
         \A h \in Seq(RequestItem) :
           Fits(request[s], h, RequestSent(s)) => Fits(request'[s], Joined(h, Items(s, f)), RequestSent(s)')
  PROVE  Ordered'
<1>1. (WriterUp' <=> WriterUp) /\ \A r \in Streams : Reachable(r)' <=> Reachable(r)
  BY DEF WriterUp, Reachable, SessionOpen, sessionVars, appVars, queueVars
<1>2. \A r \in Streams : RequestHeld(r) \in Seq(RequestItem) /\ RequestHeld(r)' = Joined(RequestHeld(r), Items(r, f))
  BY HeldGrows DEF appVars
<1> SUFFICES ASSUME NEW r \in Streams, InOrder(r) PROVE InOrder(r)'
  BY <1>1 DEF Ordered
<1>3. CASE r = s
  BY <1>2, <1>3 DEF InOrder
<1>4. CASE r # s
  <2>1. Items(r, f) = <<>>
    BY <1>4, ItemsType
  <2>2. RequestHeld(r)' = RequestHeld(r)
    BY <1>2, <2>1, JoinedFacts
  <2> QED
    BY <1>4, <2>2 DEF InOrder, RequestSent
<1> QED
  BY <1>3, <1>4

LEMMA RouterOrdered ==
  ASSUME TypeOK, TypeOK', Ordered, NEW s \in Streams, RouterStep(s)
  PROVE  Ordered'
<1> DEFINE D == RequestItem
           b == RequestSent(s)
           end == <<RequestEnd>>
<1>t. /\ request \in [Streams -> {"idle", "head", "body", "ended", "reset"}]
      /\ reqs \in [Streams -> Nat] /\ reqs[s] \in Nat /\ reqs[s] + 1 \in D /\ RequestEnd \in D
  BY DEF TypeOK, LinkTypeOK, RequestItem, RequestEnd
<1>j. /\ <<>> \in Seq(D) /\ end \in Seq(D)
      /\ \A h \in Seq(D) : Joined(h, <<>>) = h
      /\ \A h \in Seq(D) : Append(h, RequestEnd) = Joined(h, end)
      /\ \A h, x, y \in Seq(D) : Joined(h, Joined(x, y)) = Joined(Joined(h, x), y)
      /\ \A h, x \in Seq(D) : Joined(h, x) \in Seq(D)
  BY <1>t, JoinedFacts
<1>b. b \in Seq(D) /\ (reqs'[s] = reqs[s] => b' = b) /\ (reqs'[s] = reqs[s] + 1 => b' = Joined(b, <<reqs[s] + 1>>))
  BY <1>t, SentType DEF RequestSent
<1> HIDE DEF D, b, end
(* A frame without a part of the body. *)
<1>1. ASSUME NEW f \in RouterFrames, Arrive(f), f.id = s, Items(s, f) = <<>>,
             UNCHANGED <<reqs, sessionVars, appVars, queueVars>>,
             \A r \in Streams \ {s} : request'[r] = request[r],
             \A h : Fits(request[s], h, b) => Fits(request'[s], h, b)
      PROVE  Ordered'
  <2>1. b' = b
    BY <1>1, <1>b
  <2>2. \A h \in Seq(D) : Joined(h, Items(s, f)) = h
    BY <1>1, <1>j
  <2>3. \A h \in Seq(D) : Fits(request[s], h, b) => Fits(request'[s], Joined(h, Items(s, f)), b')
    BY <1>1, <2>1, <2>2
  <2>4. \A h \in Seq(RequestItem) :
          Fits(request[s], h, RequestSent(s)) => Fits(request'[s], Joined(h, Items(s, f)), RequestSent(s)')
    BY <2>3 DEF D, b
  <2> QED
    BY <1>1, <2>4, ArriveOrdered
(* A frame with one, while the router has not ended the body. *)
<1>2. ASSUME NEW f \in RouterFrames, Arrive(f), f.id = s,
             UNCHANGED <<sessionVars, appVars, queueVars>>,
             \A r \in Streams \ {s} : request'[r] = request[r] /\ reqs'[r] = reqs[r],
             request[s] \notin {"ended", "reset"}, Fits(request'[s], Joined(b, Items(s, f)), b')
      PROVE  Ordered'
  <2>1. \A h : Fits(request[s], h, b) => h = b
    BY <1>2 DEF Fits
  <2>2. \A h \in Seq(D) : Fits(request[s], h, b) => Fits(request'[s], Joined(h, Items(s, f)), b')
    BY <1>2, <2>1
  <2>3. \A h \in Seq(RequestItem) :
          Fits(request[s], h, RequestSent(s)) => Fits(request'[s], Joined(h, Items(s, f)), RequestSent(s)')
    BY <2>2 DEF D, b
  <2> QED
    BY <1>2, <2>3, ArriveOrdered
<1>3. CASE RouterHeader(s)
  <2>1. PICK flags \in SUBSET {"STREAM_END", "HEADER_END"} :
          /\ Arrive(Frame("HEADER", flags, s, 1))
          /\ \/ flags = {} /\ request[s] = "idle" /\ request' = [request EXCEPT ![s] = "head"]
             \/ /\ request[s] \in {"idle", "head"} /\ "HEADER_END" \in flags
                /\ request' = [request EXCEPT ![s] = IF "STREAM_END" \in flags THEN "ended" ELSE "body"]
    BY <1>3 DEF RouterHeader
  <2>2. UNCHANGED <<reqs, sessionVars, appVars, queueVars>>
    BY <1>3 DEF RouterHeader
  <2> DEFINE f == Frame("HEADER", flags, s, 1)
  <2>3. f \in RouterFrames /\ f.id = s /\ f.type = "HEADER" /\ f.flags = flags
    BY RouterFrameType DEF MessageType, Frame
  <2>4. Items(s, f) = IF flags = {"HEADER_END", "STREAM_END"} THEN end ELSE <<>>
    BY <2>3, ItemsType DEF end
  <2> HIDE DEF f
  <2>5. Arrive(f)
    BY <2>1 DEF f
  <2>6. \A r \in Streams \ {s} : request'[r] = request[r] /\ reqs'[r] = reqs[r]
    BY <1>t, <2>1, <2>2
  <2>7. request[s] \notin {"ended", "reset"}
    BY <2>1
  <2>8. CASE flags = {"HEADER_END", "STREAM_END"}
    <3>1. request'[s] = "ended"
      BY <1>t, <2>1, <2>8
    <3>2. b' = b /\ Joined(b, Items(s, f)) = Append(b, RequestEnd)
      BY <1>b, <1>j, <2>2, <2>4, <2>8
    <3>3. Fits(request'[s], Joined(b, Items(s, f)), b')
      BY <3>1, <3>2 DEF Fits
    <3> QED
      BY <1>2, <2>2, <2>3, <2>5, <2>6, <2>7, <3>3
  <2>9. CASE flags # {"HEADER_END", "STREAM_END"}
    <3>1. request'[s] \in {"head", "body"}
      BY <1>t, <2>1, <2>9
    <3>2. \A h : Fits(request[s], h, b) => Fits(request'[s], h, b)
      BY <2>7, <3>1 DEF Fits
    <3>3. Items(s, f) = <<>>
      BY <2>4, <2>9
    <3> QED
      BY <1>1, <2>2, <2>3, <2>5, <2>6, <3>2, <3>3
  <2> QED
    BY <2>8, <2>9
<1>4. CASE RouterData(s)
  <2>1. PICK chunk \in {0, reqs[s] + 1}, flags \in SUBSET {"STREAM_END"} :
          /\ request[s] = "body" /\ (chunk = 0 => flags # {})
          /\ Arrive(Frame("DATA", flags, s, chunk))
          /\ reqs' = [reqs EXCEPT ![s] = IF chunk = 0 THEN @ ELSE chunk]
          /\ request' = [request EXCEPT ![s] = IF flags = {} THEN "body" ELSE "ended"]
    BY <1>4 DEF RouterData
  <2>2. UNCHANGED <<sessionVars, appVars, queueVars>>
    BY <1>4 DEF RouterData
  <2> DEFINE f == Frame("DATA", flags, s, chunk)
             one == <<chunk>>
  <2>3. f \in RouterFrames /\ f.id = s /\ f.type = "DATA" /\ f.flags = flags /\ f.payload = chunk
    BY <1>t, RouterFrameType DEF MessageType, Frame
  <2>4. Items(s, f) = Joined(IF chunk = 0 THEN <<>> ELSE one, IF "STREAM_END" \in flags THEN end ELSE <<>>)
    BY <2>3, ItemsType DEF Arrivals, Joined, end
  <2>5. Arrive(f)
    BY <2>1
  <2>6. \A r \in Streams \ {s} : request'[r] = request[r] /\ reqs'[r] = reqs[r]
    BY <1>t, <2>1
  <2>7. /\ request'[s] = IF flags = {} THEN "body" ELSE "ended"
        /\ reqs'[s] = IF chunk = 0 THEN reqs[s] ELSE reqs[s] + 1
    BY <1>t, <2>1
  <2>8. chunk # 0 => one \in Seq(D) /\ b' = Joined(b, one)
    BY <1>b, <1>t, <2>7
  <2>9. chunk = 0 => b' = b
    BY <1>b, <2>7
  <2>e. flags = {} \/ flags = {"STREAM_END"}
    OBVIOUS
  <2> HIDE DEF f, one
  <2>10. Fits(request'[s], Joined(b, Items(s, f)), b')
    <3>1. CASE chunk = 0
      <4>1. Items(s, f) = Joined(<<>>, end) /\ request'[s] = "ended"
        BY <2>1, <2>4, <2>7, <2>e, <3>1
      <4>2. Joined(<<>>, end) = end
        BY <1>j, <1>t, JoinedFacts
      <4>3. Joined(b, Items(s, f)) = Append(b', RequestEnd)
        BY <1>b, <1>j, <2>9, <3>1, <4>1, <4>2
      <4> QED
        BY <4>1, <4>3 DEF Fits
    <3>2. CASE chunk # 0 /\ flags = {}
      <4>1. Items(s, f) = Joined(one, <<>>) /\ request'[s] = "body"
        BY <2>4, <2>7, <3>2
      <4>2. Joined(b, Items(s, f)) = b'
        BY <1>b, <1>j, <2>8, <3>2, <4>1
      <4> QED
        BY <4>1, <4>2 DEF Fits
    <3>3. CASE chunk # 0 /\ flags = {"STREAM_END"}
      <4>1. Items(s, f) = Joined(one, end) /\ request'[s] = "ended"
        BY <2>4, <2>7, <3>3
      <4>2. Joined(b, Joined(one, end)) = Joined(Joined(b, one), end) /\ Joined(b, one) \in Seq(D)
        BY <1>b, <1>j, <2>8, <3>3
      <4>3. Joined(b, Items(s, f)) = Append(b', RequestEnd)
        BY <1>j, <2>8, <3>3, <4>1, <4>2
      <4> QED
        BY <4>1, <4>3 DEF Fits
    <3> QED
      BY <2>e, <3>1, <3>2, <3>3
  <2> QED
    BY <1>2, <2>1, <2>2, <2>3, <2>5, <2>6, <2>10
<1>5. ASSUME NEW type \in {"RST_STREAM", "BAD", "WINDOW_UPDATE"}, NEW n \in Nat, Arrive(Frame(type, {}, s, n)),
             UNCHANGED <<reqs, sessionVars, appVars, queueVars>>,
             request' = request \/ request' = [request EXCEPT ![s] = "reset"]
      PROVE  Ordered'
  <2> DEFINE f == Frame(type, {}, s, n)
  <2>1. f \in RouterFrames /\ f.id = s /\ f.type \notin {"HEADER", "DATA"}
    BY RouterFrameType DEF MessageType, Frame
  <2>2. Items(s, f) = <<>>
    BY <2>1, ItemsType
  <2>3. \A r \in Streams \ {s} : request'[r] = request[r]
    BY <1>5, <1>t
  <2>4. \A h : Fits(request[s], h, b) => Fits(request'[s], h, b)
    <3>1. request'[s] = request[s] \/ request'[s] = "reset"
      BY <1>5, <1>t
    <3> QED
      BY <3>1 DEF Fits
  <2> QED
    BY <1>1, <1>5, <2>1, <2>2, <2>3, <2>4
<1>6. CASE RouterReset(s) \/ RouterBad(s)
  BY <1>5, <1>6 DEF RouterReset, RouterBad
<1>7. CASE RouterAck(s)
  <2>1. PICK n \in 1..(credit[s] - Uncounted(s)) : Arrive(WindowUpdate(s, n))
    BY <1>7 DEF RouterAck
  <2>2. n \in Nat
    BY UncountedType DEF TypeOK, LinkTypeOK
  <2>3. UNCHANGED <<request, reqs, sessionVars, appVars, queueVars>>
    BY <1>7 DEF RouterAck
  <2> QED
    BY <1>5, <2>1, <2>2, <2>3 DEF WindowUpdate
<1> QED
  BY <1>3, <1>4, <1>6, <1>7 DEF RouterStep

LEMMA ReadHeaderOrdered ==
  ASSUME TypeOK, TypeOK', HeadOnce, ResetLast, Ordered, ReadHeader
  PROVE  Ordered'
<1> DEFINE f == Head(inbox)
           last == "HEADER_END" \in f.flags /\ "STREAM_END" \in f.flags
<1>1. /\ inbox # <<>> /\ inbox' = Tail(inbox) /\ f.type = "HEADER" /\ UNCHANGED <<request, reqs, item, handed>>
      /\ reader = "recv" /\ streams' = streams \cup {f.id} /\ writer' = writer
      /\ pc' = [pc EXCEPT ![f.id] = IF "HEADER_END" \in f.flags THEN "created" ELSE pc[f.id]]
      /\ state' = [state EXCEPT ![f.id].queue = IF last THEN Append(@, RequestEnd) ELSE @]
  BY DEF ReadHeader, Read, NextIs, Q!SendFrame
<1>2. f \in RouterFrames /\ f = inbox[1] /\ 1 \in 1..Len(inbox)
  BY <1>1, InboxHead DEF TypeOK, LinkTypeOK
<1>3. PICK s \in Streams : s = f.id
  BY <1>2, RouterFrameFields
<1>4. pc[s] = "none" /\ ~ state[s].disconnected
  <2>1. pc[s] = "none"
    BY <1>1, <1>2, <1>3 DEF HeadOnce, IsHead
  <2>2. SessionOpen /\ inbox[1].id = s /\ IsPart(inbox[1])
    BY <1>1, <1>2, <1>3 DEF SessionOpen, IsPart
  <2> QED
    BY <1>2, <2>1, <2>2 DEF ResetLast
<1>5. /\ Items(s, f) = IF last THEN <<RequestEnd>> ELSE <<>>
      /\ \A r \in Streams \ {s} : Items(r, f) = <<>>
  <2>1. f.flags \in SUBSET {"STREAM_END", "HEADER_END"}
    BY <1>2 DEF RouterFrames, FrameSet
  <2>2. f.flags = {"HEADER_END", "STREAM_END"} <=> last
    BY <2>1
  <2> HIDE DEF f, last
  <2>3. Items(s, f) = IF f.flags = {"HEADER_END", "STREAM_END"} THEN <<RequestEnd>> ELSE <<>>
    BY <1>1, <1>2, <1>3, ItemsType
  <2>4. \A r \in Streams \ {s} : Items(r, f) = <<>>
    BY <1>2, <1>3, ItemsType
  <2> QED
    BY <2>2, <2>3, <2>4
<1>6. state \in [Streams -> StreamState] /\ state[s] \in StreamState
  BY DEF TypeOK, AppTypeOK
<1> DEFINE old == state[s].queue
           new == IF last THEN Append(old, RequestEnd) ELSE old
<1>7. /\ state'[s].queue = new /\ state'[s].disconnected = state[s].disconnected
      /\ \A r \in Streams \ {s} : state'[r] = state[r]
  BY <1>1, <1>3, <1>6 DEF StreamState
<1> HIDE DEF f, last
<1>8. new = Joined(old, Items(s, f))
  <2>1. old \in Seq(RequestItem) /\ RequestEnd \in RequestItem
    BY HeldType DEF RequestItem, RequestEnd
  <2>2. Append(old, RequestEnd) = Joined(old, <<RequestEnd>>) /\ old = Joined(old, <<>>)
    <3> HIDE DEF old
    <3> QED
      BY <2>1, JoinedFacts
  <2> QED
    BY <1>5, <2>2
<1> HIDE DEF old, new
<1> SUFFICES ASSUME NEW r \in Streams, Reachable(r)'
             PROVE  Reachable(r) /\ RequestHeld(r)' = RequestHeld(r)
  BY <1>1, OrderedKept DEF WriterUp
<1>9. CASE r = s
  <2>1. Reachable(s)
    BY <1>1, <1>4 DEF Reachable, SessionOpen
  <2>2. state'[s].queue = Joined(state[s].queue, Items(s, Head(inbox)))
    BY <1>7, <1>8 DEF old, f
  <2>3. RequestHeld(s)' = RequestHeld(s)
    BY <1>1, <2>2, HeldRead
  <2> QED
    BY <1>9, <2>1, <2>3
<1>10. CASE r # s
  <2>1. Reachable(r)
    BY <1>1, <1>3, <1>7, <1>10 DEF Reachable, SessionOpen
  <2>2. Items(r, Head(inbox)) = <<>> /\ state'[r].queue = state[r].queue
    BY <1>5, <1>7, <1>10 DEF f
  <2>3. RequestHeld(r)' = RequestHeld(r)
    BY <1>1, <2>2, HeldSkips
  <2> QED
    BY <2>1, <2>3
<1> QED
  BY <1>9, <1>10

LEMMA ReadDataOrdered ==
  ASSUME TypeOK, TypeOK', HeadFirst, Ordered, ReadData
  PROVE  Ordered'
<1> DEFINE f == Head(inbox)
<1>1. /\ inbox # <<>> /\ inbox' = Tail(inbox) /\ f.type = "DATA"
      /\ UNCHANGED <<request, reqs, item, handed, streams, reader, pc, writer>>
      /\ state' = [state EXCEPT ![f.id].queue = IF f.id \in streams THEN @ \o Arrivals(f) ELSE @]
  BY DEF ReadData, Read, NextIs, queueVars
<1>2. f \in RouterFrames /\ f = inbox[1] /\ 1 \in 1..Len(inbox)
  BY <1>1, InboxHead DEF TypeOK, LinkTypeOK
<1>3. PICK s \in Streams : s = f.id
  BY <1>2, RouterFrameFields
<1>4. pc[s] # "none"
  <2>1. HeadAhead(s, 1)
    BY <1>1, <1>2, <1>3 DEF HeadFirst
  <2> QED
    BY <2>1 DEF HeadAhead
<1>5. state \in [Streams -> StreamState] /\ state[s] \in StreamState
  BY DEF TypeOK, AppTypeOK
<1>6. /\ s \in streams => state'[s].queue = Joined(state[s].queue, Arrivals(f))
      /\ state'[s].disconnected = state[s].disconnected
      /\ \A r \in Streams \ {s} : state'[r] = state[r]
  BY <1>1, <1>3, <1>5 DEF StreamState, Joined
<1> HIDE DEF f
<1> SUFFICES ASSUME NEW r \in Streams, Reachable(r)'
             PROVE  Reachable(r) /\ RequestHeld(r)' = RequestHeld(r)
  BY <1>1, OrderedKept DEF WriterUp
<1>7. Reachable(r)
  BY <1>1, <1>6 DEF Reachable, SessionOpen
<1>8. CASE r = s
  <2>1. s \in streams
    BY <1>4, <1>7, <1>8 DEF Reachable
  <2>2. Items(s, f) = Arrivals(f)
    BY <1>1, <1>2, <1>3, ItemsType
  <2>3. state'[s].queue = Joined(state[s].queue, Items(s, Head(inbox)))
    BY <1>6, <2>1, <2>2 DEF f
  <2> QED
    BY <1>1, <1>7, <1>8, <2>3, HeldRead
<1>9. CASE r # s
  <2>1. Items(r, f) = <<>>
    BY <1>2, <1>3, <1>9, ItemsType
  <2>2. Items(r, Head(inbox)) = <<>> /\ state'[r].queue = state[r].queue
    BY <1>6, <1>9, <2>1 DEF f
  <2> QED
    BY <1>1, <1>7, <2>2, HeldSkips
<1> QED
  BY <1>8, <1>9

LEMMA ReaderOrdered ==
  ASSUME TypeOK, TypeOK', HeadOnce, PartsInOrder, Ordered, ReaderStep \/ Cancel
  PROVE  Ordered'
<1>1. ASSUME NEW how, EndSession(how) PROVE Ordered'
  BY <1>1 DEF EndSession, Ordered, Reachable, SessionOpen
<1>2. CASE ReadBad \/ ReadEnd \/ AckFails
  BY <1>1, <1>2 DEF ReadBad, ReadEnd, AckFails
<1>s. state \in [Streams -> StreamState]
  BY DEF TypeOK, AppTypeOK
<1>h. inbox # <<>> => Head(inbox) \in RouterFrames
  BY InboxHead DEF TypeOK
<1>3. CASE ReadWindowUpdate
  <2>1. /\ inbox # <<>> /\ inbox' = Tail(inbox) /\ Head(inbox).type = "WINDOW_UPDATE"
        /\ UNCHANGED <<request, reqs, item, handed, streams, reader, writer>>
    BY <1>3 DEF ReadWindowUpdate, Read, NextIs, queueVars
  <2>2. \A r \in Streams : state'[r].queue = state[r].queue /\ state'[r].disconnected = state[r].disconnected
    <3>1. CASE state' = state
      BY <3>1
    <3>2. ASSUME NEW s, NEW left, state' = [state EXCEPT ![s].pending = left], NEW r \in Streams
          PROVE  state'[r].queue = state[r].queue /\ state'[r].disconnected = state[r].disconnected
      <4>1. CASE r = s
        BY <1>s, <3>2, <4>1 DEF StreamState
      <4>2. CASE r # s
        BY <1>s, <3>2, <4>2
      <4> QED
        BY <4>1, <4>2
    <3>3. state' = state \/ \E s, left : state' = [state EXCEPT ![s].pending = left]
      BY <1>3 DEF ReadWindowUpdate
    <3> QED
      BY <3>1, <3>2, <3>3
  <2>3. \A r \in Streams : pc'[r] = "none" => pc[r] = "none"
    BY <1>3, ReaderMoves
  <2>4. \A r \in Streams : Items(r, Head(inbox)) = <<>>
    BY <1>h, <2>1, ItemsType
  <2>5. \A r \in Streams : RequestHeld(r)' = RequestHeld(r)
    BY <2>1, <2>2, <2>4, HeldSkips
  <2>6. \A r \in Streams : Reachable(r)' => Reachable(r)
    BY <2>1, <2>2, <2>3 DEF Reachable, SessionOpen
  <2> QED
    BY <2>1, <2>5, <2>6, OrderedKept DEF WriterUp
<1>4. CASE ReadReset
  <2> DEFINE S == streams \cap {Head(inbox).id}
  <2>1. /\ inbox # <<>> /\ inbox' = Tail(inbox) /\ Head(inbox).type = "RST_STREAM"
        /\ UNCHANGED <<request, reqs, reader, writer>>
        /\ streams' = streams \ S /\ CloseFromRouter(S)
    BY <1>4 DEF ReadReset, Read, NextIs, Q!Abandon
  <2> HIDE DEF S
  <2>2. /\ \A r \in Streams : pc'[r] = "none" => pc[r] = "none"
        /\ \A r \in S \cap Streams : state'[r].disconnected
        /\ \A r \in Streams \ S : state'[r] = state[r] /\ item'[r] = item[r] /\ handed' = handed
    BY <1>s, <2>1 DEF CloseFromRouter, Cancelled, StreamState, TypeOK, AppTypeOK
  <2>3. ASSUME NEW r \in Streams, Reachable(r)' PROVE Reachable(r) /\ RequestHeld(r)' = RequestHeld(r)
    <3>1. r \notin S
      BY <2>1, <2>2, <2>3 DEF Reachable
    <3>2. Reachable(r)
      BY <2>1, <2>2, <2>3, <3>1 DEF Reachable, SessionOpen
    <3>3. Items(r, Head(inbox)) = <<>>
      BY <1>h, <2>1, ItemsType
    <3>4. state'[r].queue = state[r].queue /\ item'[r] = item[r] /\ handed'[r] = handed[r]
      BY <2>2, <3>1
    <3> QED
      BY <2>1, <3>2, <3>3, <3>4, HeldSkips
  <2> QED
    BY <2>1, <2>3, OrderedKept DEF WriterUp
<1>5. ASSUME UNCHANGED <<inbox, request, reqs, streams, appVars>>, SessionOpen' => SessionOpen,
             UNCHANGED queueVars \/ Q!Resume(Reader) \/ Q!WriterCancelled
      PROVE  Ordered'
  <2>1. WriterUp' => WriterUp
    BY <1>5 DEF queueVars, Q!Resume, Q!WriterCancelled, WriterUp
  <2>2. \A r \in Streams : (Reachable(r)' => Reachable(r)) /\ RequestHeld(r)' = RequestHeld(r)
    BY <1>5, HeldStays DEF Reachable, appVars
  <2> QED
    BY <1>5, <2>1, <2>2, OrderedKept
<1>6. CASE AckSent \/ Join
  BY <1>5, <1>6 DEF AckSent, Join, linkVars, SessionOpen
<1>7. CASE Cancel
  <2>1. CASE EndSession("cancelled")
    BY <1>1, <2>1
  <2>2. CASE UNCHANGED <<inbox, streams, appVars>> /\ (Q!WriterCancelled \/ UNCHANGED queueVars)
             /\ reader = "join" /\ reader' = "done"
    BY <1>5, <1>7, <2>2 DEF Cancel, endVars, SessionOpen
  <2> QED
    BY <1>7, <2>1, <2>2 DEF Cancel
<1> QED
  BY <1>2, <1>3, <1>4, <1>6, <1>7, ReadHeaderOrdered, ReadDataOrdered DEF ReaderStep, PartsInOrder

(* A writer that is gone does not come back. *)
LEMMA WriterStays ==
  ASSUME [Q!Next]_queueVars
  PROVE  WriterUp' => WriterUp
BY DEF WriterUp, queueVars, Q!Next, Q!SendFrame, Q!Resume, Q!Abandon, Q!Close,
     Q!WriterGet, Q!WriterSent, Q!WriterFail, Q!WriterCancelled

(* An app that gives up a receive may lose the chunk in it. *)
LEMMA TaskOrdered ==
  ASSUME "timeout" \notin AppMay, TypeOK, TypeOK', Receiving, NoneFailed, Ordered,
         NEW s \in Streams, AppStep(s) \/ TaskStep(s) \/ CallTimeout(s)
  PROVE  Ordered'
<1>1. ~ CallTimeout(s)
  BY DEF CallTimeout
<1>2. /\ UNCHANGED <<linkVars, reader>> /\ streams' \subseteq streams
      /\ \A r \in Streams \ {s} :
           pc'[r] = pc[r] /\ state'[r] = state[r] /\ item'[r] = item[r] /\ handed'[r] = handed[r]
  BY TaskTouches
<1>3. pc'[s] # "none"
  BY AppMoves DEF Moved, TypeOK, AppTypeOK
<1>4. WriterUp' => WriterUp
  BY AppQueueStep, WriterStays
<1>5. \A r \in Streams : Reachable(r)' => Reachable(r)
  BY <1>2, <1>3 DEF Reachable, SessionOpen
<1>6. \A r \in Streams \ {s} : RequestHeld(r)' = RequestHeld(r)
  BY <1>2, HeldStays DEF linkVars
<1>7. ASSUME WriterUp PROVE RequestHeld(s)' = RequestHeld(s)
  <2>1. CASE Receive(s)
    <3>1. item[s] = 0
      BY <2>1 DEF Receive, Receiving
    <3> QED
      BY <2>1, <3>1, HeldReceive
  <2>2. CASE ReceiveAcked(s)
    <3>1. item[s] # 0
      BY <2>2 DEF ReceiveAcked, Receiving
    <3>2. fut[s] = "ok"
      BY <1>7, <2>2 DEF ReceiveAcked, NoneFailed, Clients
    <3> QED
      BY <2>2, <3>1, <3>2, HeldAcked
  <2>3. CASE ~ Receive(s) /\ ~ ReceiveAcked(s)
    <3>1. item' = item /\ handed' = handed
      BY <1>1, <2>3, TaskHands
    <3>2. state'[s].queue = state[s].queue
      BY <2>3, TaskQueues
    <3> QED
      BY <1>2, <3>1, <3>2, HeldStays DEF linkVars
  <2> QED
    BY <2>1, <2>2, <2>3
<1>8. CASE WriterUp'
  BY <1>2, <1>4, <1>5, <1>6, <1>7, <1>8, OrderedKept DEF linkVars
<1>9. CASE ~ WriterUp'
  BY <1>9 DEF Ordered
<1> QED
  BY <1>8, <1>9

LEMMA OrderedStep ==
  ASSUME "timeout" \notin AppMay, TypeOK, TypeOK', HeadOnce, PartsInOrder, Receiving, NoneFailed, Ordered,
         [Next]_vars
  PROVE  Ordered'
<1>1. CASE ReaderStep \/ Cancel
  BY <1>1, ReaderOrdered
<1>2. CASE \E s \in Streams : RouterStep(s)
  BY <1>2, RouterOrdered
<1>3. CASE \E s \in Streams : AppStep(s) \/ TaskStep(s) \/ CallTimeout(s)
  BY <1>3, TaskOrdered
<1>4. CASE LinkEnd \/ Get \/ Sent \/ SendFails \/ UNCHANGED vars
  <2>1. UNCHANGED <<inbox, request, reqs, streams, reader, pc, state, item, handed>>
    BY <1>4 DEF LinkEnd, Get, Sent, SendFails, vars, linkVars, sessionVars, appVars
  <2>2. WriterUp' => WriterUp
    BY QueueStep, WriterStays
  <2>3. \A r \in Streams : (Reachable(r)' => Reachable(r)) /\ RequestHeld(r)' = RequestHeld(r)
    BY <2>1, HeldStays DEF Reachable, SessionOpen
  <2> QED
    BY <2>1, <2>2, <2>3, OrderedKept
<1> QED
  BY <1>1, <1>2, <1>3, <1>4 DEF Next

LEMMA OrderedInit == Init => Ordered /\ Receiving /\ NoneFailed
<1> SUFFICES ASSUME Init PROVE Ordered /\ Receiving /\ NoneFailed
  OBVIOUS
<1>1. Receiving /\ NoneFailed
  BY DEF Init, Q!Init, Receiving, NoneFailed
<1>2. ASSUME NEW s \in Streams PROVE InOrder(s)
  <2>1. /\ request[s] = "idle" /\ reqs[s] = 0 /\ inbox = <<>> /\ state[s].queue = <<>>
        /\ handed[s] = <<>> /\ item[s] = 0
    BY DEF Init
  <2>2. BodyToRead(s) = <<>>
    <3>1. inbox \in Seq(RouterFrames)
      BY TypeInit DEF TypeOK, LinkTypeOK
    <3>2. BodyToRead(s) = Spread(BodyOf(s), inbox)
      BY <3>1, BodySpreads DEF BodyToRead
    <3> QED
      BY <2>1, <3>2, SpreadEmpty
  <2>3. Joined(<<>>, <<>>) = <<>>
    BY JoinedFacts
  <2>4. RequestHeld(s) = <<>>
    <3>1. Taken(s) = <<>>
      BY <2>1, <2>3 DEF Taken, InReceive
    <3> QED
      BY <2>1, <2>2, <2>3, <3>1, HeldIs
  <2>5. RequestSent(s) = <<>>
    BY <2>1 DEF RequestSent
  <2> QED
    BY <2>1, <2>4, <2>5 DEF InOrder, Fits
<1> QED
  BY <1>1, <1>2 DEF Ordered

(***************************************************************************)
(* The app of an open stream is handed the request body in order and       *)
(* without a gap, and its end after its last chunk, unless it gives up a   *)
(* receive: what it has, what waits for it and what is still to be read    *)
(* is, put together, what the router has sent.                             *)
(***************************************************************************)
THEOREM RequestInOrderHolds == "timeout" \notin AppMay /\ SafeSpec => []RequestInOrder
<1> SUFFICES ASSUME "timeout" \notin AppMay PROVE SafeSpec => []RequestInOrder
  OBVIOUS
<1>1. Init => HeadOnce
  BY HeadOnceInit
<1>2. TypeOK /\ HeadOnce /\ [Next]_vars => HeadOnce'
  BY HeadOnceStep
<1>3. TypeOK /\ PartsInOrder /\ [Next]_vars => PartsInOrder'
  BY PartsStep
<1>4. TypeOK /\ HeadOnce /\ Receiving /\ [Next]_vars => Receiving'
  BY ReceivingStep
<1>5. TypeOK /\ NoneFailed /\ [Next]_vars => NoneFailed'
  BY NoneFailedStep
<1>6. TypeOK /\ TypeOK' /\ HeadOnce /\ PartsInOrder /\ Receiving /\ NoneFailed /\ Ordered /\ [Next]_vars => Ordered'
  BY OrderedStep
<1>7. TypeOK /\ Ordered => RequestInOrder
  BY DEF TypeOK, ReaderTypeOK, Ordered, Reachable, InOrder, Fits, Live, WriterUp, RequestInOrder
<1> QED
  BY <1>1, <1>2, <1>3, <1>4, <1>5, <1>6, <1>7, PartsInit, OrderedInit, TypeCorrect, PTL DEF SafeSpec
=============================================================================
