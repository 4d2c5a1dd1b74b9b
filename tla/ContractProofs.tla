--------------------------- MODULE ContractProofs ---------------------------
(***************************************************************************)
(* A session keeps the response contract of the protocol: Session          *)
(* implements ResponseContract, for every set of streams, all watermarks   *)
(* and all bounds, as long as the app keeps to its side of ASGI: it sends  *)
(* nothing after its last body message, gives up no call, and does not go  *)
(* on after a start message that send has refused.                         *)
(***************************************************************************)
EXTENDS SessionFlowProofs

(* The items on their way: the one in the writer's hands, then the queue.  *)
Slots == 0..Len(writeq)
At(i) == IF i = 0 THEN writing ELSE writeq[i]

(* h is an item with a frame of the response of s. *)
Responds(h, s) == h \in Q!Item /\ h.frame.id = s /\ h.frame.type # "WINDOW_UPDATE"

(* h is an item whose future the task of s awaits. *)
OwnedBy(h, s) == h \in Q!Item /\ h.owner = s

(* The frames of one message of the response of s, each of which may       *)
(* follow the one before, and the last of which completes a part.          *)
Chain(s, frames) ==
  /\ \A i \in 1..Len(frames) : frames[i].id = s /\ frames[i].type \in {"HEADER", "DATA"}
  /\ \A i \in 1..(Len(frames) - 1) : Kind(frames[i + 1]) \in Contract!Follows(Kind(frames[i]))
  /\ Kind(frames[Len(frames)]) \in {"HEADER_END", "DATA", "DATA_END"}

(* How far the response of s is, by what its task is doing. *)
Stage(s) ==
  /\ state[s].complete => s \notin streams
  /\ pc[s] \in {"none", "created"} =>
       out[s] = "none" /\ ~ state[s].started /\ ~ state[s].complete
  /\ pc[s] \in {"running", "recv", "recvack"} =>
       /\ ~ state[s].started => out[s] = "none"
       /\ state[s].started => state[s].complete \/ out[s] \in {"HEADER_END", "DATA"}
  /\ pc[s] \in {"send", "window", "woken"} => state[s].started /\ Chain(s, todo[s])
  /\ pc[s] \in {"window", "woken"} \/ (pc[s] = "send" /\ fut[s] = "ok") => out[s] = Kind(Head(todo[s]))
  /\ fut[s] # "err"

(* What is on its way for s: at most one frame of its response, which may  *)
(* follow what is on the wire, and for which its task waits unless it has  *)
(* been cancelled.                                                         *)
Flight(s) ==
  /\ \A i \in Slots : Responds(At(i), s) =>
       /\ Kind(At(i).frame) \in Contract!Follows(out[s])
       /\ \/ At(i).owner = s
          \/ At(i).owner = Nobody /\ pc[s] \in {"cancelled", "done"}
       /\ \A j \in Slots : Responds(At(j), s) => i = j
  /\ \A i \in Slots : OwnedBy(At(i), s) =>
       /\ pc[s] \in {"send", "recvack", "rst"} /\ fut[s] = "pending"
       /\ At(i).frame = Awaited(s)
       /\ \A j \in Slots : OwnedBy(At(j), s) => i = j

ContractInv == WriterUp => \A s \in Streams : Stage(s) /\ Flight(s)

-----------------------------------------------------------------------------
(* Items.                                                                  *)

LEMMA SlotTypes ==
  ASSUME Q!TypeOK
  PROVE  /\ Len(writeq) \in Nat
         /\ \A i \in Slots : At(i) \in Q!Item \cup {Stop, NoItem}
BY DEF Q!TypeOK, Slots, At

LEMMA ItemFields ==
  ASSUME NEW h \in Q!Item
  PROVE  /\ h.owner \in Clients \cup {Nobody}
         /\ h.frame \in Frames /\ h.frame.id \in Streams
BY FrameFields DEF Q!Item

(* What concerns s is where it was, d places further ahead. *)
Same(s, d) ==
  \A i \in Slots' :
    OwnedBy(At(i)', s) \/ Responds(At(i)', s) => i + d \in Slots /\ At(i)' = At(i + d)

(* Nothing concerns s. *)
NoFlight(s) == \A i \in Slots : ~ OwnedBy(At(i), s) /\ ~ Responds(At(i), s)

(* The item of c is put behind the others. *)
Added(c, f) ==
  \A i \in Slots' :
    \/ i \in Slots /\ At(i)' = At(i)
    \/ i = Len(writeq) + 1 /\ i \notin Slots /\ At(i)' = [owner |-> c, frame |-> f]

(* The tasks of C leave their items behind; Stop may be put behind them.   *)
Disowned(C) ==
  \A i \in Slots' :
    \/ i \in Slots /\ At(i)' = Q!Disown(At(i), C)
    \/ At(i)' = Stop

LEMMA SendFrameSlots ==
  ASSUME Q!TypeOK, NEW c, NEW f, Q!SendFrame(c, f)
  PROVE  Added(c, f)
<1>1. Len(writeq) \in Nat /\ writeq \in Seq(Q!Item \cup {Stop})
  BY DEF Q!TypeOK
<1>2. writeq' = Append(writeq, [owner |-> c, frame |-> f]) /\ writing' = writing
  BY DEF Q!SendFrame
<1> DEFINE new == [owner |-> c, frame |-> f]
<1> HIDE DEF new
<1>3. Len(writeq') = Len(writeq) + 1 /\ writeq'[Len(writeq) + 1] = new
      /\ \A i \in 1..Len(writeq) : writeq'[i] = writeq[i]
  BY <1>1, <1>2 DEF new
<1> QED
  BY <1>1, <1>2, <1>3 DEF Added, Slots, At, new

LEMMA AbandonSlots ==
  ASSUME Q!TypeOK, NEW C \in SUBSET Clients, Q!Abandon(C) \/ Q!Close(C)
  PROVE  Disowned(C)
<1>1. Len(writeq) \in Nat
  BY DEF Q!TypeOK
<1> DEFINE kept == [i \in 1..Len(writeq) |-> Q!Disown(writeq[i], C)]
<1>2. kept \in Seq(Q!Item \cup {Stop}) /\ Len(kept) = Len(writeq)
      /\ \A i \in 1..Len(writeq) : kept[i] = Q!Disown(writeq[i], C)
  <2>1. \A i \in 1..Len(writeq) : Q!Disown(writeq[i], C) \in Q!Item \cup {Stop}
    BY DEF Q!Disown, Q!TypeOK, Q!Item
  <2> QED
    BY <1>1, <2>1
<1>3. writing' = Q!Disown(writing, C) /\ (writeq' = kept \/ writeq' = Append(kept, Stop))
  BY DEF Q!Abandon, Q!Close
<1> HIDE DEF kept
<1>4. CASE writeq' = kept
  BY <1>1, <1>2, <1>3, <1>4 DEF Disowned, Slots, At
<1>5. CASE writeq' = Append(kept, Stop)
  <2>1. Len(writeq') = Len(writeq) + 1 /\ writeq'[Len(writeq) + 1] = Stop
        /\ \A i \in 1..Len(writeq) : writeq'[i] = Q!Disown(writeq[i], C)
    BY <1>1, <1>2, <1>5
  <2> QED
    BY <1>1, <1>3, <2>1 DEF Disowned, Slots, At
<1> QED
  BY <1>3, <1>4, <1>5

LEMMA GetSlots ==
  ASSUME Q!TypeOK, Q!WriterGet, WriterUp'
  PROVE  \A i \in Slots' : i + 1 \in Slots /\ At(i)' = At(i + 1)
<1>1. writeq \in Seq(Q!Item \cup {Stop}) /\ writeq # <<>>
  BY DEF Q!TypeOK, Q!WriterGet
<1>2. writing' = Head(writeq) /\ writeq' = Tail(writeq)
  BY DEF Q!WriterGet, WriterUp
<1>3. Len(writeq') = Len(writeq) - 1 /\ Len(writeq) \in Nat \ {0} /\ writing' = writeq[1]
      /\ \A i \in 1..Len(writeq') : writeq'[i] = writeq[i + 1]
  BY <1>1, <1>2
<1> QED
  BY <1>3 DEF Slots, At

LEMMA SentSlots ==
  ASSUME Q!TypeOK, Q!WriterSent
  PROVE  /\ Slots' = Slots /\ 0 \in Slots
         /\ At(0)' = NoItem
         /\ \A i \in Slots \ {0} : At(i)' = At(i)
         /\ At(0) = writing /\ writing \in Q!Item
BY DEF Q!TypeOK, Q!WriterSent, Slots, At

-----------------------------------------------------------------------------
(* What a step of the queue means for one stream.                          *)

(* A task that awaits no future has left nothing on its way, unless it has *)
(* been cancelled.                                                         *)
LEMMA NothingOnItsWay ==
  ASSUME NEW s \in Streams, Flight(s), pc[s] \notin {"cancelled", "done"},
         pc[s] \notin {"send", "recvack", "rst"} \/ fut[s] # "pending"
  PROVE  NoFlight(s)
BY DEF Flight, NoFlight, OwnedBy, Responds

LEMMA FlightNone ==
  ASSUME NEW s, NoFlight(s)'
  PROVE  Flight(s)'
BY DEF NoFlight, Flight

LEMMA NoneStays ==
  ASSUME Q!TypeOK, NEW s, NoFlight(s), NEW d, Same(s, d)
  PROVE  NoFlight(s)'
<1> SUFFICES ASSUME NEW i \in Slots', OwnedBy(At(i)', s) \/ Responds(At(i)', s) PROVE FALSE
  BY DEF NoFlight, OwnedBy, Responds
<1>1. i + d \in Slots /\ At(i)' = At(i + d)
  BY DEF Same
<1> QED
  BY <1>1 DEF NoFlight

LEMMA QuietFlight ==
  ASSUME Q!TypeOK, Q!TypeOK', NEW s \in Streams, Flight(s), NEW d \in {0, 1}, Same(s, d),
         pc'[s] = pc[s], todo'[s] = todo[s], fut'[s] = fut[s], out'[s] = out[s]
  PROVE  Flight(s)'
<1>n. Slots' \subseteq Int /\ Slots \subseteq Int
  BY SlotTypes DEF Slots
<1>a. Awaited(s)' = Awaited(s)
  BY DEF Awaited
<1>1. ASSUME NEW i \in Slots', Responds(At(i)', s)
      PROVE  /\ Kind(At(i)'.frame) \in Contract!Follows(out'[s])
             /\ At(i)'.owner = s \/ (At(i)'.owner = Nobody /\ pc'[s] \in {"cancelled", "done"})
             /\ \A j \in Slots' : Responds(At(j)', s) => i = j
  <2>1. i + d \in Slots /\ At(i)' = At(i + d)
    BY <1>1 DEF Same
  <2>2. ASSUME NEW j \in Slots', Responds(At(j)', s) PROVE i = j
    <3>1. j + d \in Slots /\ At(j)' = At(j + d)
      BY <2>2 DEF Same
    <3>2. i + d = j + d
      BY <1>1, <2>1, <2>2, <3>1 DEF Flight
    <3> QED
      BY <1>n, <3>2
  <2>3. Kind(At(i)'.frame) \in Contract!Follows(out'[s])
    BY <1>1, <2>1 DEF Flight
  <2>4. At(i)'.owner = s \/ (At(i)'.owner = Nobody /\ pc'[s] \in {"cancelled", "done"})
    BY <1>1, <2>1 DEF Flight
  <2> QED
    BY <2>2, <2>3, <2>4
<1>2. ASSUME NEW i \in Slots', OwnedBy(At(i)', s)
      PROVE  /\ pc'[s] \in {"send", "recvack", "rst"} /\ fut'[s] = "pending"
             /\ At(i)'.frame = Awaited(s)'
             /\ \A j \in Slots' : OwnedBy(At(j)', s) => i = j
  <2>1. i + d \in Slots /\ At(i)' = At(i + d)
    BY <1>2 DEF Same
  <2>2. ASSUME NEW j \in Slots', OwnedBy(At(j)', s) PROVE i = j
    <3>1. j + d \in Slots /\ At(j)' = At(j + d)
      BY <2>2 DEF Same
    <3>2. i + d = j + d
      BY <1>2, <2>1, <2>2, <3>1 DEF Flight
    <3> QED
      BY <1>n, <3>2
  <2>3. pc'[s] \in {"send", "recvack", "rst"} /\ fut'[s] = "pending" /\ At(i)'.frame = Awaited(s)'
    BY <1>2, <1>a, <2>1 DEF Flight
  <2> QED
    BY <2>2, <2>3
<1> QED
  BY <1>1, <1>2 DEF Flight, Responds, OwnedBy

LEMMA QuietStream ==
  ASSUME Q!TypeOK, Q!TypeOK', NEW s \in Streams, Stage(s), Flight(s), NEW d \in {0, 1}, Same(s, d),
         pc'[s] = pc[s], todo'[s] = todo[s], fut'[s] = fut[s], out'[s] = out[s],
         state'[s].started = state[s].started, state'[s].complete = state[s].complete,
         s \in streams' => s \in streams
  PROVE  Stage(s)' /\ Flight(s)'
BY QuietFlight DEF Stage, Chain

LEMMA SendOther ==
  ASSUME NEW s \in Streams, NEW c, NEW f, Added(c, f), c # s, f.id = s => f.type = "WINDOW_UPDATE",
         Q!TypeOK
  PROVE  Same(s, 0)
<1> SUFFICES ASSUME NEW i \in Slots', OwnedBy(At(i)', s) \/ Responds(At(i)', s)
             PROVE  i \in Slots /\ At(i)' = At(i)
  BY SlotTypes DEF Same, Slots
<1>1. CASE At(i)' = [owner |-> c, frame |-> f]
  BY <1>1 DEF OwnedBy, Responds
<1> QED
  BY <1>1 DEF Added

LEMMA SendOwn ==
  ASSUME Q!TypeOK, NEW s \in Streams, NoFlight(s), NEW f, Added(s, f),
         out'[s] = out[s], fut'[s] = "pending",
         pc'[s] \in {"send", "recvack", "rst"}, f = Awaited(s)',
         f.type = "WINDOW_UPDATE" \/ Kind(f) \in Contract!Follows(out[s])
  PROVE  Flight(s)'
<1>1. \A i \in Slots' : OwnedBy(At(i)', s) \/ Responds(At(i)', s) =>
        i = Len(writeq) + 1 /\ At(i)' = [owner |-> s, frame |-> f]
  BY DEF NoFlight, Added
<1>2. \A i \in Slots' : Responds(At(i)', s) =>
        Kind(At(i)'.frame) \in Contract!Follows(out'[s]) /\ At(i)'.owner = s
  BY <1>1 DEF Responds
<1>3. \A i \in Slots' : OwnedBy(At(i)', s) => At(i)'.frame = Awaited(s)'
  BY <1>1
<1> QED
  BY <1>1, <1>2, <1>3 DEF Flight, OwnedBy, Responds

LEMMA DisownOther ==
  ASSUME Q!TypeOK, NEW s \in Streams, NEW C \in SUBSET Clients, Disowned(C), s \notin C, Flight(s)
  PROVE  Same(s, 0)
<1> SUFFICES ASSUME NEW i \in Slots', OwnedBy(At(i)', s) \/ Responds(At(i)', s)
             PROVE  i \in Slots /\ At(i)' = At(i)
  BY SlotTypes DEF Same, Slots
<1>1. i \in Slots /\ At(i)' = Q!Disown(At(i), C)
  BY SessionAssumption DEF Disowned, OwnedBy, Responds
<1>2. CASE ~ (At(i) \in Q!Item /\ At(i).owner \in C)
  BY <1>1, <1>2 DEF Q!Disown
<1>3. CASE At(i) \in Q!Item /\ At(i).owner \in C
  <2>1. At(i)' = [owner |-> Nobody, frame |-> At(i).frame]
    BY <1>1, <1>3 DEF Q!Disown, Q!Item
  <2>2. Nobody # s /\ Nobody \notin C
    BY SessionAssumption DEF Clients
  <2>3. Responds(At(i), s)
    BY <1>3, <2>1, <2>2 DEF OwnedBy, Responds
  <2> QED
    BY <1>1, <1>3, <2>2, <2>3 DEF Flight
<1> QED
  BY <1>2, <1>3

(* The stream s is one of those that are disowned. *)
LEMMA DisownOwn ==
  ASSUME Q!TypeOK, NEW s \in Streams, NEW C \in SUBSET Clients, Disowned(C), s \in C, Flight(s),
         out'[s] = out[s]
  PROVE  /\ pc'[s] = "cancelled" \/ (pc'[s] = pc[s] /\ pc[s] \in {"none", "done"}) => Flight(s)'
         /\ pc[s] \in {"recv", "recvack"} => NoFlight(s)'
<1>n. Nobody # s /\ Nobody \notin C
  BY SessionAssumption DEF Clients
<1>1. \A i \in Slots' : ~ OwnedBy(At(i)', s)
  <2> SUFFICES ASSUME NEW i \in Slots', OwnedBy(At(i)', s) PROVE FALSE
    OBVIOUS
  <2>1. i \in Slots /\ At(i)' = Q!Disown(At(i), C)
    BY SessionAssumption DEF Disowned, OwnedBy
  <2> QED
    BY <1>n, <2>1 DEF Q!Disown, OwnedBy, Q!Item
<1>2. ASSUME NEW i \in Slots', Responds(At(i)', s)
      PROVE  i \in Slots /\ Responds(At(i), s) /\ At(i)'.frame = At(i).frame /\ At(i)'.owner = Nobody
  <2>1. i \in Slots /\ At(i)' = Q!Disown(At(i), C)
    BY <1>2, SessionAssumption DEF Disowned, Responds
  <2>2. At(i) \in Q!Item /\ At(i)'.frame = At(i).frame
    BY <1>2, <2>1 DEF Q!Disown, Q!Item, Responds
  <2>3. Responds(At(i), s)
    BY <1>2, <2>2 DEF Responds
  <2>4. At(i).owner \in {s, Nobody}
    BY <2>1, <2>3 DEF Flight
  <2> QED
    BY <2>1, <2>2, <2>3, <2>4 DEF Q!Disown, Q!Item
<1>3. ASSUME pc'[s] = "cancelled" \/ (pc'[s] = pc[s] /\ pc[s] \in {"none", "done"}) PROVE Flight(s)'
  <2>1. ASSUME NEW i \in Slots', Responds(At(i)', s) PROVE pc'[s] \in {"cancelled", "done"}
    <3>1. i \in Slots /\ Responds(At(i), s)
      BY <1>2, <2>1
    <3>2. At(i).owner = s => OwnedBy(At(i), s)
      BY <3>1 DEF OwnedBy, Responds
    <3> QED
      BY <1>3, <3>1, <3>2 DEF Flight
  <2>2. \A i \in Slots' : Responds(At(i)', s) => Kind(At(i)'.frame) \in Contract!Follows(out'[s])
    BY <1>2 DEF Flight
  <2>3. \A i, j \in Slots' : Responds(At(i)', s) /\ Responds(At(j)', s) => i = j
    BY <1>2 DEF Flight
  <2> QED
    BY <1>1, <1>2, <2>1, <2>2, <2>3 DEF Flight, Responds, OwnedBy
<1>4. ASSUME pc[s] \in {"recv", "recvack"} PROVE NoFlight(s)'
  <2>1. ASSUME NEW i \in Slots', Responds(At(i)', s) PROVE FALSE
    <3>1. i \in Slots /\ Responds(At(i), s)
      BY <1>2, <2>1
    <3>2. OwnedBy(At(i), s)
      BY <1>4, <3>1 DEF Flight, OwnedBy, Responds
    <3>3. pc[s] = "recvack" /\ At(i).frame = WindowUpdate(s, 1)
      BY <1>4, <3>1, <3>2 DEF Flight, Awaited
    <3> QED
      BY <3>1, <3>3 DEF Responds, WindowUpdate, Frame
  <2> QED
    BY <1>1, <2>1 DEF NoFlight, OwnedBy, Responds
<1> QED
  BY <1>3, <1>4

-----------------------------------------------------------------------------
(* The writer.                                                             *)

LEMMA GetContract ==
  ASSUME TypeOK, TypeOK', ContractInv, Get
  PROVE  ContractInv'
<1> SUFFICES ASSUME WriterUp', NEW s \in Streams PROVE Stage(s)' /\ Flight(s)'
  BY DEF ContractInv
<1>1. WriterUp /\ UNCHANGED <<out, streams, state, pc, todo, fut>>
  BY DEF Get, Q!WriterGet, WriterUp, linkVars, sessionVars, appVars
<1>2. Same(s, 1)
  BY GetSlots DEF Get, TypeOK, Same
<1> QED
  BY <1>1, <1>2, QuietStream DEF ContractInv, TypeOK

(* A frame that answers the router concerns the stream whose id it carries. *)
LEMMA AwaitedResponds ==
  ASSUME AppTypeOK, NEW s \in Streams, Stage(s), pc[s] \in {"send", "recvack", "rst"}
  PROVE  Awaited(s).id = s /\ (Awaited(s).type = "WINDOW_UPDATE" <=> pc[s] = "recvack")
<1>1. CASE pc[s] = "send"
  <2>1. todo[s] \in Seq(Frames) /\ todo[s] # <<>>
    BY <1>1 DEF AppTypeOK
  <2>2. 1 \in 1..Len(todo[s]) /\ Head(todo[s]) = todo[s][1]
    BY <2>1
  <2> QED
    BY <1>1, <2>2 DEF Stage, Chain, Awaited
<1>2. CASE pc[s] # "send"
  BY <1>2 DEF Awaited, WindowUpdate, Frame
<1> QED
  BY <1>1, <1>2

LEMMA SentContract ==
  ASSUME TypeOK, TypeOK', ContractInv, Sent
  PROVE  ContractInv'
<1> DEFINE f == writing.frame
<1> SUFFICES ASSUME WriterUp', NEW s \in Streams PROVE Stage(s)' /\ Flight(s)'
  BY DEF ContractInv
<1>u. WriterUp /\ UNCHANGED <<streams, state, pc, todo>>
  BY DEF Sent, Q!WriterSent, WriterUp, sessionVars, appVars
<1>i. Stage(s) /\ Flight(s)
  BY <1>u DEF ContractInv
<1>s. /\ Slots' = Slots /\ 0 \in Slots
      /\ At(0)' = NoItem
      /\ \A i \in Slots \ {0} : At(i)' = At(i)
      /\ At(0) = writing /\ writing \in Q!Item
  BY SentSlots DEF Sent, TypeOK
<1>z. ~ OwnedBy(At(0)', s) /\ ~ Responds(At(0)', s)
  BY <1>s, SessionAssumption DEF OwnedBy, Responds
<1>w. f.id \in Streams /\ writing.owner \in Clients \cup {Nobody}
  BY <1>s, ItemFields
<1>o. out' = IF f.type = "WINDOW_UPDATE" THEN out ELSE [out EXCEPT ![f.id] = Kind(f)]
  BY DEF Sent
<1>f. fut'[s] = (IF writing.owner = s THEN "ok" ELSE fut[s])
  BY <1>w DEF Sent, Q!WriterSent, Q!Resolve, TypeOK, Q!TypeOK, Clients
<1>1. CASE Responds(writing, s)
  <2>1. out'[s] = Kind(f)
    BY <1>1, <1>o DEF Responds, TypeOK, LinkTypeOK
  <2>2. \A i \in Slots : Responds(At(i), s) => i = 0
    BY <1>1, <1>i, <1>s DEF Flight
  <2>3. CASE writing.owner = s
    <3>1. OwnedBy(writing, s)
      BY <1>s, <2>3 DEF OwnedBy
    <3>2. \A i \in Slots : OwnedBy(At(i), s) => i = 0
      BY <1>i, <1>s, <3>1 DEF Flight
    <3>3. NoFlight(s)'
      BY <1>s, <1>z, <2>2, <3>2 DEF NoFlight, OwnedBy, Responds
    <3>4. f = Awaited(s) /\ pc[s] \in {"send", "recvack", "rst"}
      BY <1>i, <1>s, <3>1 DEF Flight
    <3>5. pc[s] \in {"send", "rst"}
      BY <1>1, <1>i, <3>4, AwaitedResponds DEF Responds, TypeOK
    <3>6. pc[s] = "send" => out'[s] = Kind(Head(todo[s]))
      BY <2>1, <3>4 DEF Awaited
    <3>7. fut'[s] = "ok"
      BY <1>f, <2>3
    <3>8. Stage(s)'
      BY <1>i, <1>u, <3>5, <3>6, <3>7 DEF Stage
    <3> QED
      BY <3>3, <3>8, FlightNone
  <2>4. CASE writing.owner # s
    <3>1. pc[s] \in {"cancelled", "done"}
      BY <1>1, <1>i, <1>s, <2>4 DEF Flight
    <3>2. \A i \in Slots : ~ OwnedBy(At(i), s)
      BY <1>i, <3>1 DEF Flight
    <3>3. NoFlight(s)'
      BY <1>s, <1>z, <2>2, <3>2 DEF NoFlight, OwnedBy, Responds
    <3>4. Stage(s)'
      BY <1>f, <1>i, <1>u, <2>4, <3>1 DEF Stage
    <3> QED
      BY <3>3, <3>4, FlightNone
  <2> QED
    BY <2>3, <2>4
<1>2. CASE ~ Responds(writing, s)
  <2>1. out'[s] = out[s]
    BY <1>2, <1>o, <1>s, <1>w DEF Responds, TypeOK, LinkTypeOK
  <2>2. Same(s, 0)
    BY <1>s, <1>z, SlotTypes DEF Same, TypeOK, Slots
  <2>3. CASE writing.owner = s
    <3>1. OwnedBy(writing, s)
      BY <1>s, <2>3 DEF OwnedBy
    <3>2. \A i \in Slots : OwnedBy(At(i), s) => i = 0
      BY <1>i, <1>s, <3>1 DEF Flight
    <3>3. f = Awaited(s) /\ pc[s] \in {"send", "recvack", "rst"}
      BY <1>i, <1>s, <3>1 DEF Flight
    <3>4. pc[s] = "recvack"
      BY <1>2, <1>i, <1>s, <3>3, AwaitedResponds DEF Responds, TypeOK
    <3>5. \A i \in Slots : Responds(At(i), s) => i = 0
      BY <1>i, <3>2, <3>4 DEF Flight, OwnedBy, Responds
    <3>6. NoFlight(s)'
      BY <1>s, <1>z, <3>2, <3>5 DEF NoFlight, OwnedBy, Responds
    <3>7. Stage(s)'
      BY <1>f, <1>i, <1>u, <2>1, <2>3, <3>4 DEF Stage
    <3> QED
      BY <3>6, <3>7, FlightNone
  <2>4. CASE writing.owner # s
    <3>1. fut'[s] = fut[s]
      BY <1>f, <2>4
    <3> QED
      BY <1>i, <1>u, <2>1, <2>2, <3>1, QuietStream DEF TypeOK
  <2> QED
    BY <2>3, <2>4
<1> QED
  BY <1>1, <1>2

-----------------------------------------------------------------------------
(* The router and the reader.                                              *)

LEMMA StillSlots ==
  ASSUME NEW s, Q!TypeOK, UNCHANGED <<writeq, writing>>
  PROVE  Same(s, 0)
BY SlotTypes DEF Same, Slots, At

(* Steps that no stream's response notices. *)
LEMMA ContractKept ==
  ASSUME TypeOK, TypeOK', ContractInv, WriterUp' => WriterUp, UNCHANGED <<writeq, writing, out, pc, todo>>,
         \A s \in Streams : fut'[s] = fut[s],
         \A s \in Streams : state'[s].started = state[s].started /\ state'[s].complete = state[s].complete,
         streams' \subseteq streams
  PROVE  ContractInv'
<1> SUFFICES ASSUME WriterUp', NEW s \in Streams PROVE Stage(s)' /\ Flight(s)'
  BY DEF ContractInv
<1>1. Same(s, 0)
  BY StillSlots DEF TypeOK
<1> QED
  BY <1>1, QuietStream DEF ContractInv, TypeOK

LEMMA CloseContract ==
  ASSUME TypeOK, TypeOK', ContractInv, NEW S \in SUBSET streams, NEW C \in SUBSET Clients,
         \A s \in Streams : s \in C <=> s \in S,
         CloseFromRouter(S), Q!Abandon(C) \/ Q!Close(C), out' = out, streams' = streams \ S
  PROVE  ContractInv'
<1> SUFFICES ASSUME WriterUp', NEW s \in Streams PROVE Stage(s)' /\ Flight(s)'
  BY DEF ContractInv
<1>1. WriterUp /\ fut'[s] = (IF s \in C THEN "none" ELSE fut[s])
  BY DEF Q!Abandon, Q!Close, WriterUp, Clients
<1>2. Disowned(C)
  BY AbandonSlots DEF TypeOK
<1>i. Stage(s) /\ Flight(s)
  BY <1>1 DEF ContractInv
<1>3. state'[s].started = state[s].started /\ state'[s].complete = state[s].complete
  <2>1. state[s] \in StreamState
    BY DEF TypeOK, AppTypeOK
  <2>2. state'[s] = state[s] \/ \E q : state'[s] = [state[s] EXCEPT !.disconnected = TRUE, !.queue = q]
    BY DEF CloseFromRouter
  <2>3. ASSUME NEW q, state'[s] = [state[s] EXCEPT !.disconnected = TRUE, !.queue = q]
        PROVE  state'[s].started = state[s].started /\ state'[s].complete = state[s].complete
    BY <2>1, <2>3 DEF StreamState
  <2> QED
    BY <2>2, <2>3
<1>4. CASE s \notin S
  <2>1. pc'[s] = pc[s] /\ todo'[s] = todo[s]
    BY <1>4 DEF CloseFromRouter, Cancelled
  <2>2. Same(s, 0)
    BY <1>2, <1>4, <1>i, DisownOther DEF TypeOK
  <2> QED
    BY <1>1, <1>3, <1>4, <1>i, <2>1, <2>2, QuietStream DEF TypeOK
<1>5. CASE s \in S
  <2>1. pc'[s] = "cancelled" \/ (pc'[s] = pc[s] /\ pc[s] \in {"none", "done"})
    BY <1>5 DEF CloseFromRouter, Cancelled
  <2>2. Flight(s)'
    BY <1>2, <1>5, <1>i, <2>1, DisownOwn DEF TypeOK
  <2>3. Stage(s)'
    BY <1>1, <1>3, <1>5, <1>i, <2>1 DEF Stage
  <2> QED
    BY <2>2, <2>3
<1> QED
  BY <1>4, <1>5

LEMMA EndContract ==
  ASSUME TypeOK, TypeOK', ContractInv, NEW how, EndSession(how), out' = out
  PROVE  ContractInv'
<1>1. streams \subseteq Streams /\ Reader \notin Streams
  BY SessionAssumption DEF TypeOK, ReaderTypeOK
<1>2. streams \cup {Reader} \in SUBSET Clients /\ \A s \in Streams : s \in streams \cup {Reader} <=> s \in streams
  BY <1>1 DEF Clients
<1>3. streams' = streams \ streams /\ CloseFromRouter(streams) /\ Q!Close(streams \cup {Reader})
  BY DEF EndSession
<1> QED
  BY <1>2, <1>3, CloseContract

LEMMA ReadHeaderContract ==
  ASSUME TypeOK, TypeOK', HeadOnce, ContractInv, ReadHeader
  PROVE  ContractInv'
<1> DEFINE f == Head(inbox)
<1> SUFFICES ASSUME WriterUp', NEW s \in Streams PROVE Stage(s)' /\ Flight(s)'
  BY DEF ContractInv
<1>1. f.id \in Streams /\ inbox # <<>> /\ IsHead(f)
  BY InboxHead DEF ReadHeader, Read, NextIs, TypeOK, IsHead
<1>2. pc[f.id] = "none"
  <2>1. 1 \in 1..Len(inbox) /\ f = inbox[1]
    BY <1>1 DEF TypeOK, LinkTypeOK
  <2> QED
    BY <1>1, <2>1 DEF HeadOnce
<1>q. Q!SendFrame(Reader, WindowUpdate(f.id, 1)) /\ out' = out /\ todo' = todo
  BY DEF ReadHeader, Read
<1>p. \E p \in {"created", pc[f.id]} : pc' = [pc EXCEPT ![f.id] = p]
  BY DEF ReadHeader
<1>3. WriterUp /\ fut'[s] = fut[s]
  BY <1>q, SessionAssumption DEF Q!SendFrame, WriterUp, TypeOK, Q!TypeOK, Clients
<1>4. Same(s, 0)
  <2>1. Added(Reader, WindowUpdate(f.id, 1))
    BY <1>q, SendFrameSlots DEF TypeOK
  <2>2. WindowUpdate(f.id, 1).type = "WINDOW_UPDATE" /\ Reader # s
    BY SessionAssumption DEF WindowUpdate, Frame
  <2> QED
    BY <2>1, <2>2, SendOther DEF TypeOK
<1>i. Stage(s) /\ Flight(s)
  BY <1>3 DEF ContractInv
<1>5. state'[s].started = state[s].started /\ state'[s].complete = state[s].complete
  BY <1>1 DEF ReadHeader, TypeOK, AppTypeOK, StreamState
<1>6. CASE s = f.id
  <2>1. pc'[s] \in {"none", "created"}
    BY <1>1, <1>2, <1>6, <1>p DEF TypeOK, AppTypeOK
  <2>2. NoFlight(s)
    BY <1>2, <1>6, <1>i, NothingOnItsWay
  <2>3. Flight(s)'
    BY <1>4, <2>2, NoneStays, FlightNone DEF TypeOK
  <2>4. Stage(s)'
    BY <1>2, <1>3, <1>5, <1>6, <1>i, <1>q, <2>1 DEF Stage
  <2> QED
    BY <2>3, <2>4
<1>7. CASE s # f.id
  <2>1. pc'[s] = pc[s]
    BY <1>7, <1>p DEF TypeOK, AppTypeOK
  <2>2. s \in streams' => s \in streams
    BY <1>7 DEF ReadHeader
  <2> QED
    BY <1>3, <1>4, <1>5, <1>i, <1>q, <2>1, <2>2, QuietStream DEF TypeOK
<1> QED
  BY <1>6, <1>7

LEMMA ReadWindowUpdateContract ==
  ASSUME TypeOK, TypeOK', ContractInv, ReadWindowUpdate
  PROVE  ContractInv'
<1> SUFFICES ASSUME WriterUp', NEW s \in Streams PROVE Stage(s)' /\ Flight(s)'
  BY DEF ContractInv
<1>1. WriterUp /\ UNCHANGED <<out, streams, todo, queueVars>>
  BY DEF ReadWindowUpdate, Read, WriterUp, queueVars
<1>i. Stage(s) /\ Flight(s)
  BY <1>1 DEF ContractInv
<1>2. state'[s].started = state[s].started /\ state'[s].complete = state[s].complete
  <2>1. state' = state \/ \E n : state' = [state EXCEPT ![Head(inbox).id].pending = n]
    BY DEF ReadWindowUpdate
  <2>2. state \in [Streams -> StreamState]
    BY DEF TypeOK, AppTypeOK
  <2>3. ASSUME NEW n, state' = [state EXCEPT ![Head(inbox).id].pending = n]
        PROVE  state'[s].started = state[s].started /\ state'[s].complete = state[s].complete
    BY <2>2, <2>3 DEF StreamState
  <2> QED
    BY <2>1, <2>3
<1>3. pc'[s] = pc[s] \/ (pc[s] = "window" /\ pc'[s] = "woken")
  BY DEF ReadWindowUpdate, TypeOK, AppTypeOK
<1>4. Same(s, 0)
  BY <1>1, StillSlots DEF TypeOK, queueVars
<1>5. CASE pc'[s] = pc[s]
  BY <1>1, <1>2, <1>4, <1>5, <1>i, QuietStream DEF TypeOK, queueVars
<1>6. CASE pc[s] = "window" /\ pc'[s] = "woken"
  <2>1. NoFlight(s)
    BY <1>6, <1>i, NothingOnItsWay
  <2>2. Flight(s)'
    BY <1>4, <2>1, NoneStays, FlightNone DEF TypeOK
  <2>3. Stage(s)'
    BY <1>1, <1>2, <1>6, <1>i DEF Stage, queueVars
  <2> QED
    BY <2>2, <2>3
<1> QED
  BY <1>3, <1>5, <1>6

LEMMA ReaderContract ==
  ASSUME TypeOK, TypeOK', HeadOnce, ContractInv, ReaderStep \/ Cancel
  PROVE  ContractInv'
<1>k. ASSUME UNCHANGED <<queueVars, out, pc, todo, state, streams>> PROVE ContractInv'
  BY <1>k, ContractKept DEF queueVars, WriterUp
<1>e. ASSUME NEW how, EndSession(how), UNCHANGED endVars PROVE ContractInv'
  BY <1>e, EndContract DEF endVars
<1>1. CASE ReadHeader
  BY <1>1, ReadHeaderContract
<1>2. CASE ReadData
  <2>1. \A s \in Streams : state'[s].started = state[s].started /\ state'[s].complete = state[s].complete
    BY <1>2 DEF ReadData, TypeOK, AppTypeOK, StreamState
  <2>2. UNCHANGED <<queueVars, out, pc, todo, streams>>
    BY <1>2 DEF ReadData, Read
  <2> QED
    BY <2>1, <2>2, ContractKept DEF queueVars, WriterUp
<1>3. CASE ReadWindowUpdate
  BY <1>3, ReadWindowUpdateContract
<1>4. CASE ReadReset
  <2> DEFINE S == streams \cap {Head(inbox).id}
  <2>1. S \in SUBSET streams /\ S \in SUBSET Clients
    BY DEF TypeOK, ReaderTypeOK, Clients
  <2>2. CloseFromRouter(S) /\ Q!Abandon(S) /\ out' = out /\ streams' = streams \ S
    BY <1>4 DEF ReadReset, Read
  <2> HIDE DEF S
  <2> QED
    BY <2>1, <2>2, CloseContract
<1>5. CASE ReadBad \/ ReadEnd \/ AckFails
  BY <1>5, <1>e DEF ReadBad, ReadEnd, AckFails
<1>6. CASE AckSent
  <2>1. UNCHANGED <<writeq, writing, writer, out, pc, todo, state, streams>>
    BY <1>6 DEF AckSent, Q!Resume, linkVars, appVars
  <2>2. \A s \in Streams : fut'[s] = fut[s]
    BY <1>6, SessionAssumption DEF AckSent, Q!Resume, TypeOK, Q!TypeOK, Clients
  <2> QED
    BY <2>1, <2>2, ContractKept DEF WriterUp
<1>7. CASE Join
  BY <1>7, <1>k DEF Join, linkVars, appVars
<1>8. CASE Cancel
  <2>1. CASE EndSession("cancelled")
    BY <1>8, <1>e, <2>1 DEF Cancel
  <2>2. CASE Q!WriterCancelled
    BY <2>2 DEF Q!WriterCancelled, ContractInv, WriterUp
  <2>3. CASE UNCHANGED <<queueVars, streams, appVars>>
    BY <1>8, <1>k, <2>3 DEF Cancel, endVars, appVars
  <2> QED
    BY <1>8, <2>1, <2>2, <2>3 DEF Cancel
<1> QED
  BY <1>1, <1>2, <1>3, <1>4, <1>5, <1>6, <1>7, <1>8 DEF ReaderStep

-----------------------------------------------------------------------------
(* The frames of one message.                                              *)

LEMMA HeadChain ==
  ASSUME NEW s \in Streams, NEW n \in 1..MaxHead
  PROVE  LET frames == [i \in 1..n |-> Frame("HEADER", IF i = n THEN {"HEADER_END"} ELSE {}, s, 1)]
         IN Chain(s, frames) /\ Kind(Head(frames)) \in {"HEADER", "HEADER_END"}
<1> DEFINE frames == [i \in 1..n |-> Frame("HEADER", IF i = n THEN {"HEADER_END"} ELSE {}, s, 1)]
<1>1. n \in Nat \ {0}
  BY SessionAssumption
<1>2. \A i \in 1..n : frames[i].id = s /\ frames[i].type = "HEADER"
                      /\ Kind(frames[i]) = (IF i = n THEN "HEADER_END" ELSE "HEADER")
  BY DEF Frame, Kind
<1>3. Len(frames) = n /\ Head(frames) = frames[1]
  <2>1. \A i \in 1..n : Frame("HEADER", IF i = n THEN {"HEADER_END"} ELSE {}, s, 1) \in Frames
    BY FrameType DEF MessageType
  <2> QED
    BY <1>1, <2>1
<1> HIDE DEF frames
<1>4. Chain(s, frames)
  BY <1>1, <1>2, <1>3 DEF Chain, Contract!Follows
<1>5. Kind(Head(frames)) \in {"HEADER", "HEADER_END"}
  BY <1>1, <1>2, <1>3
<1> QED
  BY <1>4, <1>5 DEF frames

LEMMA BodyChain ==
  ASSUME NEW s \in Streams, NEW n \in 0..MaxChunks, NEW more \in BOOLEAN
  PROVE  LET count == IF n = 0 THEN 1 ELSE n
             frames == [i \in 1..count |->
                          Frame("DATA", IF i = count /\ ~ more THEN {"STREAM_END"} ELSE {}, s,
                                IF n = 0 THEN 0 ELSE 1)]
         IN Chain(s, frames) /\ Kind(Head(frames)) \in {"DATA", "DATA_END"}
<1> DEFINE count == IF n = 0 THEN 1 ELSE n
           frames == [i \in 1..count |->
                        Frame("DATA", IF i = count /\ ~ more THEN {"STREAM_END"} ELSE {}, s,
                              IF n = 0 THEN 0 ELSE 1)]
<1>1. count \in Nat \ {0}
  BY SessionAssumption
<1>2. \A i \in 1..count : frames[i].id = s /\ frames[i].type = "DATA"
                      /\ Kind(frames[i]) = (IF i = count /\ ~ more THEN "DATA_END" ELSE "DATA")
  <2> HIDE DEF count
  <2> QED
    BY DEF Frame, Kind
<1>3. Len(frames) = count /\ Head(frames) = frames[1]
  <2>1. \A i \in 1..count :
          Frame("DATA", IF i = count /\ ~ more THEN {"STREAM_END"} ELSE {}, s, IF n = 0 THEN 0 ELSE 1) \in Frames
    BY FrameType DEF MessageType
  <2> HIDE DEF count
  <2> QED
    BY <1>1, <2>1
<1> HIDE DEF frames
<1> HIDE DEF count
<1>4. Chain(s, frames)
  BY <1>1, <1>2, <1>3 DEF Chain, Contract!Follows
<1>5. Kind(Head(frames)) \in {"DATA", "DATA_END"}
  BY <1>1, <1>2, <1>3
<1> QED
  BY <1>4, <1>5 DEF frames, count

LEMMA AutoChain ==
  ASSUME NEW s \in Streams, NEW size \in 0..1
  PROVE  LET frames == <<Frame("HEADER", {"HEADER_END"}, s, 1), Frame("DATA", {"STREAM_END"}, s, size)>>
         IN Chain(s, frames) /\ Kind(Head(frames)) = "HEADER_END"
<1> DEFINE a == Frame("HEADER", {"HEADER_END"}, s, 1)
           b == Frame("DATA", {"STREAM_END"}, s, size)
<1>1. Kind(a) = "HEADER_END" /\ Kind(b) = "DATA_END" /\ a.id = s /\ b.id = s
      /\ a.type \in {"HEADER", "DATA"} /\ b.type \in {"HEADER", "DATA"}
  BY DEF Kind, Frame
<1> HIDE DEF a, b
<1>2. Chain(s, <<a, b>>)
  BY <1>1 DEF Chain, Contract!Follows
<1>3. Head(<<a, b>>) = a
  OBVIOUS
<1> QED
  BY <1>1, <1>2, <1>3 DEF a, b

(* What is left of a message once a frame of it is out. *)
LEMMA RestOfChain ==
  ASSUME NEW s, NEW frames \in Seq(Frames), frames # <<>>, Chain(s, frames)
  PROVE  /\ Tail(frames) # <<>> =>
              Chain(s, Tail(frames)) /\ Kind(Head(Tail(frames))) \in Contract!Follows(Kind(Head(frames)))
         /\ Tail(frames) = <<>> => Kind(Head(frames)) \in {"HEADER_END", "DATA", "DATA_END"}
         /\ Head(frames).type \in {"HEADER", "DATA"} /\ Head(frames).id = s
<1>1. /\ Len(frames) \in Nat \ {0} /\ Len(Tail(frames)) = Len(frames) - 1
      /\ \A i \in 1..(Len(frames) - 1) : Tail(frames)[i] = frames[i + 1]
      /\ Head(frames) = frames[1]
      /\ Tail(frames) = <<>> <=> Len(frames) = 1
      /\ Tail(frames) # <<>> => Head(Tail(frames)) = Tail(frames)[1]
  <2>1. Len(frames) \in Nat \ {0} /\ Len(Tail(frames)) = Len(frames) - 1 /\ Tail(frames) \in Seq(Frames)
    OBVIOUS
  <2>2. \A i \in 1..(Len(frames) - 1) : Tail(frames)[i] = frames[i + 1]
    OBVIOUS
  <2>3. Head(frames) = frames[1]
    OBVIOUS
  <2>4. Tail(frames) = <<>> <=> Len(Tail(frames)) = 0
    BY <2>1, EmptySeq
  <2>5. Tail(frames) # <<>> => Head(Tail(frames)) = Tail(frames)[1]
    BY <2>1
  <2> QED
    BY <2>1, <2>2, <2>3, <2>4, <2>5
<1> HIDE DEF Kind
<1>2. CASE Tail(frames) = <<>>
  BY <1>1, <1>2 DEF Chain
<1>3. CASE Tail(frames) # <<>>
  <2> DEFINE n == Len(frames)
  <2>1. n \in Nat /\ n > 1
    BY <1>1, <1>3
  <2>2. \A i \in 1..(n - 1) : Tail(frames)[i] = frames[i + 1]
    BY <1>1
  <2>3. Len(Tail(frames)) = n - 1
    BY <1>1
  <2>4. \A i \in 1..(n - 1) : Tail(frames)[i].id = s /\ Tail(frames)[i].type \in {"HEADER", "DATA"}
    BY <2>1, <2>2 DEF Chain
  <2>5. \A i \in 1..(n - 2) : Kind(Tail(frames)[i + 1]) \in Contract!Follows(Kind(Tail(frames)[i]))
    BY <2>1, <2>2 DEF Chain
  <2>6. Kind(Tail(frames)[n - 1]) \in {"HEADER_END", "DATA", "DATA_END"}
    BY <2>1, <2>2 DEF Chain
  <2>7. Chain(s, Tail(frames))
    BY <2>1, <2>3, <2>4, <2>5, <2>6 DEF Chain
  <2>8. Kind(frames[2]) \in Contract!Follows(Kind(frames[1]))
    BY <2>1 DEF Chain
  <2>9. Tail(frames)[1] = frames[2] /\ 1 \in 1..n
    BY <2>1, <2>2
  <2> QED
    BY <1>1, <1>3, <2>7, <2>8, <2>9 DEF Chain
<1> QED
  BY <1>2, <1>3

-----------------------------------------------------------------------------
(* The tasks.                                                              *)

(* What the task of s may do to the queue in one step. *)
AppQueue(s) ==
  \/ UNCHANGED queueVars
  \/ Q!Resume(s)
  \/ Q!Abandon({s})
  \/ \E f \in Frames : f.id = s /\ Q!SendFrame(s, f)

(* The other streams do not notice. *)
LEMMA OneStreamMoves ==
  ASSUME TypeOK, TypeOK', ContractInv, NEW s \in Streams, AppQueue(s),
         UNCHANGED out, streams' \subseteq streams,
         \A r \in Streams \ {s} : pc'[r] = pc[r] /\ todo'[r] = todo[r] /\ state'[r] = state[r],
         WriterUp /\ Stage(s) /\ Flight(s) => Stage(s)' /\ Flight(s)'
  PROVE  ContractInv'
<1> SUFFICES ASSUME WriterUp', NEW r \in Streams PROVE Stage(r)' /\ Flight(r)'
  BY DEF ContractInv
<1>1. WriterUp
  BY DEF AppQueue, queueVars, WriterUp, Q!Resume, Q!Abandon, Q!SendFrame
<1>i. Stage(r) /\ Flight(r) /\ Stage(s) /\ Flight(s)
  BY <1>1 DEF ContractInv
<1>2. CASE r = s
  BY <1>1, <1>2, <1>i
<1>3. CASE r # s
  <2>s. s \in Clients /\ r \in Clients /\ {s} \in SUBSET Clients
    BY DEF Clients
  <2>1. fut'[r] = fut[r]
    BY <1>3, <2>s DEF AppQueue, queueVars, Q!Resume, Q!Abandon, Q!SendFrame, TypeOK, Q!TypeOK
  <2>2. Same(r, 0)
    <3>1. CASE UNCHANGED queueVars \/ Q!Resume(s)
      BY <3>1, StillSlots DEF queueVars, Q!Resume, TypeOK
    <3>2. CASE Q!Abandon({s})
      <4>1. Disowned({s})
        BY <2>s, <3>2, AbandonSlots DEF TypeOK
      <4> QED
        BY <1>3, <1>i, <2>s, <4>1, DisownOther DEF TypeOK
    <3>3. ASSUME NEW f \in Frames, f.id = s, Q!SendFrame(s, f) PROVE Same(r, 0)
      <4>1. Added(s, f)
        BY <3>3, SendFrameSlots DEF TypeOK
      <4> QED
        BY <1>3, <3>3, <4>1, SendOther DEF TypeOK
    <3> QED
      BY <3>1, <3>2, <3>3 DEF AppQueue
  <2> QED
    BY <1>3, <1>i, <2>1, <2>2, QuietStream DEF TypeOK
<1> QED
  BY <1>2, <1>3

(* A task that awaits nothing goes on, and sends nothing. *)
LEMMA GoesOn ==
  ASSUME Q!TypeOK, NEW s \in Streams, Flight(s), pc[s] \notin {"cancelled", "done"},
         pc[s] \notin {"send", "recvack", "rst"} \/ fut[s] # "pending",
         UNCHANGED queueVars \/ Q!Resume(s)
  PROVE  Flight(s)'
<1>1. NoFlight(s) /\ Same(s, 0)
  BY NothingOnItsWay, StillSlots DEF queueVars, Q!Resume
<1> QED
  BY <1>1, NoneStays, FlightNone

(* Or it sends the next frame. *)
LEMMA SendsNext ==
  ASSUME Q!TypeOK, NEW s \in Streams, Flight(s), pc[s] \notin {"cancelled", "done"},
         pc[s] \notin {"send", "recvack", "rst"} \/ fut[s] # "pending",
         NEW f \in Frames, Q!SendFrame(s, f), out'[s] = out[s],
         pc'[s] \in {"send", "recvack", "rst"}, f = Awaited(s)',
         f.type = "WINDOW_UPDATE" \/ Kind(f) \in Contract!Follows(out[s])
  PROVE  Flight(s)' /\ fut'[s] = "pending"
<1>1. NoFlight(s) /\ Added(s, f)
  BY NothingOnItsWay, SendFrameSlots
<1>2. fut'[s] = "pending"
  BY DEF Q!SendFrame, Q!TypeOK, Clients
<1> QED
  BY <1>1, <1>2, SendOwn

(* Fields of a stream's state that a step leaves alone. *)
SameProgress(s) == state'[s].started = state[s].started /\ state'[s].complete = state[s].complete

LEMMA StartContract ==
  ASSUME TypeOK, NEW s \in Streams, Stage(s), Flight(s), pc[s] \in {"running", "created"},
         NEW frames \in Seq(Frames), frames # <<>>, Head(frames) \in Frames, Chain(s, frames),
         Kind(Head(frames)) \in Contract!Follows(out[s]),
         StartSending(s, frames), out' = out, streams' = streams,
         state'[s].started, state'[s].complete = state[s].complete
  PROVE  Stage(s)' /\ Flight(s)'
<1>1. pc'[s] = "send" /\ todo'[s] = frames /\ Q!SendFrame(s, Head(frames))
  BY DEF StartSending, TypeOK, AppTypeOK
<1>2. Head(frames) = Awaited(s)'
  BY <1>1 DEF Awaited
<1>3. Flight(s)' /\ fut'[s] = "pending"
  BY <1>1, <1>2, SendsNext DEF TypeOK
<1>4. Stage(s)'
  BY <1>1, <1>3 DEF Stage, Chain
<1> QED
  BY <1>3, <1>4

LEMMA AutoContract ==
  ASSUME TypeOK, NEW s \in Streams, Stage(s), Flight(s), pc[s] \in {"running", "created"}, out[s] = "none",
         NEW size \in 0..1, AutoResponse(s, size), out' = out, streams' = streams
  PROVE  Stage(s)' /\ Flight(s)'
<1> DEFINE frames == <<Frame("HEADER", {"HEADER_END"}, s, 1), Frame("DATA", {"STREAM_END"}, s, size)>>
<1>1. frames \in Seq(Frames) /\ frames # <<>> /\ Head(frames) \in Frames
  BY AutoFrames
<1>2. Chain(s, frames) /\ Kind(Head(frames)) = "HEADER_END"
  BY AutoChain
<1>3. Kind(Head(frames)) \in Contract!Follows(out[s])
  BY <1>2 DEF Contract!Follows
<1>4. StartSending(s, frames)
  BY DEF AutoResponse
<1> HIDE DEF frames
<1>5. state'[s].started /\ state'[s].complete = state[s].complete
  BY DEF AutoResponse, TypeOK, AppTypeOK, StreamState
<1> QED
  BY <1>1, <1>2, <1>3, <1>4, <1>5, StartContract

(* After a frame that is out: the next one, or the end of the message. *)
LEMMA AfterFrameContract ==
  ASSUME TypeOK, NEW s \in Streams, Stage(s), Flight(s), NEW pending, AfterFrame(s, pending),
         pc[s] = "woken" \/ (pc[s] = "send" /\ fut[s] = "ok"), out' = out
  PROVE  Stage(s)' /\ Flight(s)'
<1> DEFINE f == Head(todo[s])
           rest == Tail(todo[s])
           final == f.type = "DATA" /\ "STREAM_END" \in f.flags
<1>t. todo[s] \in Seq(Frames) /\ todo[s] # <<>> /\ state[s] \in StreamState
  BY DEF TypeOK, AppTypeOK
<1>1. out[s] = Kind(f) /\ state[s].started /\ Chain(s, todo[s])
  BY DEF Stage
<1>2. /\ rest # <<>> => Chain(s, rest) /\ Kind(Head(rest)) \in Contract!Follows(Kind(f))
      /\ rest = <<>> => Kind(f) \in {"HEADER_END", "DATA", "DATA_END"}
      /\ f.type \in {"HEADER", "DATA"} /\ f.id = s
  BY <1>1, <1>t, RestOfChain
<1>3. state'[s].started /\ (state'[s].complete <=> state[s].complete \/ final)
  BY <1>1, <1>t DEF AfterFrame, TypeOK, AppTypeOK, StreamState
<1>4. state'[s].complete => s \notin streams'
  BY <1>3 DEF AfterFrame, Stage
<1>5. final <=> Kind(f) = "DATA_END"
  BY <1>2 DEF Kind
<1>6. todo'[s] = rest
  BY DEF AfterFrame, TypeOK, AppTypeOK
<1>7. CASE rest # <<>>
  <2>1. pc'[s] = "send" /\ Q!SendFrame(s, Head(rest))
    BY <1>7 DEF AfterFrame, TypeOK, AppTypeOK
  <2>2. Head(rest) = Awaited(s)'
    BY <1>6, <2>1 DEF Awaited
  <2>3. Head(rest) \in Frames
    BY <1>7, <1>t, TodoHead DEF TypeOK
  <2>4. Kind(Head(rest)) \in Contract!Follows(out[s])
    BY <1>1, <1>2, <1>7
  <2> HIDE DEF f, rest, final
  <2>5. Flight(s)' /\ fut'[s] = "pending"
    BY <2>1, <2>2, <2>3, <2>4, SendsNext DEF TypeOK
  <2>6. Chain(s, todo[s])'
    BY <1>2, <1>6, <1>7 DEF Chain
  <2>7. Stage(s)'
    BY <1>3, <1>4, <2>1, <2>5, <2>6 DEF Stage
  <2> QED
    BY <2>5, <2>7
<1>8. CASE rest = <<>>
  <2>1. pc'[s] \in {"done", "running"}
    BY <1>8 DEF AfterFrame, Finish, TypeOK, AppTypeOK
  <2>2. UNCHANGED queueVars \/ Q!Resume(s)
    BY <1>8 DEF AfterFrame
  <2>3. Flight(s)'
    BY <2>2, GoesOn DEF TypeOK
  <2>4. fut'[s] # "err"
    BY <2>2 DEF queueVars, Q!Resume, Stage, TypeOK, Q!TypeOK, Clients
  <2>5. state'[s].complete \/ out'[s] \in {"HEADER_END", "DATA"}
    BY <1>1, <1>2, <1>3, <1>5, <1>8
  <2> HIDE DEF f, rest, final
  <2>6. Stage(s)'
    BY <1>3, <1>4, <2>1, <2>4, <2>5 DEF Stage
  <2> QED
    BY <2>3, <2>6
<1> QED
  BY <1>7, <1>8

LEMMA RaiseContract ==
  ASSUME TypeOK, NEW s \in Streams, Stage(s), Flight(s), pc[s] = "running", Raise(s),
         state'[s].complete = state[s].complete, out' = out
  PROVE  Stage(s)' /\ Flight(s)'
<1>1. CASE StillOpen(s)
  <2>1. pc'[s] = "rst" /\ Q!SendFrame(s, Frame("RST_STREAM", {}, s, 0)) /\ streams' = streams \ {s}
    BY <1>1 DEF Raise, TypeOK, AppTypeOK
  <2>2. out[s] \in {"none", "HEADER_END", "DATA"}
    BY <1>1 DEF Stage, StillOpen
  <2>3. Kind(Frame("RST_STREAM", {}, s, 0)) \in Contract!Follows(out[s])
    BY <2>2 DEF Kind, Frame, Contract!Follows
  <2>4. Frame("RST_STREAM", {}, s, 0) \in Frames /\ Frame("RST_STREAM", {}, s, 0) = Awaited(s)'
    BY <2>1, FrameType DEF MessageType, Awaited
  <2>5. Flight(s)' /\ fut'[s] = "pending"
    BY <2>1, <2>3, <2>4, SendsNext DEF TypeOK
  <2> QED
    BY <2>1, <2>5 DEF Stage
<1>2. CASE ~ StillOpen(s)
  <2>1. pc'[s] = "done" /\ UNCHANGED <<queueVars, streams>>
    BY <1>2 DEF Raise, Finish, Stage, TypeOK, AppTypeOK
  <2>2. Flight(s)'
    BY <2>1, GoesOn DEF TypeOK
  <2> QED
    BY <2>1, <2>2 DEF Stage, queueVars
<1> QED
  BY <1>1, <1>2

(* Between two awaits of the app, none of which sends. *)
LEMMA RunsContract ==
  ASSUME TypeOK, NEW s \in Streams, Stage(s), Flight(s)', pc[s] \in {"running", "recv", "recvack"},
         pc'[s] \in {"running", "recv", "recvack", "done"}, SameProgress(s), fut'[s] # "err",
         out' = out, streams' = streams
  PROVE  Stage(s)' /\ Flight(s)'
BY DEF Stage, SameProgress

LEMMA TaskContract ==
  ASSUME TypeOK, TypeOK', AppMay = {}, NEW s \in Streams,
         AppStep(s) \/ TaskStep(s) \/ CallTimeout(s), out' = out, Stage(s), Flight(s)
  PROVE  Stage(s)' /\ Flight(s)'
<1>t. /\ pc \in [Streams -> TaskState] /\ fut \in [Clients -> {"none", "pending", "ok", "err"}]
      /\ state[s] \in StreamState /\ s \in Clients
  BY DEF TypeOK, AppTypeOK, Q!TypeOK, Clients
<1>f. UNCHANGED queueVars \/ Q!Resume(s) => fut'[s] # "err"
  BY <1>t DEF queueVars, Q!Resume, Stage
<1>1. CASE AppStart(s)
  <2>1. PICK n \in 1..MaxHead : StartSending(s, [i \in 1..n |->
          Frame("HEADER", IF i = n THEN {"HEADER_END"} ELSE {}, s, 1)])
    BY <1>1 DEF AppStart
  <2> DEFINE frames == [i \in 1..n |-> Frame("HEADER", IF i = n THEN {"HEADER_END"} ELSE {}, s, 1)]
  <2>2. frames \in Seq(Frames) /\ frames # <<>> /\ Head(frames) \in Frames
    BY HeadFrames
  <2>3. Chain(s, frames) /\ Kind(Head(frames)) \in {"HEADER", "HEADER_END"}
    BY HeadChain
  <2>4. StartSending(s, frames)
    BY <2>1
  <2> HIDE DEF frames
  <2>5. out[s] = "none" /\ pc[s] = "running" /\ streams' = streams
    BY <1>1 DEF AppStart, Stage, sessionVars
  <2>6. Kind(Head(frames)) \in Contract!Follows(out[s])
    BY <2>3, <2>5 DEF Contract!Follows
  <2>7. state'[s].started /\ state'[s].complete = state[s].complete
    BY <1>1 DEF AppStart, TypeOK, AppTypeOK, StreamState
  <2> QED
    BY <2>2, <2>3, <2>4, <2>5, <2>6, <2>7, StartContract
<1>2. CASE AppBody(s)
  <2> DEFINE frames(n, more) ==
        LET count == IF n = 0 THEN 1 ELSE n IN
        [i \in 1..count |-> Frame("DATA", IF i = count /\ ~ more THEN {"STREAM_END"} ELSE {}, s,
                                  IF n = 0 THEN 0 ELSE 1)]
  <2>1. PICK n \in 0..MaxChunks, more \in BOOLEAN : StartSending(s, frames(n, more))
    BY <1>2 DEF AppBody
  <2>2. frames(n, more) \in Seq(Frames) /\ frames(n, more) # <<>> /\ Head(frames(n, more)) \in Frames
    BY BodyFrames
  <2>3. Chain(s, frames(n, more)) /\ Kind(Head(frames(n, more))) \in {"DATA", "DATA_END"}
    BY BodyChain
  <2> HIDE DEF frames
  <2>5. /\ pc[s] = "running" /\ state[s].started /\ ~ state[s].complete
        /\ streams' = streams /\ state' = state
    BY <1>2 DEF AppBody, sessionVars
  <2>6. Kind(Head(frames(n, more))) \in Contract!Follows(out[s])
    <3>1. out[s] \in {"HEADER_END", "DATA"}
      BY <2>5 DEF Stage
    <3> QED
      BY <2>3, <3>1 DEF Contract!Follows
  <2> QED
    BY <2>1, <2>2, <2>3, <2>5, <2>6, StartContract
<1>3. CASE AppReturn(s)
  <2>1. CASE state[s].started
    <3>1. pc[s] = "running" /\ pc'[s] = "done" /\ UNCHANGED <<queueVars, state, streams>>
      BY <1>3, <1>t, <2>1 DEF AppReturn, Finish, sessionVars
    <3>2. Flight(s)'
      BY <3>1, GoesOn DEF TypeOK
    <3> QED
      BY <1>f, <3>1, <3>2, RunsContract DEF SameProgress
  <2>2. CASE ~ state[s].started
    BY <1>3, <2>2, AutoContract DEF AppReturn, sessionVars, Stage
  <2> QED
    BY <2>1, <2>2
<1>4. CASE AppRaise(s)
  BY <1>4, RaiseContract DEF AppRaise
<1>5. CASE TaskStart(s)
  <2>1. pc[s] = "created" /\ out[s] = "none" /\ streams' = streams
    BY <1>5 DEF TaskStart, Stage, sessionVars
  <2>2. CASE AutoResponse(s, 1)
    BY <2>1, <2>2, AutoContract
  <2>3. CASE pc' = [pc EXCEPT ![s] = "running"] /\ UNCHANGED <<state, todo, auto, queueVars>>
    <3>1. Flight(s)'
      BY <2>1, <2>3, GoesOn DEF TypeOK
    <3> QED
      BY <1>f, <1>t, <2>1, <2>3, <3>1 DEF Stage
  <2> QED
    BY <1>5, <2>2, <2>3 DEF TaskStart
<1>6. CASE FrameSent(s)
  <2>1. pc[s] = "send" /\ fut[s] = "ok"
    BY <1>6 DEF FrameSent
  <2>2. ASSUME NEW pending, AfterFrame(s, pending) PROVE Stage(s)' /\ Flight(s)'
    BY <2>1, <2>2, AfterFrameContract
  <2>3. CASE /\ pc' = [pc EXCEPT ![s] = "window"]
             /\ state' = [state EXCEPT ![s].pending = state[s].pending + Head(todo[s]).payload]
             /\ Q!Resume(s) /\ UNCHANGED <<streams, todo>>
    <3>1. Flight(s)'
      BY <2>1, <2>3, GoesOn DEF TypeOK
    <3>2. SameProgress(s)
      BY <1>t, <2>3 DEF SameProgress, TypeOK, AppTypeOK, StreamState
    <3>3. pc'[s] = "window" /\ fut'[s] # "err"
      BY <1>f, <1>t, <2>3
    <3> QED
      BY <2>1, <2>3, <3>1, <3>2, <3>3 DEF Stage, SameProgress
  <2> QED
    BY <1>6, <2>2, <2>3 DEF FrameSent
<1>7. CASE FrameFails(s)
  BY <1>7 DEF FrameFails, Stage
<1>8. CASE Woken(s)
  <2>1. CASE AfterFrame(s, state[s].pending)
    BY <1>8, <2>1, AfterFrameContract DEF Woken
  <2>2. CASE pc' = [pc EXCEPT ![s] = "window"] /\ UNCHANGED <<streams, state, todo, queueVars>>
    <3>1. Flight(s)'
      BY <1>8, <2>2, GoesOn DEF Woken, TypeOK
    <3> QED
      BY <1>8, <1>f, <1>t, <2>2, <3>1 DEF Woken, Stage
  <2> QED
    BY <1>8, <2>1, <2>2 DEF Woken
<1>9. CASE ResetSent(s)
  <2>1. pc[s] = "rst" /\ fut[s] # "pending" /\ pc'[s] = "done" /\ Q!Resume(s)
        /\ UNCHANGED <<state, streams>>
    BY <1>9, <1>t DEF ResetSent, Finish, sessionVars
  <2>2. Flight(s)'
    BY <2>1, GoesOn DEF TypeOK
  <2> QED
    BY <1>f, <2>1, <2>2 DEF Stage
<1>10. CASE TaskCancelled(s)
  <2>1. pc[s] = "cancelled" /\ pc'[s] = "done" /\ UNCHANGED <<state, streams, queueVars>>
    BY <1>10, <1>t DEF TaskCancelled, Finish, sessionVars
  <2>2. Slots' = Slots /\ \A i \in Slots : At(i)' = At(i)
    BY <2>1 DEF queueVars, Slots, At
  <2>3. Flight(s)'
    BY <2>1, <2>2 DEF Flight, OwnedBy, Responds
  <2> QED
    BY <1>f, <2>1, <2>3 DEF Stage
<1>11. CASE AppReceive(s)
  <2>1. pc[s] = "running" /\ pc'[s] = "recv" /\ UNCHANGED <<state, streams, queueVars>>
    BY <1>11, <1>t DEF AppReceive, sessionVars
  <2>2. Flight(s)'
    BY <2>1, GoesOn DEF TypeOK
  <2> QED
    BY <1>f, <2>1, <2>2, RunsContract DEF SameProgress
<1>12. CASE Receive(s)
  <2>1. SameProgress(s)
    BY <1>12, <1>t DEF Receive, SameProgress, TypeOK, AppTypeOK, StreamState
  <2>2. pc[s] = "recv" /\ streams' = streams
    BY <1>12 DEF Receive, sessionVars
  <2>3. CASE pc' = [pc EXCEPT ![s] = "running"] /\ UNCHANGED queueVars
    <3>1. Flight(s)'
      BY <2>2, <2>3, GoesOn DEF TypeOK
    <3> QED
      BY <1>f, <1>t, <2>1, <2>2, <2>3, <3>1, RunsContract
  <2>4. CASE pc' = [pc EXCEPT ![s] = "recvack"] /\ Q!SendFrame(s, WindowUpdate(s, 1))
    <3>1. WindowUpdate(s, 1) \in Frames /\ WindowUpdate(s, 1).type = "WINDOW_UPDATE"
      BY WindowUpdateType DEF WindowUpdate, Frame
    <3>2. pc'[s] = "recvack" /\ WindowUpdate(s, 1) = Awaited(s)'
      BY <1>t, <2>4 DEF Awaited
    <3>3. Flight(s)' /\ fut'[s] = "pending"
      BY <2>2, <2>4, <3>1, <3>2, SendsNext DEF TypeOK
    <3> QED
      BY <2>1, <2>2, <3>2, <3>3, RunsContract
  <2> QED
    BY <1>12, <2>3, <2>4 DEF Receive
<1>13. CASE ReceiveAcked(s)
  <2>1. pc[s] = "recvack" /\ fut[s] # "pending" /\ pc'[s] = "running" /\ Q!Resume(s)
        /\ UNCHANGED <<state, streams>>
    BY <1>13, <1>t DEF ReceiveAcked, sessionVars
  <2>2. Flight(s)'
    BY <2>1, GoesOn DEF TypeOK
  <2> QED
    BY <1>f, <2>1, <2>2, RunsContract DEF SameProgress
<1>14. CASE AppBadStart(s)
  <2>1. pc[s] = "running" /\ Raise(s)
    BY <1>14 DEF AppBadStart
  <2>2. state'[s].complete = state[s].complete
    BY <1>14, <1>t DEF AppBadStart, TypeOK, AppTypeOK, StreamState
  <2> QED
    BY <2>1, <2>2, RaiseContract
<1>15. ~ CallTimeout(s)
  BY DEF CallTimeout
<1> QED
  BY <1>1, <1>2, <1>3, <1>4, <1>5, <1>6, <1>7, <1>8, <1>9, <1>10, <1>11, <1>12, <1>13, <1>14, <1>15
     DEF AppStep, TaskStep

(* The first of the frames of a message is one of its stream. *)
LEMMA ChainHead ==
  ASSUME NEW s, NEW frames \in Seq(Frames), frames # <<>>, Chain(s, frames)
  PROVE  Head(frames).id = s /\ Head(frames) \in Frames
<1>1. 1 \in 1..Len(frames) /\ Head(frames) = frames[1] /\ Head(frames) \in Frames
  OBVIOUS
<1> QED
  BY <1>1 DEF Chain

LEMMA TaskQueue ==
  ASSUME TypeOK, NEW s \in Streams, Stage(s), AppStep(s) \/ TaskStep(s) \/ CallTimeout(s)
  PROVE  AppQueue(s)
<1>n. ASSUME NEW f \in Frames, f.id = s, Q!SendFrame(s, f) PROVE AppQueue(s)
  BY <1>n DEF AppQueue
<1>a. ASSUME NEW size \in 0..1, AutoResponse(s, size) PROVE AppQueue(s)
  <2> DEFINE frames == <<Frame("HEADER", {"HEADER_END"}, s, 1), Frame("DATA", {"STREAM_END"}, s, size)>>
  <2>1. frames \in Seq(Frames) /\ frames # <<>> /\ Chain(s, frames) /\ Q!SendFrame(s, Head(frames))
    BY <1>a, AutoFrames, AutoChain DEF AutoResponse, StartSending
  <2> HIDE DEF frames
  <2> QED
    BY <1>n, <2>1, ChainHead
<1>f. ASSUME NEW pending, AfterFrame(s, pending), pc[s] \in {"send", "woken"} PROVE AppQueue(s)
  <2>1. todo[s] \in Seq(Frames) /\ todo[s] # <<>> /\ Chain(s, todo[s])
    BY <1>f DEF TypeOK, AppTypeOK, Stage
  <2>2. CASE Tail(todo[s]) # <<>>
    <3>1. Tail(todo[s]) \in Seq(Frames) /\ Chain(s, Tail(todo[s]))
      BY <2>1, <2>2, RestOfChain
    <3>2. Q!SendFrame(s, Head(Tail(todo[s])))
      BY <1>f, <2>2 DEF AfterFrame
    <3> QED
      BY <1>n, <2>2, <3>1, <3>2, ChainHead
  <2>3. CASE Tail(todo[s]) = <<>>
    BY <1>f, <2>3 DEF AfterFrame, AppQueue
  <2> QED
    BY <2>2, <2>3
<1>r. ASSUME Raise(s) PROVE AppQueue(s)
  <2>1. Frame("RST_STREAM", {}, s, 0) \in Frames /\ Frame("RST_STREAM", {}, s, 0).id = s
    BY DEF MessageType, Frame, Frames, FrameSet
  <2>2. CASE StillOpen(s)
    <3>1. Q!SendFrame(s, Frame("RST_STREAM", {}, s, 0))
      BY <1>r, <2>2 DEF Raise
    <3> QED
      BY <1>n, <2>1, <3>1
  <2>3. CASE ~StillOpen(s)
    <3>1. Q!Resume(s) \/ UNCHANGED queueVars
      BY <1>r, <2>3 DEF Raise
    <3> QED
      BY <3>1 DEF AppQueue
  <2> QED
    BY <2>2, <2>3
<1>1. CASE AppStart(s)
  <2>1. PICK n \in 1..MaxHead : StartSending(s, [i \in 1..n |->
          Frame("HEADER", IF i = n THEN {"HEADER_END"} ELSE {}, s, 1)])
    BY <1>1 DEF AppStart
  <2> DEFINE frames == [i \in 1..n |-> Frame("HEADER", IF i = n THEN {"HEADER_END"} ELSE {}, s, 1)]
  <2>2. frames \in Seq(Frames) /\ frames # <<>> /\ Chain(s, frames) /\ StartSending(s, frames)
    BY <2>1, HeadFrames, HeadChain
  <2> HIDE DEF frames
  <2> QED
    BY <1>n, <2>2, ChainHead DEF StartSending
<1>2. CASE AppBody(s)
  <2> DEFINE frames(n, more) ==
        LET count == IF n = 0 THEN 1 ELSE n IN
        [i \in 1..count |-> Frame("DATA", IF i = count /\ ~ more THEN {"STREAM_END"} ELSE {}, s,
                                  IF n = 0 THEN 0 ELSE 1)]
  <2>1. PICK n \in 0..MaxChunks, more \in BOOLEAN : StartSending(s, frames(n, more))
    BY <1>2 DEF AppBody
  <2>2. frames(n, more) \in Seq(Frames) /\ frames(n, more) # <<>> /\ Chain(s, frames(n, more))
    BY BodyFrames, BodyChain
  <2> HIDE DEF frames
  <2> QED
    BY <1>n, <2>1, <2>2, ChainHead DEF StartSending
<1>3. CASE AppReturn(s) \/ TaskStart(s)
  BY <1>3, <1>a DEF AppReturn, TaskStart, AppQueue
<1>4. CASE AppRaise(s) \/ AppBadStart(s) \/ FrameFails(s)
  BY <1>4, <1>r DEF AppRaise, AppBadStart, FrameFails, AppQueue
<1>5. CASE FrameSent(s) \/ Woken(s)
  BY <1>5, <1>f DEF FrameSent, Woken, AppQueue
<1>6. CASE Receive(s)
  <2>1. WindowUpdate(s, 1) \in Frames /\ WindowUpdate(s, 1).id = s
    BY WindowUpdateType DEF WindowUpdate, Frame
  <2> QED
    BY <1>6, <1>n, <2>1 DEF Receive, AppQueue
<1>7. CASE ResetSent(s) \/ ReceiveAcked(s) \/ CallTimeout(s) \/ AppReceive(s) \/ TaskCancelled(s)
  BY <1>7 DEF ResetSent, ReceiveAcked, CallTimeout, AppReceive, TaskCancelled, AppQueue
<1> QED
  BY <1>1, <1>2, <1>3, <1>4, <1>5, <1>6, <1>7 DEF AppStep, TaskStep

(* A task touches its own stream only. *)
LEMMA TaskAlone ==
  ASSUME TypeOK, NEW s \in Streams, AppStep(s) \/ TaskStep(s) \/ CallTimeout(s)
  PROVE  /\ out' = out /\ streams' \subseteq streams
         /\ \A r \in Streams \ {s} : pc'[r] = pc[r] /\ todo'[r] = todo[r] /\ state'[r] = state[r]
<1>1. out' = out
  BY DEF AppStep, TaskStep, AppStart, AppBody, AppReceive, AppReturn, AppRaise, AppBadStart, TaskStart,
     FrameSent, FrameFails, Woken, ResetSent, Receive, ReceiveAcked, TaskCancelled, CallTimeout, linkVars
<1>2. streams' = streams \/ streams' = streams \ {s}
  BY DEF AppStep, TaskStep, AppStart, AppBody, AppReceive, AppReturn, AppRaise, AppBadStart, TaskStart,
     FrameSent, FrameFails, Woken, ResetSent, Receive, ReceiveAcked, TaskCancelled, CallTimeout,
     sessionVars, AfterFrame, Raise
<1>3. \A r \in Streams \ {s} : pc'[r] = pc[r]
  BY AppMoves DEF Moved, TypeOK, AppTypeOK
<1>4. todo' = todo \/ \E t : todo' = [todo EXCEPT ![s] = t]
  BY DEF AppStep, TaskStep, AppStart, AppBody, AppReceive, AppReturn, AppRaise, AppBadStart, TaskStart,
     FrameSent, FrameFails, Woken, ResetSent, Receive, ReceiveAcked, TaskCancelled, CallTimeout,
     AfterFrame, Raise, AutoResponse, StartSending
<1>5. state' = state \/ \E x : state' = [state EXCEPT ![s] = x]
  <2>1. CASE FrameSent(s) \/ Woken(s)
    BY <2>1 DEF FrameSent, Woken, AfterFrame
  <2>2. CASE AppStart(s) \/ AppBadStart(s) \/ AppReturn(s) \/ TaskStart(s)
    BY <2>2 DEF AppStart, AppBadStart, AppReturn, TaskStart, AutoResponse
  <2>3. CASE Receive(s)
    BY <2>3 DEF Receive
  <2>4. CASE AppBody(s) \/ AppReceive(s) \/ AppRaise(s) \/ FrameFails(s) \/ ResetSent(s)
             \/ ReceiveAcked(s) \/ TaskCancelled(s) \/ CallTimeout(s)
    BY <2>4 DEF AppBody, AppReceive, AppRaise, FrameFails, ResetSent, ReceiveAcked, TaskCancelled,
         CallTimeout
  <2> QED
    BY <2>1, <2>2, <2>3, <2>4 DEF AppStep, TaskStep
<1>6. \A r \in Streams \ {s} : todo'[r] = todo[r] /\ state'[r] = state[r]
  BY <1>4, <1>5 DEF TypeOK, AppTypeOK
<1> QED
  BY <1>1, <1>2, <1>3, <1>6

LEMMA ContractStep ==
  ASSUME TypeOK, TypeOK', AppMay = {}, HeadOnce, ContractInv, [Next]_vars
  PROVE  ContractInv'
<1>k. ASSUME UNCHANGED <<queueVars, out, pc, todo, state, streams>> PROVE ContractInv'
  BY <1>k, ContractKept DEF queueVars, WriterUp
<1>1. CASE ReaderStep \/ Cancel
  BY <1>1, ReaderContract
<1>2. CASE Get
  BY <1>2, GetContract
<1>3. CASE Sent
  BY <1>3, SentContract
<1>4. CASE SendFails
  BY <1>4 DEF SendFails, Q!WriterFail, ContractInv, WriterUp
<1>5. ASSUME NEW s \in Streams, AppStep(s) \/ TaskStep(s) \/ CallTimeout(s) PROVE ContractInv'
  <2>1. CASE WriterUp
    <3>1. Stage(s) /\ Flight(s)
      BY <2>1 DEF ContractInv
    <3>2. AppQueue(s)
      BY <1>5, <3>1, TaskQueue
    <3>3. Stage(s)' /\ Flight(s)'
      BY <1>5, <3>1, TaskAlone, TaskContract
    <3> QED
      BY <1>5, <3>2, <3>3, TaskAlone, OneStreamMoves
  <2>2. CASE ~ WriterUp
    <3>1. writer' = writer
      BY <1>5 DEF AppStep, TaskStep, AppStart, AppBody, AppReceive, AppReturn, AppRaise, AppBadStart, TaskStart,
           FrameSent, FrameFails, Woken, ResetSent, Receive, ReceiveAcked, TaskCancelled, CallTimeout,
           AfterFrame, Raise, AutoResponse, StartSending, Q!SendFrame, Q!Resume, Q!Abandon, queueVars
    <3> QED
      BY <2>2, <3>1 DEF ContractInv, WriterUp
  <2> QED
    BY <2>1, <2>2
<1>6. ASSUME NEW s \in Streams, RouterStep(s) PROVE ContractInv'
  BY <1>6, <1>k
     DEF RouterStep, RouterHeader, RouterData, RouterReset, RouterAck, RouterBad, sessionVars, appVars
<1>7. CASE LinkEnd \/ UNCHANGED vars
  BY <1>7, <1>k DEF LinkEnd, vars, linkVars, sessionVars, appVars
<1> QED
  BY <1>1, <1>2, <1>3, <1>4, <1>5, <1>6, <1>7 DEF Next

(* What reaches the wire is what the contract allows. *)
LEMMA ContractStepOut ==
  ASSUME TypeOK, ContractInv, [Next]_vars
  PROVE  [Contract!Next]_out
<1>1. CASE Sent
  <2> DEFINE f == writing.frame
             s == f.id
  <2>1. /\ 0 \in Slots /\ At(0) = writing /\ writing \in Q!Item
        /\ WriterUp
    BY <1>1, SentSlots DEF Sent, TypeOK, WriterUp, Q!WriterSent
  <2>2. CASE f.type = "WINDOW_UPDATE"
    BY <1>1, <2>2 DEF Sent
  <2>3. CASE f.type # "WINDOW_UPDATE"
    <3>1. s \in Streams /\ Responds(writing, s)
      BY <2>1, <2>3, ItemFields DEF Responds
    <3>2. Kind(f) \in Contract!Follows(out[s])
      BY <2>1, <3>1 DEF ContractInv, Flight
    <3>3. out' = [out EXCEPT ![s] = Kind(f)]
      BY <1>1, <2>3 DEF Sent
    <3>4. Kind(f) \in Contract!Kind
      <4>1. f.type \in MessageType
        BY <2>1, ItemFields, FrameFields
      <4> QED
        BY <2>3, <4>1 DEF Kind, Contract!Kind, MessageType
    <3> QED
      BY <3>1, <3>2, <3>3, <3>4 DEF Contract!Next, Contract!Emit
  <2> QED
    BY <2>2, <2>3
<1>2. CASE ~ Sent
  <2>1. out' = out
    <3>1. CASE ReaderStep \/ Cancel
      BY <3>1 DEF ReaderStep, Cancel, ReadHeader, ReadData, ReadWindowUpdate, ReadReset, ReadBad, ReadEnd,
           AckSent, AckFails, Join, Read, endVars, linkVars
    <3>2. CASE LinkEnd \/ Get \/ SendFails \/ UNCHANGED vars
      BY <3>2 DEF LinkEnd, Get, SendFails, vars, linkVars
    <3>3. CASE \E s \in Streams : RouterStep(s)
      BY <3>3 DEF RouterStep, RouterHeader, RouterData, RouterReset, RouterAck, RouterBad
    <3>4. CASE \E s \in Streams : AppStep(s) \/ TaskStep(s) \/ CallTimeout(s)
      BY <3>4, TaskAlone
    <3> QED
      BY <1>2, <3>1, <3>2, <3>3, <3>4 DEF Next
  <2> QED
    BY <2>1
<1> QED
  BY <1>1, <1>2

LEMMA ContractInit ==
  ASSUME Init
  PROVE  HeadOnce /\ ContractInv /\ Contract!Init
<1>1. HeadOnce /\ Contract!Init
  BY DEF Init, HeadOnce, Contract!Init
<1>2. ASSUME NEW s \in Streams PROVE Stage(s)
  BY SessionAssumption DEF Init, Q!Init, Stage, Clients
<1>3. ASSUME NEW s \in Streams PROVE Flight(s)
  <2>1. NoFlight(s)
    BY SessionAssumption DEF Init, Q!Init, NoFlight, Slots, At, OwnedBy, Responds
  <2> QED
    BY <2>1 DEF NoFlight, Flight
<1> QED
  BY <1>1, <1>2, <1>3 DEF ContractInv

(***************************************************************************)
(* Session implements ResponseContract: whatever the router, the link and  *)
(* the timing do, through every exception, reset and cancellation, the     *)
(* frames of each response come out in the order the protocol allows, with *)
(* one end and nothing after it.  Assumed of the app: it sends nothing     *)
(* after its last body message and gives up no call, and a start message   *)
(* that send refuses ends it.  _StreamState looks at none of these.        *)
(***************************************************************************)
THEOREM ContractHolds ==
  ASSUME AppMay = {}
  PROVE  SafeSpec => ContractSpec
<1>1. Init => HeadOnce /\ ContractInv /\ Contract!Init
  BY ContractInit
<1>2. TypeOK /\ TypeOK' /\ HeadOnce /\ ContractInv /\ [Next]_vars => HeadOnce' /\ ContractInv'
  BY HeadOnceStep, ContractStep
<1>3. TypeOK /\ ContractInv /\ [Next]_vars => [Contract!Next]_out
  BY ContractStepOut
<1> QED
  BY <1>1, <1>2, <1>3, TypeCorrect, PTL DEF SafeSpec, ContractSpec, Contract!Spec

-----------------------------------------------------------------------------
(* The end of an aborted stream, for any app.  Here nothing is asked of    *)
(* the app: it may give up its calls and go on as it likes.                *)

(* h is an item with an RST_STREAM of s. *)
Ends(h, s) == Responds(h, s) /\ h.frame.type = "RST_STREAM"

(* The stream has been aborted, on the wire or on the way to it. *)
Aborted(s) == out[s] = "RST_STREAM" \/ \E i \in Slots : Ends(At(i), s)

(* An aborted stream has left the session, its task does nothing but wait  *)
(* for its RST_STREAM, and nothing of its response is behind that.         *)
Final(s) ==
  /\ pc[s] = "rst" => s \notin streams
  /\ Aborted(s) => pc[s] \in {"rst", "done"}
  /\ out[s] = "RST_STREAM" => \A j \in Slots : ~ Responds(At(j), s)
  /\ \A i, j \in Slots : Ends(At(i), s) /\ i < j => ~ Responds(At(j), s)

FinalInv == WriterUp => \A s \in Streams : Final(s)

(* What is on its way for s was so before, d places further behind. *)
Shifted(s, d) ==
  \A i \in Slots' : Responds(At(i)', s) =>
    i + d \in Slots /\ Responds(At(i + d), s) /\ At(i + d).frame = At(i)'.frame

(* The task of s stays aborted, if it is, and begins no abort. *)
StaysAborted(s) ==
  /\ pc[s] \in {"rst", "done"} => pc'[s] \in {"rst", "done"}
  /\ pc'[s] = "rst" => s \notin streams'

LEMMA ShiftKeepsFinal ==
  ASSUME Q!TypeOK, Q!TypeOK', NEW s \in Streams, NEW d \in 0..1, Final(s), Shifted(s, d),
         out'[s] = out[s], StaysAborted(s)
  PROVE  Final(s)'
<1>1. \A i \in Slots' : Ends(At(i)', s) => i + d \in Slots /\ Ends(At(i + d), s)
  BY DEF Shifted, Ends
<1>2. Aborted(s)' => Aborted(s)
  BY <1>1 DEF Aborted, Ends
<1>3. Slots' \subseteq Int /\ Slots \subseteq Int
  BY DEF Q!TypeOK, Slots
<1>4. ASSUME NEW i \in Slots', NEW j \in Slots', Ends(At(i)', s), i < j PROVE ~ Responds(At(j)', s)
  <2>1. i + d \in Slots /\ Ends(At(i + d), s)
    BY <1>1, <1>4
  <2>2. ASSUME Responds(At(j)', s) PROVE FALSE
    <3>1. j + d \in Slots /\ Responds(At(j + d), s)
      BY <2>2 DEF Shifted
    <3>2. i + d < j + d
      BY <1>3, <1>4
    <3> QED
      BY <2>1, <3>1, <3>2 DEF Final
  <2> QED
    BY <2>2
<1>5. out'[s] = "RST_STREAM" => \A j \in Slots' : ~ Responds(At(j)', s)
  BY DEF Shifted, Final
<1>6. Aborted(s)' => pc'[s] \in {"rst", "done"}
  BY <1>2 DEF Final, StaysAborted
<1> QED
  BY <1>4, <1>5, <1>6 DEF Final, StaysAborted, Ends

(* The queue as it was, with no frame of the response of s put on it.      *)
LEMMA QueueKeepsFrames ==
  ASSUME Q!TypeOK, NEW s \in Streams,
         \/ UNCHANGED <<writeq, writing>>
         \/ \E c, f : Q!SendFrame(c, f) /\ (f.id # s \/ f.type = "WINDOW_UPDATE")
         \/ \E c \in Clients : Q!Resume(c)
         \/ \E C \in SUBSET Clients : Q!Abandon(C) \/ Q!Close(C)
  PROVE  Shifted(s, 0)
<1>0. Slots \subseteq Int /\ \A i \in Slots : i + 0 = i
  BY DEF Q!TypeOK, Slots
<1>1. CASE UNCHANGED <<writeq, writing>>
  <2>1. Slots' = Slots /\ \A i \in Slots : At(i)' = At(i)
    BY <1>1 DEF Slots, At
  <2> QED
    BY <1>0, <2>1 DEF Shifted
<1>2. ASSUME NEW c, NEW f, Q!SendFrame(c, f), f.id # s \/ f.type = "WINDOW_UPDATE"
      PROVE  Shifted(s, 0)
  <2>1. Added(c, f)
    BY <1>2, SendFrameSlots
  <2> DEFINE new == [owner |-> c, frame |-> f]
  <2>2. ~ Responds(new, s)
    BY <1>2 DEF Responds
  <2>3. \A i \in Slots' : (i \in Slots /\ At(i)' = At(i)) \/ At(i)' = new
    BY <2>1 DEF Added
  <2> HIDE DEF new
  <2> QED
    BY <1>0, <2>2, <2>3 DEF Shifted
<1>3. CASE \E c \in Clients : Q!Resume(c)
  <2>1. UNCHANGED <<writeq, writing>>
    BY <1>3 DEF Q!Resume
  <2> QED
    BY <1>1, <2>1
<1>4. ASSUME NEW C \in SUBSET Clients, Q!Abandon(C) \/ Q!Close(C) PROVE Shifted(s, 0)
  <2>1. Disowned(C)
    BY <1>4, AbandonSlots
  <2>2. \A h : /\ Responds(Q!Disown(h, C), s) => Responds(h, s)
               /\ h \in Q!Item => Q!Disown(h, C).frame = h.frame
    BY DEF Responds, Q!Disown, Q!Item
  <2>3. ~ Responds(Stop, s)
    BY SessionAssumption DEF Responds
  <2>4. ASSUME NEW i \in Slots', Responds(At(i)', s)
        PROVE  i \in Slots /\ Responds(At(i), s) /\ At(i).frame = At(i)'.frame
    <3>1. i \in Slots /\ At(i)' = Q!Disown(At(i), C)
      BY <2>1, <2>3, <2>4 DEF Disowned
    <3>2. Responds(At(i), s) /\ At(i) \in Q!Item
      BY <2>2, <2>4, <3>1 DEF Responds
    <3> QED
      BY <2>2, <3>1, <3>2
  <2> QED
    BY <1>0, <2>4 DEF Shifted
<1> QED
  BY <1>1, <1>2, <1>3, <1>4

(* close_from_router finds no task at its abort. *)
LEMMA CloseStaysAborted ==
  ASSUME TypeOK, NEW S \in SUBSET streams, CloseFromRouter(S), streams' \subseteq streams,
         NEW s \in Streams, Final(s)
  PROVE  StaysAborted(s)
<1>1. pc \in [Streams -> TaskState]
  BY DEF TypeOK, AppTypeOK
<1>2. pc'[s] = IF s \in Cancelled(S) THEN "cancelled" ELSE pc[s]
  BY <1>1 DEF CloseFromRouter
<1>3. pc[s] \in {"rst", "done"} => s \notin Cancelled(S)
  BY DEF Cancelled, Final
<1> QED
  BY <1>2, <1>3 DEF StaysAborted, Final

LEMMA ReaderFinal ==
  ASSUME TypeOK, TypeOK', HeadOnce, FinalInv, ReaderStep \/ Cancel
  PROVE  FinalInv'
<1> SUFFICES ASSUME WriterUp', NEW s \in Streams PROVE Final(s)'
  BY DEF FinalInv
<1>t. Q!TypeOK /\ Q!TypeOK' /\ pc \in [Streams -> TaskState] /\ streams \in SUBSET Streams
  BY DEF TypeOK, AppTypeOK, ReaderTypeOK
<1>o. out' = out
  BY DEF ReaderStep, Cancel, ReadHeader, ReadData, ReadWindowUpdate, ReadReset, ReadBad, ReadEnd,
     AckSent, AckFails, Join, Read, endVars, linkVars
<1>u. ASSUME WriterUp, Shifted(s, 0), StaysAborted(s) PROVE Final(s)'
  <2>1. Final(s)
    BY <1>u DEF FinalInv
  <2> QED
    BY <1>o, <1>t, <1>u, <2>1, ShiftKeepsFinal
<1>c. \A S \in SUBSET Streams : S \cup {Reader} \in SUBSET Clients /\ S \in SUBSET Clients
  BY DEF Clients
<1>e. ASSUME NEW how, EndSession(how) PROVE Final(s)'
  <2>1. Q!Close(streams \cup {Reader}) /\ CloseFromRouter(streams) /\ streams' = {}
    BY <1>e DEF EndSession
  <2>2. WriterUp
    BY <2>1 DEF Q!Close, WriterUp
  <2>3. StaysAborted(s)
    BY <2>1, <2>2, CloseStaysAborted DEF FinalInv
  <2>4. Shifted(s, 0)
    BY <1>c, <1>t, <2>1, QueueKeepsFrames
  <2> QED
    BY <1>u, <2>2, <2>3, <2>4
<1>s. ASSUME UNCHANGED <<queueVars, pc, streams>> PROVE Final(s)'
  <2>1. WriterUp /\ UNCHANGED <<writeq, writing>>
    BY <1>s DEF queueVars, WriterUp
  <2>2. StaysAborted(s)
    BY <1>s, <2>1 DEF FinalInv, Final, StaysAborted
  <2> QED
    BY <1>t, <1>u, <2>1, <2>2, QueueKeepsFrames
<1>1. CASE ReadHeader
  <2> DEFINE f == Head(inbox)
             last == "HEADER_END" \in f.flags
  <2>1. /\ streams' = streams \cup {f.id} /\ pc' = [pc EXCEPT ![f.id] = IF last THEN "created" ELSE @]
        /\ Q!SendFrame(Reader, WindowUpdate(f.id, 1))
    BY <1>1 DEF ReadHeader
  <2>2. inbox # <<>> /\ f.type = "HEADER" /\ f.id \in Streams
    BY <1>1, InboxHead DEF ReadHeader, Read, NextIs, TypeOK
  <2>3. pc[f.id] = "none"
    <3>1. 1 \in 1..Len(inbox) /\ f = inbox[1]
      BY <2>2 DEF TypeOK, LinkTypeOK
    <3> QED
      BY <2>2, <3>1 DEF HeadOnce, IsHead
  <2> HIDE DEF f
  <2>4. WindowUpdate(f.id, 1).type = "WINDOW_UPDATE"
    BY DEF WindowUpdate, Frame
  <2>5. Shifted(s, 0)
    BY <1>t, <2>1, <2>4, QueueKeepsFrames
  <2>6. WriterUp
    BY <2>1 DEF Q!SendFrame, WriterUp
  <2>7. CASE s = f.id
    <3>1. pc'[s] \in {"none", "created"}
      BY <1>t, <2>1, <2>3, <2>7
    <3>2. StaysAborted(s)
      BY <2>3, <2>7, <3>1 DEF StaysAborted
    <3> QED
      BY <1>u, <2>5, <2>6, <3>2
  <2>8. CASE s # f.id
    <3>1. pc'[s] = pc[s] /\ (s \in streams' <=> s \in streams)
      BY <1>t, <2>1, <2>2, <2>8
    <3>2. StaysAborted(s)
      BY <2>6, <3>1 DEF StaysAborted, FinalInv, Final
    <3> QED
      BY <1>u, <2>5, <2>6, <3>2
  <2> QED
    BY <2>7, <2>8
<1>2. CASE ReadData
  BY <1>2, <1>s DEF ReadData
<1>3. CASE ReadWindowUpdate
  <2>1. UNCHANGED <<queueVars, streams>>
    BY <1>3 DEF ReadWindowUpdate
  <2>2. WriterUp /\ UNCHANGED <<writeq, writing>>
    BY <2>1 DEF queueVars, WriterUp
  <2>3. pc'[s] = pc[s] \/ (pc[s] = "window" /\ pc'[s] = "woken")
    BY <1>3, <1>t DEF ReadWindowUpdate
  <2>4. StaysAborted(s)
    BY <2>1, <2>2, <2>3 DEF FinalInv, Final, StaysAborted
  <2> QED
    BY <1>t, <1>u, <2>2, <2>4, QueueKeepsFrames
<1>4. CASE ReadReset
  <2> DEFINE S == streams \cap {Head(inbox).id}
  <2>1. streams' = streams \ S /\ CloseFromRouter(S) /\ Q!Abandon(S) /\ S \in SUBSET streams
    BY <1>4 DEF ReadReset
  <2> HIDE DEF S
  <2>2. WriterUp
    BY <2>1 DEF Q!Abandon, WriterUp
  <2>3. StaysAborted(s)
    BY <2>1, <2>2, CloseStaysAborted DEF FinalInv
  <2>4. S \in SUBSET Clients
    BY <1>c, <1>t, <2>1
  <2>5. Shifted(s, 0)
    BY <1>t, <2>1, <2>4, QueueKeepsFrames
  <2> QED
    BY <1>u, <2>2, <2>3, <2>5
<1>5. CASE ReadBad \/ ReadEnd \/ AckFails
  BY <1>5, <1>e DEF ReadBad, ReadEnd, AckFails
<1>6. CASE AckSent
  <2>1. Q!Resume(Reader) /\ UNCHANGED <<pc, streams>>
    BY <1>6 DEF AckSent, appVars
  <2>2. WriterUp /\ UNCHANGED <<writeq, writing>>
    BY <2>1 DEF Q!Resume, WriterUp
  <2>3. StaysAborted(s)
    BY <2>1, <2>2 DEF FinalInv, Final, StaysAborted
  <2> QED
    BY <1>t, <1>u, <2>2, <2>3, QueueKeepsFrames
<1>7. CASE Join
  BY <1>7, <1>s DEF Join, appVars
<1>8. CASE Cancel
  <2>1. CASE EndSession("cancelled")
    BY <1>e, <2>1
  <2>2. CASE Q!WriterCancelled
    BY <2>2 DEF Q!WriterCancelled, WriterUp
  <2>3. CASE UNCHANGED queueVars /\ UNCHANGED <<streams, appVars>>
    BY <1>s, <2>3 DEF appVars
  <2> QED
    BY <1>8, <2>1, <2>2, <2>3 DEF Cancel
<1> QED
  BY <1>1, <1>2, <1>3, <1>4, <1>5, <1>6, <1>7, <1>8 DEF ReaderStep

(* A task that awaits its RST_STREAM only ends; one that begins to await   *)
(* it has dropped its stream.                                              *)
LEMMA AbortMoves ==
  ASSUME TypeOK, NEW s \in Streams, AppStep(s) \/ TaskStep(s) \/ CallTimeout(s)
  PROVE  /\ pc[s] = "rst" => pc'[s] = "done"
         /\ pc'[s] = "rst" => s \notin streams'
<1>p. pc \in [Streams -> TaskState]
  BY DEF TypeOK, AppTypeOK
<1>r. ASSUME Raise(s) PROVE pc'[s] = "rst" => s \notin streams'
  BY <1>p, <1>r DEF Raise, Finish
<1>a. ASSUME NEW pending, AfterFrame(s, pending) PROVE pc'[s] # "rst"
  BY <1>a, <1>p DEF AfterFrame, Finish
<1>1. CASE AppStart(s) \/ AppBody(s)
  BY <1>1, <1>p DEF AppStart, AppBody, StartSending
<1>2. CASE AppReceive(s) \/ ReceiveAcked(s) \/ CallTimeout(s) \/ Receive(s)
  BY <1>2, <1>p DEF AppReceive, ReceiveAcked, CallTimeout, Receive
<1>3. CASE AppReturn(s) \/ TaskStart(s)
  BY <1>3, <1>p DEF AppReturn, TaskStart, AutoResponse, StartSending, Finish
<1>4. CASE AppRaise(s) \/ AppBadStart(s)
  BY <1>4, <1>r DEF AppRaise, AppBadStart
<1>5. CASE FrameSent(s)
  BY <1>5, <1>a, <1>p DEF FrameSent
<1>6. CASE Woken(s)
  BY <1>6, <1>a, <1>p DEF Woken
<1>7. CASE FrameFails(s)
  BY <1>7, <1>r, <1>p DEF FrameFails
<1>8. CASE ResetSent(s) \/ TaskCancelled(s)
  BY <1>8, <1>p DEF ResetSent, TaskCancelled, Finish
<1> QED
  BY <1>1, <1>2, <1>3, <1>4, <1>5, <1>6, <1>7, <1>8 DEF AppStep, TaskStep

LEMMA AppFinal ==
  ASSUME TypeOK, TypeOK', OwnOnly, FinalInv,
         NEW s \in Streams, AppStep(s) \/ TaskStep(s) \/ CallTimeout(s)
  PROVE  FinalInv'
<1>t. Q!TypeOK /\ Q!TypeOK' /\ Len(writeq) \in Nat
  BY DEF TypeOK, Q!TypeOK
<1>1. Goes(s) /\ s \in Clients /\ {s} \in SUBSET Clients
  BY TaskGoes DEF OwnOnly, Clients
<1>2. out' = out /\ streams' \subseteq streams /\ \A r \in Streams \ {s} : pc'[r] = pc[r]
  BY TaskAlone
<1>3. writer' = writer
  BY <1>1 DEF Goes, Sends, Rests, GivesUp, Q!SendFrame, Q!Resume, Q!Abandon, queueVars
<1> SUFFICES ASSUME WriterUp, NEW r \in Streams PROVE Final(r)'
  BY <1>3 DEF FinalInv, WriterUp
<1>4. Final(r) /\ Final(s)
  BY DEF FinalInv
<1>5. pc[s] \notin {"none", "done"} /\ (pc[s] = "rst" => pc'[s] = "done")
      /\ (pc'[s] = "rst" => s \notin streams')
  BY AppMoves, AbortMoves DEF Moved
<1>6. StaysAborted(r)
  <2>1. CASE r = s
    BY <1>5, <2>1 DEF StaysAborted
  <2>2. CASE r # s
    BY <1>2, <1>4, <2>2 DEF StaysAborted, Final
  <2> QED
    BY <2>1, <2>2
<1>7. CASE Shifted(r, 0)
  BY <1>2, <1>4, <1>6, <1>7, <1>t, ShiftKeepsFinal
<1>8. CASE Rests(s) \/ GivesUp(s)
  <2>1. \/ UNCHANGED <<writeq, writing>> \/ Q!Resume(s) \/ Q!Abandon({s})
    BY <1>8 DEF Rests, GivesUp, queueVars
  <2> QED
    BY <1>1, <1>7, <1>t, <2>1, QueueKeepsFrames
<1>9. CASE Sends(s) /\ r # s
  BY <1>7, <1>9, <1>t, QueueKeepsFrames DEF Sends
<1>10. CASE Sends(s) /\ r = s
  <2>1. PICK f \in Frames : Q!SendFrame(s, f) /\ f.id = s /\ Awaits(s)' /\ f = Awaited(s)'
    BY <1>10 DEF Sends
  <2>2. ~ Aborted(s) /\ out'[s] # "RST_STREAM"
    BY <1>2, <1>4, <1>5, <2>1 DEF Final, Aborted, Awaits
  <2> DEFINE new == [owner |-> s, frame |-> f]
  <2>3. Added(s, f)
    BY <1>t, <2>1, SendFrameSlots
  <2>4. \A i \in Slots' : \/ i \in Slots /\ At(i)' = At(i)
                          \/ i = Len(writeq) + 1 /\ i \notin Slots /\ At(i)' = new
    BY <2>3 DEF Added
  <2>5. new.frame = f
    OBVIOUS
  <2> HIDE DEF new
  <2>6. \A i \in Slots' : Ends(At(i)', s) => i = Len(writeq) + 1 /\ f.type = "RST_STREAM"
    BY <2>2, <2>4, <2>5 DEF Aborted, Ends
  <2>7. CASE pc'[s] = "rst"
    <3>1. \A i, j \in Slots' : Ends(At(i)', s) /\ i < j => FALSE
      BY <1>t, <2>4, <2>6 DEF Slots
    <3> QED
      BY <1>5, <1>10, <2>2, <2>7, <3>1 DEF Final, Ends
  <2>8. CASE pc'[s] # "rst"
    <3>1. f.type # "RST_STREAM"
      <4>1. CASE pc'[s] = "send"
        <5>1. todo'[s] \in Seq(Frames) /\ todo'[s] # <<>>
          BY <4>1 DEF TypeOK, AppTypeOK
        <5>2. Head(todo'[s]) = todo'[s][1] /\ 1 \in 1..Len(todo'[s])
          BY <5>1
        <5>3. Head(todo'[s]) \in ResponseFrames(s)
          BY <1>1, <5>2 DEF Goes
        <5> QED
          BY <2>1, <4>1, <5>3 DEF Awaited, ResponseFrames
      <4>2. CASE pc'[s] = "recvack"
        BY <2>1, <4>2 DEF Awaited, WindowUpdate, Frame
      <4> QED
        BY <2>1, <2>8, <4>1, <4>2 DEF Awaits
    <3>2. ~ Aborted(s)' /\ \A i \in Slots' : ~ Ends(At(i)', s)
      BY <2>2, <2>6, <3>1 DEF Aborted, Ends
    <3> QED
      BY <1>10, <2>2, <2>8, <3>2 DEF Final, Ends
  <2> QED
    BY <2>7, <2>8
<1> QED
  BY <1>1, <1>8, <1>9, <1>10 DEF Goes

(* A frame that reaches the wire: nothing of an aborted stream does. *)
LEMMA SentFinal ==
  ASSUME TypeOK, TypeOK', FinalInv, Sent
  PROVE  FinalInv' /\ \A s \in Streams : out[s] = "RST_STREAM" => out'[s] = out[s]
<1> DEFINE f == writing.frame
<1>1. /\ Q!TypeOK /\ Q!TypeOK' /\ Q!WriterSent /\ out \in [Streams -> {"none", "HEADER", "HEADER_END", "DATA", "DATA_END", "RST_STREAM"}]
      /\ UNCHANGED <<pc, streams>>
  BY DEF Sent, TypeOK, LinkTypeOK, sessionVars, appVars
<1>2. /\ Slots' = Slots /\ 0 \in Slots /\ At(0)' = NoItem /\ At(0) = writing /\ writing \in Q!Item
      /\ \A i \in Slots \ {0} : At(i)' = At(i)
  BY <1>1, SentSlots
<1>3. WriterUp /\ f.id \in Streams /\ f \in Frames /\ \A i \in Slots : i \in Nat
  BY <1>1, <1>2, ItemFields DEF WriterUp, Q!WriterSent, Slots, Q!TypeOK
<1>4. \A s \in Streams : ~ Responds(At(0)', s)
  BY <1>2, SessionAssumption DEF Responds
<1>5. ASSUME NEW s \in Streams
      PROVE  Final(s)' /\ (out[s] = "RST_STREAM" => out'[s] = out[s])
  <2>1. Final(s)
    BY <1>3 DEF FinalInv
  <2>2. Shifted(s, 0)
    <3>1. ASSUME NEW i \in Slots', Responds(At(i)', s)
          PROVE  i + 0 \in Slots /\ Responds(At(i + 0), s) /\ At(i + 0).frame = At(i)'.frame
      <4>1. i \in Slots \ {0} /\ i + 0 = i
        BY <1>2, <1>3, <1>4, <3>1
      <4>2. At(i)' = At(i)
        BY <1>2, <4>1
      <4> QED
        BY <3>1, <4>1, <4>2 DEF Responds
    <3> QED
      BY <3>1 DEF Shifted
  <2>3. StaysAborted(s)
    BY <1>1, <2>1 DEF StaysAborted, Final
  <2>4. CASE out'[s] = out[s]
    BY <1>1, <2>1, <2>2, <2>3, <2>4, ShiftKeepsFinal
  <2>5. CASE out'[s] # out[s]
    <3>1. f.type # "WINDOW_UPDATE" /\ f.id = s /\ out'[s] = Kind(f)
      BY <1>1, <2>5 DEF Sent
    <3>2. Responds(At(0), s)
      BY <1>2, <3>1 DEF Responds
    <3>3. out[s] # "RST_STREAM"
      BY <1>2, <2>1, <3>2 DEF Final
    <3>4. \A i \in Slots' : Ends(At(i)', s) => i \in Slots \ {0} /\ Ends(At(i), s)
      BY <1>2, <1>4 DEF Ends
    <3>5. \A i, j \in Slots' : Ends(At(i)', s) /\ i < j => ~ Responds(At(j)', s)
      <4>1. \A j \in Slots' : Responds(At(j)', s) => j \in Slots /\ Responds(At(j), s)
        BY <1>2, <1>4
      <4> QED
        BY <1>2, <2>1, <3>4, <4>1 DEF Final
    <3>6. CASE f.type = "RST_STREAM"
      <4>1. Ends(At(0), s)
        BY <1>2, <3>2, <3>6 DEF Ends
      <4>2. pc'[s] \in {"rst", "done"} /\ (pc'[s] = "rst" => s \notin streams')
        BY <1>1, <1>2, <2>1, <4>1 DEF Final, Aborted
      <4>3. \A j \in Slots' : ~ Responds(At(j)', s)
        <5>1. ASSUME NEW j \in Slots \ {0} PROVE ~ Responds(At(j), s)
          <6>1. 0 < j
            BY <1>3
          <6> QED
            BY <1>2, <2>1, <4>1, <6>1 DEF Final
        <5> QED
          BY <1>2, <1>4, <5>1
      <4> QED
        BY <3>3, <3>5, <4>2, <4>3 DEF Final
    <3>7. CASE f.type # "RST_STREAM"
      <4>1. out'[s] # "RST_STREAM"
        BY <1>3, <3>1, <3>7, FrameFields DEF Kind, MessageType
      <4>2. Aborted(s)' => Aborted(s)
        BY <3>4, <4>1 DEF Aborted
      <4> QED
        BY <1>1, <2>1, <3>3, <3>5, <4>1, <4>2 DEF Final
    <3> QED
      BY <3>6, <3>7
  <2> QED
    BY <1>1, <2>4, <2>5
<1> QED
  BY <1>5 DEF FinalInv

LEMMA FinalStep ==
  ASSUME TypeOK, TypeOK', HeadOnce, OwnOnly, FinalInv, [Next]_vars
  PROVE  FinalInv' /\ \A s \in Streams : out[s] = "RST_STREAM" => out'[s] = out[s]
<1>k. ASSUME UNCHANGED <<queueVars, out, pc, streams>> PROVE FinalInv'
  <2> SUFFICES ASSUME WriterUp', NEW s \in Streams PROVE Final(s)'
    BY DEF FinalInv
  <2>1. WriterUp /\ UNCHANGED <<writeq, writing>>
    BY <1>k DEF queueVars, WriterUp
  <2>2. Final(s) /\ StaysAborted(s)
    BY <1>k, <2>1 DEF FinalInv, Final, StaysAborted
  <2> QED
    BY <1>k, <2>1, <2>2, QueueKeepsFrames, ShiftKeepsFinal DEF TypeOK
<1>1. CASE ReaderStep \/ Cancel
  <2>1. out' = out
    BY <1>1 DEF ReaderStep, Cancel, ReadHeader, ReadData, ReadWindowUpdate, ReadReset, ReadBad, ReadEnd,
       AckSent, AckFails, Join, Read, endVars, linkVars
  <2> QED
    BY <1>1, <2>1, ReaderFinal
<1>2. CASE Get
  <2>1. UNCHANGED <<out, pc, streams>> /\ Q!WriterGet
    BY <1>2 DEF Get, linkVars, appVars, sessionVars
  <2>2. ASSUME WriterUp', NEW s \in Streams PROVE Final(s)'
    <3>1. \A i \in Slots' : i + 1 \in Slots /\ At(i)' = At(i + 1)
      BY <2>1, <2>2, GetSlots DEF TypeOK
    <3>2. Shifted(s, 1)
      BY <3>1 DEF Shifted, Responds
    <3>3. WriterUp
      BY <2>1 DEF WriterUp, Q!WriterGet
    <3>4. Final(s) /\ StaysAborted(s)
      BY <2>1, <3>3 DEF FinalInv, Final, StaysAborted
    <3> QED
      BY <2>1, <3>2, <3>4, ShiftKeepsFinal DEF TypeOK
  <2> QED
    BY <2>1, <2>2 DEF FinalInv
<1>3. CASE Sent
  BY <1>3, SentFinal
<1>4. CASE SendFails
  BY <1>4 DEF SendFails, linkVars, Q!WriterFail, FinalInv, WriterUp
<1>5. ASSUME NEW s \in Streams, AppStep(s) \/ TaskStep(s) \/ CallTimeout(s)
      PROVE  FinalInv' /\ out' = out
  BY <1>5, AppFinal, TaskAlone
<1>6. ASSUME NEW s \in Streams, RouterStep(s) PROVE FinalInv' /\ out' = out
  BY <1>6, <1>k
     DEF RouterStep, RouterHeader, RouterData, RouterReset, RouterAck, RouterBad, sessionVars, appVars
<1>7. CASE LinkEnd \/ UNCHANGED vars
  BY <1>7, <1>k DEF LinkEnd, vars, linkVars, sessionVars, appVars
<1> QED
  BY <1>1, <1>2, <1>3, <1>4, <1>5, <1>6, <1>7 DEF Next

(***************************************************************************)
(* For every app, also one that gives up its calls, goes on after a start  *)
(* that was refused or sends after its last message: once the router has   *)
(* been sent the RST_STREAM of a stream, it gets nothing more of its       *)
(* response.                                                               *)
(***************************************************************************)
THEOREM AbortIsFinalHolds == SafeSpec => AbortIsFinal
<1>1. Init => HeadOnce /\ OwnOnly /\ FinalInv
  <2> SUFFICES ASSUME Init PROVE HeadOnce /\ OwnOnly /\ FinalInv
    OBVIOUS
  <2>1. HeadOnce
    BY HeadOnceInit
  <2>2. OwnOnly
    BY DEF Init, OwnOnly, OwnFrames
  <2>3. ASSUME NEW s \in Streams PROVE Final(s)
    <3>1. pc[s] = "none" /\ out[s] = "none"
      BY DEF Init
    <3>2. \A i \in Slots : ~ Responds(At(i), s)
      BY SessionAssumption DEF Init, Q!Init, Slots, At, Responds
    <3> QED
      BY <3>1, <3>2 DEF Final, Aborted, Ends
  <2> QED
    BY <2>1, <2>2, <2>3 DEF FinalInv
<1>2. TypeOK /\ TypeOK' /\ HeadOnce /\ OwnOnly /\ FinalInv /\ [Next]_vars
      => /\ HeadOnce' /\ OwnOnly' /\ FinalInv'
         /\ [\A s \in Streams : out[s] = "RST_STREAM" => out'[s] = out[s]]_vars
  BY HeadOnceStep, OwnStep, FinalStep
<1> QED
  BY <1>1, <1>2, TypeCorrect, PTL DEF SafeSpec, AbortIsFinal
=============================================================================
