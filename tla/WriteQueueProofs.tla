-------------------------- MODULE WriteQueueProofs --------------------------
(* What holds of the write queue for every set of clients and frames.      *)
EXTENDS WriteQueue, TLAPS

(* Disown keeps items items, Stop Stop, and no item nobody's.              *)
LEMMA DisownType ==
  ASSUME NEW held, NEW C
  PROVE  /\ held \in Item => Disown(held, C) \in Item
         /\ held \notin Item => Disown(held, C) = held
BY DEF Disown, Item

(* The shape of the queue's variables, of the spec without its bound.      *)
LEMMA TypeInit == Init => TypeOK
BY WriteQueueAssumption DEF Init, TypeOK, Item, WriterState

LEMMA ResolveType ==
  ASSUME TypeOK, NEW result \in {"ok", "err"}, Resolve(result)
  PROVE  fut' \in [Clients -> {"none", "pending", "ok", "err"}]
BY DEF Resolve, TypeOK

LEMMA TypeStep == TypeOK /\ [Next]_queueVars => TypeOK'
<1> SUFFICES ASSUME TypeOK, [Next]_queueVars PROVE TypeOK'
  OBVIOUS
<1> USE WriteQueueAssumption
<1>1. ASSUME NEW c \in Clients, NEW f \in Frames, SendFrame(c, f) PROVE TypeOK'
  BY <1>1 DEF SendFrame, TypeOK, Item, WriterState
<1>2. ASSUME NEW c \in Clients, Resume(c) PROVE TypeOK'
  BY <1>2 DEF Resume, TypeOK, WriterState
<1>3. ASSUME NEW C \in SUBSET Clients, Abandon(C) PROVE TypeOK'
  BY <1>3, DisownType DEF Abandon, TypeOK, WriterState
<1>4. ASSUME NEW C \in SUBSET Clients, Close(C) PROVE TypeOK'
  <2>1. [i \in 1..Len(writeq) |-> Disown(writeq[i], C)] \in Seq(Item \cup {Stop})
    BY DisownType DEF TypeOK
  <2>2. writeq' \in Seq(Item \cup {Stop})
    BY <1>4, <2>1 DEF Close
  <2> QED
    BY <1>4, <2>2, DisownType DEF Close, TypeOK, WriterState
<1>5. CASE WriterGet
  <2>1. Head(writeq) \in Item \cup {Stop} /\ Tail(writeq) \in Seq(Item \cup {Stop})
    BY <1>5 DEF WriterGet, TypeOK
  <2> QED
    BY <1>5, <2>1 DEF WriterGet, TypeOK, WriterState
<1>6. CASE WriterSent
  BY <1>6, ResolveType DEF WriterSent, TypeOK, WriterState
<1>7. CASE WriterFail
  BY <1>7, ResolveType DEF WriterFail, TypeOK, WriterState
<1>8. CASE WriterCancelled
  BY <1>8 DEF WriterCancelled, TypeOK, WriterState
<1>9. CASE UNCHANGED queueVars
  BY <1>9 DEF queueVars, TypeOK
<1> QED
  BY <1>1, <1>2, <1>3, <1>4, <1>5, <1>6, <1>7, <1>8, <1>9 DEF Next

(***************************************************************************)
(* Every variable keeps its shape.                                         *)
(***************************************************************************)
THEOREM TypeCorrect == SafeSpec => []TypeOK
BY TypeInit, TypeStep, PTL DEF SafeSpec

-----------------------------------------------------------------------------
(* What an action does to the owners.                                      *)

LEMMA OwnersType ==
  ASSUME TypeOK
  PROVE  /\ Len(writeq) \in Nat
         /\ Owners = [i \in 1..Len(writeq) |-> OwnerOf(writeq[i])]
         /\ Holder = OwnerOf(writing)
BY DEF TypeOK, Owners, Holder

LEMMA DisownOwner ==
  ASSUME NEW held, NEW C \in SUBSET Clients
  PROVE  OwnerOf(Disown(held, C)) = IF OwnerOf(held) \in C THEN Nobody ELSE OwnerOf(held)
<1>1. CASE held \in Item /\ held.owner \in C
  <2>1. Disown(held, C) \in Item /\ Disown(held, C).owner = Nobody
    BY <1>1 DEF Disown, Item
  <2> QED
    BY <1>1, <2>1 DEF OwnerOf
<1>2. CASE ~ (held \in Item /\ held.owner \in C)
  BY <1>2, WriteQueueAssumption DEF Disown, OwnerOf
<1> QED
  BY <1>1, <1>2

LEMMA NoOwner == OwnerOf(Stop) = Nobody /\ OwnerOf(NoItem) = Nobody
BY WriteQueueAssumption DEF OwnerOf

LEMMA NewOwner ==
  ASSUME NEW c \in Clients, NEW f \in Frames
  PROVE  /\ [owner |-> c, frame |-> f] \in Item
         /\ OwnerOf([owner |-> c, frame |-> f]) = c
BY DEF OwnerOf, Item

(* The owners after a send_frame, after a cancellation with and without    *)
(* Stop, and after the writer has taken an item.                           *)

LEMMA SendFrameOwners ==
  ASSUME TypeOK, NEW c \in Clients, NEW f \in Frames, SendFrame(c, f)
  PROVE  /\ Len(writeq') = Len(writeq) + 1
         /\ Owners' = [i \in 1..Len(writeq) + 1 |-> IF i = Len(writeq) + 1 THEN c ELSE Owners[i]]
         /\ Holder' = Holder
<1> DEFINE new == [owner |-> c, frame |-> f]
<1>1. new \in Item /\ OwnerOf(new) = c
  BY NewOwner
<1> HIDE DEF new
<1>2. /\ Len(writeq') = Len(writeq) + 1
      /\ \A i \in 1..Len(writeq) : writeq'[i] = writeq[i]
      /\ writeq'[Len(writeq) + 1] = new
  BY <1>1 DEF SendFrame, TypeOK, new
<1> QED
  BY <1>1, <1>2, OwnersType DEF SendFrame, Owners, Holder

LEMMA AbandonOwners ==
  ASSUME TypeOK, NEW C \in SUBSET Clients, Abandon(C)
  PROVE  /\ Len(writeq') = Len(writeq)
         /\ Owners' = [i \in 1..Len(writeq) |-> IF Owners[i] \in C THEN Nobody ELSE Owners[i]]
         /\ Holder' = IF Holder \in C THEN Nobody ELSE Holder
<1>1. Len(writeq) \in Nat
  BY OwnersType
<1>2. Len(writeq') = Len(writeq) /\ \A i \in 1..Len(writeq) : writeq'[i] = Disown(writeq[i], C)
  BY <1>1 DEF Abandon
<1> QED
  BY <1>1, <1>2, DisownOwner DEF Abandon, Owners, Holder

LEMMA CloseOwners ==
  ASSUME TypeOK, NEW C \in SUBSET Clients, Close(C)
  PROVE  /\ Len(writeq') = Len(writeq) + 1
         /\ Owners' = [i \in 1..Len(writeq) + 1 |->
              IF i = Len(writeq) + 1 \/ Owners[i] \in C THEN Nobody ELSE Owners[i]]
         /\ Holder' = IF Holder \in C THEN Nobody ELSE Holder
<1> DEFINE q == [i \in 1..Len(writeq) |-> Disown(writeq[i], C)]
<1>1. Len(writeq) \in Nat
  BY OwnersType
<1>2. q \in Seq(Item \cup {Stop}) /\ Len(q) = Len(writeq)
  BY <1>1, DisownType DEF TypeOK
<1>3. /\ Len(writeq') = Len(writeq) + 1
      /\ \A i \in 1..Len(writeq) : writeq'[i] = Disown(writeq[i], C)
      /\ writeq'[Len(writeq) + 1] = Stop
  BY <1>1, <1>2 DEF Close
<1>4. Owners' = [i \in 1..Len(writeq) + 1 |->
         IF i = Len(writeq) + 1 THEN Nobody ELSE OwnerOf(Disown(writeq[i], C))]
  BY <1>1, <1>3, NoOwner DEF Owners
<1>5. Owners = [i \in 1..Len(writeq) |-> OwnerOf(writeq[i])]
  BY OwnersType
<1> QED
  BY <1>1, <1>3, <1>4, <1>5, DisownOwner DEF Close, Holder

LEMMA GetOwners ==
  ASSUME TypeOK, WriterGet
  PROVE  /\ Len(writeq) \in Nat \ {0}
         /\ Len(writeq') = Len(writeq) - 1
         /\ Owners' = [i \in 1..Len(writeq) - 1 |-> Owners[i + 1]]
         /\ Holder = Nobody /\ Holder' = Owners[1]
<1>1. /\ Len(writeq) \in Nat \ {0}
      /\ Len(writeq') = Len(writeq) - 1
      /\ \A i \in 1..Len(writeq) - 1 : writeq'[i] = writeq[i + 1]
      /\ Head(writeq) = writeq[1]
  BY DEF WriterGet, TypeOK
<1>2. writing = NoItem
  BY DEF WriterGet, TypeOK
<1>3. writing' = IF writeq[1] = Stop THEN NoItem ELSE writeq[1]
  BY <1>1, <1>2 DEF WriterGet
<1>4. Holder = Nobody /\ Holder' = OwnerOf(writeq[1])
  BY <1>2, <1>3, NoOwner DEF Holder
<1> QED
  BY <1>1, <1>4 DEF Owners

-----------------------------------------------------------------------------
LEMMA OneLiveItemInit == Init => OneLiveItem
BY WriteQueueAssumption, NoOwner DEF Init, OneLiveItem, Holder

LEMMA OneLiveItemStep ==
  TypeOK /\ OneLiveItem /\ [Next]_queueVars => OneLiveItem'
<1> SUFFICES ASSUME TypeOK, OneLiveItem, [Next]_queueVars PROVE OneLiveItem'
  OBVIOUS
<1> USE WriteQueueAssumption
<1>len. Len(writeq) \in Nat
  BY OwnersType
<1>1. ASSUME NEW c \in Clients, NEW f \in Frames, SendFrame(c, f) PROVE OneLiveItem'
  <2>1. fut[c] # "pending" /\ fut' = [fut EXCEPT ![c] = "pending"]
    BY <1>1 DEF SendFrame
  <2>2. Holder # c /\ \A i \in 1..Len(writeq) : Owners[i] # c
    BY <2>1 DEF OneLiveItem
  <2>3. \A d \in Clients : fut'[d] = IF d = c THEN "pending" ELSE fut[d]
    BY <2>1 DEF TypeOK
  <2> QED
    BY <1>1, <1>len, <2>2, <2>3, SendFrameOwners DEF OneLiveItem
<1>2. ASSUME NEW c \in Clients, Resume(c) PROVE OneLiveItem'
  <2>1. \A d \in Clients : fut'[d] = "pending" <=> fut[d] = "pending"
    BY <1>2 DEF Resume, TypeOK
  <2> QED
    BY <1>2, <2>1 DEF Resume, OneLiveItem, Owners, Holder
<1>3. ASSUME NEW C \in SUBSET Clients, Abandon(C) PROVE OneLiveItem'
  <2>1. \A d \in Clients : fut'[d] = IF d \in C THEN "none" ELSE fut[d]
    BY <1>3 DEF Abandon
  <2> QED
    BY <1>3, <1>len, <2>1, AbandonOwners DEF OneLiveItem
<1>4. ASSUME NEW C \in SUBSET Clients, Close(C) PROVE OneLiveItem'
  <2>1. \A d \in Clients : fut'[d] = IF d \in C THEN "none" ELSE fut[d]
    BY <1>4 DEF Close
  <2> QED
    BY <1>4, <1>len, <2>1, CloseOwners DEF OneLiveItem
<1>5. CASE WriterGet
  <2>1. fut' = fut
    BY <1>5 DEF WriterGet
  <2>2. \A i \in 1..Len(writeq') : i + 1 \in 1..Len(writeq) /\ Owners'[i] = Owners[i + 1]
    BY <1>5, GetOwners
  <2>3. \A i \in 1..Len(writeq) : i = 1 \/ (i - 1 \in 1..Len(writeq') /\ Owners'[i - 1] = Owners[i])
    <3> SUFFICES ASSUME NEW i \in 1..Len(writeq), i # 1
                 PROVE  i - 1 \in 1..Len(writeq') /\ Owners'[i - 1] = Owners[i]
      OBVIOUS
    <3>1. i - 1 \in 1..Len(writeq') /\ (i - 1) + 1 = i
      BY <1>5, GetOwners
    <3> QED
      BY <2>2, <3>1
  <2>4. 1 \in 1..Len(writeq) /\ Holder = Nobody /\ Holder' = Owners[1]
    BY <1>5, GetOwners
  <2>5. \A d \in Clients : fut'[d] = "pending" <=> Holder' = d \/ \E i \in 1..Len(writeq') : Owners'[i] = d
    <3> SUFFICES ASSUME NEW d \in Clients
                 PROVE  fut[d] = "pending" <=> Holder' = d \/ \E i \in 1..Len(writeq') : Owners'[i] = d
      BY <2>1
    <3>1. fut[d] = "pending" <=> \E i \in 1..Len(writeq) : Owners[i] = d
      BY <2>4 DEF OneLiveItem
    <3>2. ASSUME NEW i \in 1..Len(writeq), Owners[i] = d
          PROVE  Holder' = d \/ \E j \in 1..Len(writeq') : Owners'[j] = d
      <4>1. CASE i = 1
        BY <2>4, <3>2, <4>1
      <4>2. CASE i # 1
        BY <2>3, <3>2, <4>2
      <4> QED
        BY <4>1, <4>2
    <3>3. ASSUME NEW j \in 1..Len(writeq'), Owners'[j] = d
          PROVE  \E i \in 1..Len(writeq) : Owners[i] = d
      BY <2>2, <3>3
    <3>4. Holder' = d => \E i \in 1..Len(writeq) : Owners[i] = d
      BY <2>4
    <3> QED
      BY <3>1, <3>2, <3>3, <3>4
  <2>6. \A d \in Clients, i \in 1..Len(writeq') : Owners'[i] = d => Holder' # d
    <3> SUFFICES ASSUME NEW i \in 1..Len(writeq'), Owners'[i] \in Clients, Owners'[i] = Owners[1]
                 PROVE  FALSE
      BY <2>4
    <3>1. i + 1 = 1
      BY <2>2, <2>4 DEF OneLiveItem
    <3> QED
      BY <3>1
  <2>7. \A i, j \in 1..Len(writeq') : Owners'[i] = Owners'[j] /\ Owners'[i] \in Clients => i = j
    <3> SUFFICES ASSUME NEW i \in 1..Len(writeq'), NEW j \in 1..Len(writeq'),
                        Owners'[i] = Owners'[j], Owners'[i] \in Clients
                 PROVE  i = j
      OBVIOUS
    <3>1. i + 1 = j + 1
      BY <2>2 DEF OneLiveItem
    <3> QED
      BY <3>1
  <2> QED
    BY <2>5, <2>6, <2>7 DEF OneLiveItem
<1>6. ASSUME NEW result \in {"ok", "err"}, Resolve(result),
             writing # NoItem, writing' = NoItem, writeq' = writeq
      PROVE  OneLiveItem'
  <2>1. Holder' = Nobody /\ Owners' = Owners
    BY <1>6, NoOwner DEF Holder, Owners
  <2>2. Holder = writing.owner
    BY <1>6 DEF Holder, OwnerOf, TypeOK
  <2>3. \A d \in Clients : fut'[d] = IF Holder = d THEN result ELSE fut[d]
    BY <1>6, <2>2 DEF Resolve, TypeOK
  <2> QED
    BY <1>6, <2>1, <2>3 DEF OneLiveItem
<1>7. CASE WriterSent
  BY <1>6, <1>7 DEF WriterSent, TypeOK
<1>8. CASE WriterFail
  BY <1>6, <1>8 DEF WriterFail, TypeOK
<1>9. CASE WriterCancelled \/ UNCHANGED queueVars
  BY <1>9 DEF WriterCancelled, queueVars, OneLiveItem, Owners, Holder
<1> QED
  BY <1>1, <1>2, <1>3, <1>4, <1>5, <1>7, <1>8, <1>9 DEF Next

(***************************************************************************)
(* A task waits in send_frame exactly when one item, on the queue or in    *)
(* the writer's hands, carries its future.                                 *)
(***************************************************************************)
THEOREM OneLiveItemHolds == SafeSpec => []OneLiveItem
<1>1. TypeOK /\ OneLiveItem /\ [Next]_queueVars => OneLiveItem'
  BY OneLiveItemStep
<1> QED
  BY <1>1, TypeCorrect, OneLiveItemInit, PTL DEF SafeSpec

-----------------------------------------------------------------------------
(* No step lets an item pass another one. *)
LEMMA KeepsOrder ==
  ASSUME TypeOK, OneLiveItem, [Next]_queueVars, NEW c \in Clients, NEW d \in Clients,
         Precedes(d, c)
  PROVE  Precedes(d, c)' \/ fut'[d] # "pending" \/ fut'[c] = "none"
<1> USE WriteQueueAssumption
<1>len. Len(writeq) \in Nat
  BY OwnersType
<1>1. ASSUME NEW e \in Clients, NEW f \in Frames, SendFrame(e, f) PROVE Precedes(d, c)'
  BY <1>1, <1>len, SendFrameOwners DEF Precedes
<1>2. ASSUME NEW e \in Clients, Resume(e) PROVE Precedes(d, c)'
  BY <1>2 DEF Resume, Precedes, Owners, Holder
<1>3. ASSUME NEW C \in SUBSET Clients, Abandon(C)
      PROVE  Precedes(d, c)' \/ fut'[d] # "pending" \/ fut'[c] = "none"
  <2>1. \A e \in Clients : e \in C => fut'[e] = "none"
    BY <1>3 DEF Abandon
  <2>2. d \notin C /\ c \notin C => Precedes(d, c)'
    BY <1>3, <1>len, AbandonOwners DEF Precedes
  <2> QED
    BY <2>1, <2>2
<1>4. ASSUME NEW C \in SUBSET Clients, Close(C)
      PROVE  Precedes(d, c)' \/ fut'[d] # "pending" \/ fut'[c] = "none"
  <2>1. \A e \in Clients : e \in C => fut'[e] = "none"
    BY <1>4 DEF Close
  <2>2. d \notin C /\ c \notin C => Precedes(d, c)'
    BY <1>4, <1>len, CloseOwners DEF Precedes
  <2> QED
    BY <2>1, <2>2
<1>5. CASE WriterGet
  <2>1. PICK i \in 1..Len(writeq), j \in 1..Len(writeq) : i < j /\ Owners[i] = d /\ Owners[j] = c
    BY <1>5, GetOwners DEF Precedes
  <2>2. j - 1 \in 1..Len(writeq') /\ Owners'[j - 1] = c
    <3>1. j - 1 \in 1..Len(writeq) - 1 /\ (j - 1) + 1 = j
      BY <1>len, <2>1
    <3> QED
      BY <1>5, <2>1, <3>1, GetOwners
  <2>3. CASE i = 1
    BY <1>5, <2>1, <2>2, <2>3, GetOwners DEF Precedes
  <2>4. CASE i # 1
    <3>1. i - 1 \in 1..Len(writeq) - 1 /\ (i - 1) + 1 = i /\ i - 1 < j - 1
      BY <1>len, <2>1, <2>4
    <3>2. i - 1 \in 1..Len(writeq') /\ Owners'[i - 1] = d
      BY <1>5, <2>1, <3>1, GetOwners
    <3> QED
      BY <2>2, <3>1, <3>2 DEF Precedes
  <2> QED
    BY <2>3, <2>4
<1>6. ASSUME NEW result \in {"ok", "err"}, Resolve(result),
             writing # NoItem, writing' = NoItem, writeq' = writeq
      PROVE  Precedes(d, c)' \/ fut'[d] # "pending"
  <2>1. Owners' = Owners
    BY <1>6 DEF Owners
  <2>2. CASE Holder = d
    <3>1. writing.owner = d
      BY <1>6, <2>2 DEF Holder, OwnerOf, TypeOK
    <3> QED
      BY <1>6, <3>1 DEF Resolve, TypeOK
  <2>3. CASE Holder # d
    BY <1>6, <2>1, <2>3 DEF Precedes
  <2> QED
    BY <2>2, <2>3
<1>7. CASE WriterSent
  BY <1>6, <1>7 DEF WriterSent, TypeOK
<1>8. CASE WriterFail
  BY <1>6, <1>8 DEF WriterFail, TypeOK
<1>9. CASE WriterCancelled \/ UNCHANGED queueVars
  BY <1>9 DEF WriterCancelled, queueVars, Precedes, Owners, Holder
<1> QED
  BY <1>1, <1>2, <1>3, <1>4, <1>5, <1>7, <1>8, <1>9 DEF Next

(***************************************************************************)
(* Frames reach the wire in the order of their send_frame calls.           *)
(***************************************************************************)
THEOREM NoOvertakingHolds == SafeSpec => NoOvertaking
<1>1. TypeOK /\ OneLiveItem /\ [Next]_queueVars
        => [\A c, d \in Clients :
              Precedes(d, c) => Precedes(d, c)' \/ fut'[d] # "pending" \/ fut'[c] = "none"]_queueVars
  BY KeepsOrder
<1> QED
  BY <1>1, TypeCorrect, OneLiveItemHolds, PTL DEF SafeSpec, NoOvertaking
=============================================================================
