----------------------------- MODULE WriteQueue -----------------------------
(***************************************************************************)
(* The single-writer discipline of a Cranker session: send_frame puts a    *)
(* _QueuedWrite (payload, future) on the write queue and awaits the        *)
(* future; _writer_loop takes the items one at a time, writes each to the  *)
(* WebSocket and resolves its future.  None, here Stop, ends the loop.     *)
(*                                                                         *)
(* A client is a task that calls send_frame: the session's reader or the   *)
(* app task of a request.  A task awaits at most one future at a time, so  *)
(* fut[c] is the one that c awaits now ("none" when it awaits nothing).    *)
(* A task that is cancelled while it waits leaves its item behind: the     *)
(* future is done (cancelled), nobody owns the item, and the writer still  *)
(* writes its payload.                                                     *)
(***************************************************************************)
EXTENDS Naturals, Sequences

CONSTANTS
  Clients,    (* the tasks that call send_frame                            *)
  Frames,     (* the payloads                                              *)
  Nobody,     (* the owner of an item whose future has been cancelled      *)
  Stop,       (* the None that run() puts on the queue in its finally      *)
  NoItem,     (* the writer holds no item                                  *)
  MaxQueue    (* bound: nothing is put while so many items are waiting; 0, *)
              (* as for asyncio.Queue, is no bound and what the code uses  *)

Item == [owner : Clients \cup {Nobody}, frame : Frames]

ASSUME WriteQueueAssumption ==
  /\ Nobody \notin Clients
  /\ Stop \notin Item
  /\ NoItem \notin Item
  /\ MaxQueue \in Nat

VARIABLES
  writeq,     (* CrankerSession._write_queue                               *)
  writing,    (* the item whose payload is in websocket.send               *)
  writer,     (* the state of the task that runs _writer_loop              *)
  fut         (* fut[c]: the future that c awaits                          *)

queueVars == <<writeq, writing, writer, fut>>

WriterState == {"idle", "sending", "stopped", "failed", "cancelled"}

(***************************************************************************)
(* Every variable keeps its shape; the writer holds an item exactly while  *)
(* it is in websocket.send, or was when it was cancelled there.            *)
(***************************************************************************)
TypeOK ==
  /\ writeq \in Seq(Item \cup {Stop})
  /\ writing \in Item \cup {NoItem}
  /\ writer \in WriterState
  /\ fut \in [Clients -> {"none", "pending", "ok", "err"}]
  /\ writer = "sending" => writing # NoItem
  /\ writer \in {"idle", "stopped", "failed"} => writing = NoItem

Init ==
  /\ writeq = <<>>
  /\ writing = NoItem
  /\ writer = "idle"
  /\ fut = [c \in Clients |-> "none"]

-----------------------------------------------------------------------------
(* send_frame up to its await. *)
SendFrame(c, f) ==
  /\ fut[c] # "pending"
  /\ writeq' = Append(writeq, [owner |-> c, frame |-> f])
  /\ fut' = [fut EXCEPT ![c] = "pending"]
  /\ UNCHANGED <<writing, writer>>

(* The await of send_frame returns, or raises, in task c. *)
Resume(c) ==
  /\ fut[c] \in {"ok", "err"}
  /\ fut' = [fut EXCEPT ![c] = "none"]
  /\ UNCHANGED <<writeq, writing, writer>>

(* Mutations of WriterGet: the newest item first; None does not end the loop. *)
WriterGetNewest ==
  /\ writer = "idle"
  /\ writeq # <<>>
  /\ writeq' = SubSeq(writeq, 1, Len(writeq) - 1)
  /\ IF writeq[Len(writeq)] = Stop
       THEN writer' = "stopped" /\ writing' = writing
       ELSE writer' = "sending" /\ writing' = writeq[Len(writeq)]
  /\ UNCHANGED fut

WriterGetPastStop ==
  /\ writer = "idle"
  /\ writeq # <<>>
  /\ writeq' = Tail(writeq)
  /\ IF Head(writeq) = Stop
       THEN UNCHANGED <<writer, writing>>
       ELSE writer' = "sending" /\ writing' = Head(writeq)
  /\ UNCHANGED fut

(* _writer_loop takes the next item; it returns when that is None. *)
WriterGet ==
  /\ writer = "idle"
  /\ writeq # <<>>
  /\ writeq' = Tail(writeq)
  /\ IF Head(writeq) = Stop
       THEN writer' = "stopped" /\ writing' = writing
       ELSE writer' = "sending" /\ writing' = Head(writeq)
  /\ UNCHANGED fut

(* The future of the item being written, unless it is done already. *)
Resolve(result) ==
  IF writing.owner \in Clients
    THEN fut' = [fut EXCEPT ![writing.owner] = result]
    ELSE fut' = fut

(* Mutation of WriterSent: the item stays in the writer's hands. *)
WriterSentKeepsItem ==
  /\ writer = "sending"
  /\ writer' = "idle"
  /\ Resolve("ok")
  /\ UNCHANGED <<writeq, writing>>

(* websocket.send has returned. *)
WriterSent ==
  /\ writer = "sending"
  /\ writer' = "idle"
  /\ writing' = NoItem
  /\ Resolve("ok")
  /\ UNCHANGED writeq

(* websocket.send has raised: this item's future gets the exception, the   *)
(* loop re-raises it and the writer is gone; the items that wait stay.     *)
WriterFail ==
  /\ writer = "sending"
  /\ writer' = "failed"
  /\ writing' = NoItem
  /\ Resolve("err")
  /\ UNCHANGED writeq

(* Mutation of Disown: a cancelled task's future is not cancelled. *)
DisownNothing(held, C) == held

(* An item whose future belongs to a task of C loses its owner. *)
Disown(held, C) ==
  IF held \in Item /\ held.owner \in C THEN [held EXCEPT !.owner = Nobody] ELSE held

(* The tasks of C are cancelled, and with them the futures they await. *)
Abandon(C) ==
  /\ writeq' = [i \in 1..Len(writeq) |-> Disown(writeq[i], C)]
  /\ writing' = Disown(writing, C)
  /\ fut' = [c \in Clients |-> IF c \in C THEN "none" ELSE fut[c]]
  /\ UNCHANGED writer

(* Mutation of Close: what waits is thrown away. *)
CloseDroppingQueue(C) ==
  /\ writeq' = <<Stop>>
  /\ writing' = Disown(writing, C)
  /\ fut' = [c \in Clients |-> IF c \in C THEN "none" ELSE fut[c]]
  /\ UNCHANGED writer

(* The finally of run(): the tasks of C are cancelled, then None is put    *)
(* behind whatever waits.                                                  *)
Close(C) ==
  /\ writeq' = Append([i \in 1..Len(writeq) |-> Disown(writeq[i], C)], Stop)
  /\ writing' = Disown(writing, C)
  /\ fut' = [c \in Clients |-> IF c \in C THEN "none" ELSE fut[c]]
  /\ UNCHANGED writer

(* A cancellation of run() while it awaits the writer task reaches the     *)
(* writer; the item it was writing, if any, keeps an unresolved future.    *)
WriterCancelled ==
  /\ writer \in {"idle", "sending"}
  /\ writer' = "cancelled"
  /\ UNCHANGED <<writeq, writing, fut>>

Room == MaxQueue = 0 \/ Len(writeq) < MaxQueue

Next ==
  \/ \E c \in Clients, f \in Frames : Room /\ SendFrame(c, f)
  \/ \E c \in Clients : Resume(c)
  \/ \E C \in SUBSET Clients : Abandon(C)
  \/ \E C \in SUBSET Clients : Room /\ Close(C)
  \/ WriterGet
  \/ WriterSent
  \/ WriterFail
  \/ WriterCancelled

SafeSpec == Init /\ [][Next]_queueVars

(* The event loop runs a task that is ready, and a websocket.send either   *)
(* returns or raises (its keepalive closes a connection that is stuck).    *)
Fairness ==
  /\ WF_queueVars(WriterGet)
  /\ WF_queueVars(WriterSent \/ WriterFail)

Spec == SafeSpec /\ Fairness

-----------------------------------------------------------------------------
(* Whose futures the waiting items carry, and the one that is being written. *)
OwnerOf(held) == IF held \in Item THEN held.owner ELSE Nobody

Owners == [i \in 1..Len(writeq) |-> OwnerOf(writeq[i])]

Holder == OwnerOf(writing)

(***************************************************************************)
(* A task waits in send_frame exactly when one item, on the queue or in    *)
(* the writer's hands, carries its future: no future is forgotten, none is *)
(* carried twice, and a cancelled one is never resolved.                   *)
(***************************************************************************)
OneLiveItem ==
  /\ \A c \in Clients :
       fut[c] = "pending" <=> Holder = c \/ \E i \in 1..Len(writeq) : Owners[i] = c
  /\ \A c \in Clients, i \in 1..Len(writeq) : Owners[i] = c => Holder # c
  /\ \A i, j \in 1..Len(writeq) : Owners[i] = Owners[j] /\ Owners[i] \in Clients => i = j

(* The item of d is ahead of the item of c. *)
Precedes(d, c) ==
  \/ Holder = d /\ \E j \in 1..Len(writeq) : Owners[j] = c
  \/ \E i, j \in 1..Len(writeq) : i < j /\ Owners[i] = d /\ Owners[j] = c

(***************************************************************************)
(* Frames reach the wire in the order of their send_frame calls: a task    *)
(* that is ahead of another one stays ahead until its own wait is over.    *)
(***************************************************************************)
NoOvertaking ==
  [][\A c, d \in Clients :
       Precedes(d, c) => Precedes(d, c)' \/ fut'[d] # "pending" \/ fut'[c] = "none"]_queueVars

(* No Stop is ahead of the item that carries the future of c. *)
AheadOfStop(c) ==
  \/ Holder = c
  \/ \E i \in 1..Len(writeq) :
       /\ Owners[i] = c
       /\ \A j \in 1..i : writeq[j] # Stop

(***************************************************************************)
(* A session that ends flushes its queue: a frame that was waiting when    *)
(* run() put None is still written and its sender answered, unless the     *)
(* writer fails or is cancelled first.                                     *)
(***************************************************************************)
Flushed ==
  \A c \in Clients :
    AheadOfStop(c) /\ writer \in {"idle", "sending"}
      ~> fut[c] # "pending" \/ writer \in {"failed", "cancelled"}
=============================================================================
