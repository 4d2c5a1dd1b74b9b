------------------------------ MODULE Session ------------------------------
(***************************************************************************)
(* One Cranker v3 WebSocket session (class CrankerSession and its          *)
(* _StreamState): the reader task that runs run(), the writer task that    *)
(* runs _writer_loop (module WriteQueue), and one app task per request     *)
(* that runs _run_asgi_request.  All tasks share one asyncio event loop,   *)
(* so an action is what one task does between two awaits that suspend it.  *)
(*                                                                         *)
(* The router, the link and the ASGI app are the environment.  The app is  *)
(* a single task: it awaits one send or receive at a time, and it ends     *)
(* when it is cancelled.  Payloads are abstracted to small numbers: the    *)
(* size of a frame the app or the adapter sends and of a WINDOW_UPDATE's   *)
(* credit, the position of a DATA payload in the request body.             *)
(***************************************************************************)
EXTENDS Integers, FiniteSets, SequencesExt

CONSTANTS
  Streams,      (* the request ids the router uses, each once              *)
  Reader,       (* the reader as a client of the write queue               *)
  Nobody, Stop, NoItem,   (* see WriteQueue                                *)
  High, Low,    (* flow_control_high_watermark and _low_watermark          *)
  MaxReq,       (* bound: non-empty DATA frames of a request               *)
  MaxHead,      (* bound: HEADER frames of a response                      *)
  MaxBody,      (* bound: http.response.body messages of a response        *)
  MaxChunks,    (* bound: 16 KiB chunks of one body message                *)
  MaxInbox,     (* bound: frames from the router that wait to be read      *)
  MaxCancels,   (* bound: cancellations of the socket worker's task        *)
  LinkEnds,     (* how the WebSocket may end: subset of {"closed", "lost"} *)
  RouterMay,    (* "body": send a request body, "fragment": send a request *)
                (* head in two HEADER frames, "reset": send RST_STREAM,    *)
                (* "bad": send what decode_frame or parse_request_head     *)
                (* rejects                                                 *)
  AppMay        (* "timeout": give up a call (asyncio.wait_for) and go on, *)
                (* "late": call send or receive after its last body        *)
                (* message, or receive after the end of the request,       *)
                (* "badstart": go on after a start message that send has   *)
                (* refused                                                 *)

Clients == Streams \cup {Reader}

VARIABLES
  link, inbox, request, reqs, credit, owed, out,  (* router and link       *)
  reader, exit, cancels, streams,                 (* the session           *)
  state, pc, todo, auto, msgs, item, handed,      (* the streams           *)
  active,                                         (* the connector's count *)
  writeq, writing, writer, fut                    (* the write queue       *)

linkVars    == <<link, inbox, request, reqs, credit, owed, out>>
endVars     == <<link, request, reqs, credit, owed, out>>
sessionVars == <<reader, exit, cancels, streams>>
appVars     == <<state, pc, todo, auto, msgs, item, handed, active>>
queueVars   == <<writeq, writing, writer, fut>>
vars        == <<linkVars, sessionVars, appVars, queueVars>>

-----------------------------------------------------------------------------
(* Frames, in both directions. *)
MessageType == {"DATA", "HEADER", "RST_STREAM", "WINDOW_UPDATE"}

FrameSet(types, payloads) ==
  [type : types, flags : SUBSET {"STREAM_END", "HEADER_END"}, id : Streams, payload : payloads]

Frames == FrameSet(MessageType, 0..1)              \* from the connector
RouterFrames == FrameSet(MessageType \cup {"BAD"}, Nat)

Frame(type, flags, s, payload) ==
  [type |-> type, flags |-> flags, id |-> s, payload |-> payload]

(* Mutation of WindowUpdate: the bytes are not given back. *)
WindowUpdateOfNothing(s, n) == Frame("WINDOW_UPDATE", {}, s, 0)

(* encode_window_update_frame *)
WindowUpdate(s, n) == Frame("WINDOW_UPDATE", {}, s, n)

(* Sentinels of the request queue; a body chunk is its position, from 1.   *)
RequestEnd        == 0
RequestDisconnect == -1

RequestItem == Nat \cup {RequestDisconnect}

Q == INSTANCE WriteQueue WITH MaxQueue <- 0

ASSUME SessionAssumption ==
  /\ Reader \notin Streams
  /\ Nobody \notin Clients
  /\ Stop \notin Q!Item /\ NoItem \notin Q!Item
  /\ High \in Nat /\ Low \in 0..High
  /\ {MaxReq, MaxHead, MaxBody, MaxChunks, MaxInbox, MaxCancels} \subseteq Nat
  /\ LinkEnds \subseteq {"closed", "lost"}
  /\ RouterMay \subseteq {"body", "fragment", "reset", "bad"}
  /\ AppMay \subseteq {"timeout", "late", "badstart"}

(* _StreamState *)
StreamState ==
  [queue : Seq(RequestItem), started : BOOLEAN, complete : BOOLEAN,
   disconnected : BOOLEAN, pending : Nat]

TaskState == {"none", "created", "running", "send", "window", "woken",
              "recv", "recvack", "rst", "cancelled", "done"}

(* The task has called _request_started and not yet _request_finished. *)
InRequest(s) == pc[s] \notin {"none", "created", "done"}

LinkTypeOK ==
  /\ link \in {"open", "closed", "lost"}
  /\ inbox \in Seq(RouterFrames)
  /\ request \in [Streams -> {"idle", "head", "body", "ended", "reset"}]
  /\ reqs \in [Streams -> Nat]
  /\ credit \in [Streams -> Nat]
  /\ owed \in [Streams -> Int]
  /\ out \in [Streams -> {"none", "HEADER", "HEADER_END", "DATA", "DATA_END", "RST_STREAM"}]

ReaderTypeOK ==
  /\ reader \in {"recv", "ack", "join", "done"}
  /\ exit \in {"none", "ok", "error", "cancelled"}
  /\ cancels \in Nat
  /\ streams \in SUBSET Streams

AppTypeOK ==
  /\ state \in [Streams -> StreamState]
  /\ pc \in [Streams -> TaskState]
  /\ todo \in [Streams -> Seq(Frames)]
  /\ \A s \in Streams : pc[s] \in {"send", "window", "woken"} => todo[s] # <<>>
  /\ auto \in [Streams -> BOOLEAN]
  /\ msgs \in [Streams -> Nat]
  /\ item \in [Streams -> Nat]
  /\ handed \in [Streams -> Seq(RequestItem)]
  /\ active \in Nat

(***************************************************************************)
(* Every variable keeps its shape, and a task that is sending has the      *)
(* frame it waits for at the head of what it has to send.                  *)
(***************************************************************************)
TypeOK == LinkTypeOK /\ ReaderTypeOK /\ AppTypeOK /\ Q!TypeOK

Init ==
  /\ link = "open" /\ inbox = <<>>
  /\ request = [s \in Streams |-> "idle"]
  /\ reqs = [s \in Streams |-> 0]
  /\ credit = [s \in Streams |-> 0]
  /\ owed = [s \in Streams |-> 0]
  /\ out = [s \in Streams |-> "none"]
  /\ reader = "recv" /\ exit = "none" /\ cancels = 0 /\ streams = {}
  /\ state = [s \in Streams |-> [queue |-> <<>>, started |-> FALSE, complete |-> FALSE,
                                 disconnected |-> FALSE, pending |-> 0]]
  /\ pc = [s \in Streams |-> "none"]
  /\ todo = [s \in Streams |-> <<>>]
  /\ auto = [s \in Streams |-> FALSE]
  /\ msgs = [s \in Streams |-> 0]
  /\ item = [s \in Streams |-> 0]
  /\ handed = [s \in Streams |-> <<>>]
  /\ active = 0
  /\ Q!Init

-----------------------------------------------------------------------------
(* The router and the link. *)

SessionOpen == reader \in {"recv", "ack"}

(* The router's half of the link: what it sends is read in order.  Frames  *)
(* that arrive after the reader has left its loop are never looked at.     *)
Arrive(f) ==
  /\ link = "open" /\ SessionOpen
  /\ Len(inbox) < MaxInbox
  /\ inbox' = Append(inbox, f)

(* A request head, in one HEADER frame or in two; "body" while its DATA    *)
(* frames are still to come.                                               *)
RouterHeader(s) ==
  \E flags \in SUBSET {"STREAM_END", "HEADER_END"} :
    /\ Arrive(Frame("HEADER", flags, s, 1))
    /\ \/ /\ "fragment" \in RouterMay
          /\ request[s] = "idle" /\ flags = {}
          /\ request' = [request EXCEPT ![s] = "head"]
       \/ /\ request[s] \in {"idle", "head"}
          /\ "HEADER_END" \in flags
          /\ "STREAM_END" \in flags \/ "body" \in RouterMay
          /\ request' = [request EXCEPT ![s] = IF "STREAM_END" \in flags THEN "ended" ELSE "body"]
    /\ owed' = [owed EXCEPT ![s] = @ + 1]
    /\ UNCHANGED <<link, reqs, credit, out, sessionVars, appVars, queueVars>>

(* A DATA frame of the request body: the next chunk or none, and the end   *)
(* of the stream or not.                                                   *)
RouterData(s) ==
  \E chunk \in {0, reqs[s] + 1}, flags \in SUBSET {"STREAM_END"} :
    /\ request[s] = "body"
    /\ chunk <= MaxReq
    /\ chunk = 0 => flags # {}
    /\ Arrive(Frame("DATA", flags, s, chunk))
    /\ reqs' = [reqs EXCEPT ![s] = IF chunk = 0 THEN @ ELSE chunk]
    /\ owed' = [owed EXCEPT ![s] = IF chunk = 0 THEN @ ELSE @ + 1]
    /\ request' = [request EXCEPT ![s] = IF flags = {} THEN "body" ELSE "ended"]
    /\ UNCHANGED <<link, credit, out, sessionVars, appVars, queueVars>>

(* The router gives the stream up before it has seen the response's end.   *)
RouterReset(s) ==
  /\ "reset" \in RouterMay
  /\ request[s] \in {"head", "body", "ended"}
  /\ out[s] \notin {"DATA_END", "RST_STREAM"}
  /\ Arrive(Frame("RST_STREAM", {}, s, 0))
  /\ request' = [request EXCEPT ![s] = "reset"]
  /\ UNCHANGED <<link, reqs, credit, owed, out, sessionVars, appVars, queueVars>>

(* Bytes of the response frame whose send_frame has been answered in a     *)
(* task that has not run since.                                            *)
Uncounted(s) ==
  IF pc[s] = "send" /\ fut[s] = "ok" THEN Head(todo[s]).payload ELSE 0

(* The router acknowledges response bytes it has received.  The bytes of   *)
(* a frame cannot be acknowledged before its task has counted them: the    *)
(* event loop's ready queue is FIFO and the task is on it before the       *)
(* router's answer can be read from the socket.  Acknowledgements the      *)
(* session would ignore, of a stream it has dropped, are left out unless   *)
(* they were already on their way.                                         *)
RouterAck(s) ==
  \E n \in 1..(credit[s] - Uncounted(s)) :
    /\ s \in streams
    /\ Arrive(WindowUpdate(s, n))
    /\ credit' = [credit EXCEPT ![s] = @ - n]
    /\ UNCHANGED <<link, request, reqs, owed, out, sessionVars, appVars, queueVars>>

(* A frame that decode_frame or parse_request_head rejects. *)
RouterBad(s) ==
  /\ "bad" \in RouterMay
  /\ \A i \in DOMAIN inbox : inbox[i].type # "BAD"
  /\ Arrive(Frame("BAD", {}, s, 0))
  /\ UNCHANGED <<link, request, reqs, credit, owed, out, sessionVars, appVars, queueVars>>

(* The router closes the WebSocket, or the connection breaks.  Frames that *)
(* have been received can still be read.                                   *)
LinkEnd ==
  /\ link = "open" /\ SessionOpen
  /\ link' \in LinkEnds
  /\ UNCHANGED <<inbox, request, reqs, credit, owed, out, sessionVars, appVars, queueVars>>

-----------------------------------------------------------------------------
(* The writer task. *)

Get ==
  /\ Q!WriterGet
  /\ UNCHANGED <<linkVars, sessionVars, appVars>>

(* The kind of a response frame, in the words of the contract. *)
Kind(f) ==
  CASE f.type = "HEADER" -> IF "HEADER_END" \in f.flags THEN "HEADER_END" ELSE "HEADER"
    [] f.type = "DATA" -> IF "STREAM_END" \in f.flags THEN "DATA_END" ELSE "DATA"
    [] OTHER -> f.type

(* websocket.send returns: the frame is on its way to the router. *)
Sent ==
  LET f == writing.frame IN
  /\ link = "open"
  /\ Q!WriterSent
  /\ IF f.type = "WINDOW_UPDATE"
       THEN /\ owed' = [owed EXCEPT ![f.id] = @ - f.payload]
            /\ UNCHANGED <<credit, out>>
       ELSE /\ out' = [out EXCEPT ![f.id] = Kind(f)]
            /\ credit' = [credit EXCEPT ![f.id] = @ + f.payload]
            /\ UNCHANGED owed
  /\ UNCHANGED <<link, inbox, request, reqs, sessionVars, appVars>>

(* websocket.send raises ConnectionClosed. *)
SendFails ==
  /\ link # "open"
  /\ Q!WriterFail
  /\ UNCHANGED <<linkVars, sessionVars, appVars>>

-----------------------------------------------------------------------------
(* The reader task. *)

(* Mutation of Cancelled: the app is only told by http.disconnect. *)
CancelledNone(S) == {}

(* The streams of S whose tasks close_from_router cancels. *)
Cancelled(S) == {s \in S : pc[s] \notin {"none", "done"}}

(* close_from_router for the streams of S: a cancelled task will see       *)
(* CancelledError when it runs next.                                       *)
CloseFromRouter(S) ==
  LET Hit == Cancelled(S) IN
  /\ state' = [s \in Streams |->
       IF s \in S THEN [state[s] EXCEPT !.disconnected = TRUE,
                                        !.queue = Append(@, RequestDisconnect)]
                  ELSE state[s]]
  /\ pc' = [s \in Streams |-> IF s \in Hit THEN "cancelled" ELSE pc[s]]
  /\ todo' = [s \in Streams |-> IF s \in Hit THEN <<>> ELSE todo[s]]
  /\ item' = [s \in Streams |-> IF s \in Hit THEN 0 ELSE item[s]]
  /\ UNCHANGED <<auto, msgs, handed, active>>

(* The finally of run() up to its await: _close_streams, then None on the  *)
(* write queue.  Nothing in it suspends.  What is unread is never read.    *)
EndSession(how) ==
  /\ CloseFromRouter(streams)
  /\ Q!Close(streams \cup {Reader})
  /\ inbox' = <<>>
  /\ streams' = {}
  /\ reader' = "join"
  /\ exit' = how

(* The reader is at its loop's head and the next frame is of this type. *)
NextIs(type) == reader = "recv" /\ inbox # <<>> /\ Head(inbox).type = type

(* It takes that frame. *)
Read(type) ==
  /\ NextIs(type)
  /\ inbox' = Tail(inbox)
  /\ UNCHANGED <<link, request, reqs, credit, owed, out, cancels>>

(* Mutation of Arrivals: the end of the stream is lost behind a payload. *)
ArrivalsPayloadOrEnd(f) ==
  CASE f.payload # 0 -> <<f.payload>>
    [] f.payload = 0 /\ "STREAM_END" \in f.flags -> <<RequestEnd>>
    [] OTHER -> <<>>

(* What one DATA frame puts on the request queue. *)
Arrivals(f) ==
  (IF f.payload = 0 THEN <<>> ELSE <<f.payload>>)
    \o (IF "STREAM_END" \in f.flags THEN <<RequestEnd>> ELSE <<>>)

(* A HEADER frame: the last one of the head creates the app task; each one *)
(* is acknowledged, and the reader awaits that its ack is written.         *)
ReadHeader ==
  LET f == Head(inbox)
      last == "HEADER_END" \in f.flags
  IN
  /\ Read("HEADER")
  /\ streams' = streams \cup {f.id}
  /\ pc' = [pc EXCEPT ![f.id] = IF last THEN "created" ELSE @]
  /\ state' = [state EXCEPT ![f.id].queue =
       IF last /\ "STREAM_END" \in f.flags THEN Append(@, RequestEnd) ELSE @]
  /\ reader' = "ack"
  /\ Q!SendFrame(Reader, WindowUpdate(f.id, 1))
  /\ UNCHANGED <<exit, todo, auto, msgs, item, handed, active>>

(* A DATA frame is queued for the app, or dropped when its stream is gone. *)
ReadData ==
  LET f == Head(inbox) IN
  /\ Read("DATA")
  /\ state' = [state EXCEPT ![f.id].queue = IF f.id \in streams THEN @ \o Arrivals(f) ELSE @]
  /\ UNCHANGED <<reader, exit, streams, pc, todo, auto, msgs, item, handed, active, queueVars>>

(* Mutations of AfterAck: everything is taken for acknowledged; the frame  *)
(* prefix is subtracted with the payload and nothing stops at 0.           *)
AfterAckForgets(pending, n) == 0
AfterAckWithPrefix(pending, n) == pending - (n + 6)

(* pending_write_bytes once n bytes are acknowledged. *)
AfterAck(pending, n) == IF pending > n THEN pending - n ELSE 0

(* Mutation of Notifies: off by one. *)
NotifiesTooLow(pending) == pending + 1 < Low

(* The acknowledgement that leaves so much pending wakes the stream's task. *)
Notifies(pending) == pending < Low

(* on_window_update *)
ReadWindowUpdate ==
  LET f == Head(inbox)
      s == f.id
      left == AfterAck(state[s].pending, f.payload)
  IN
  /\ Read("WINDOW_UPDATE")
  /\ IF s \in streams
       THEN /\ state' = [state EXCEPT ![s].pending = left]
            /\ pc' = [pc EXCEPT ![s] = IF @ = "window" /\ Notifies(left) THEN "woken" ELSE @]
       ELSE UNCHANGED <<state, pc>>
  /\ UNCHANGED <<reader, exit, streams, todo, auto, msgs, item, handed, active, queueVars>>

ReadReset ==
  LET S == streams \cap {Head(inbox).id} IN
  /\ Read("RST_STREAM")
  /\ streams' = streams \ S
  /\ CloseFromRouter(S)
  /\ Q!Abandon(S)
  /\ UNCHANGED <<reader, exit>>

ReadBad ==
  /\ NextIs("BAD")
  /\ EndSession("error")
  /\ UNCHANGED <<endVars, cancels>>

(* The WebSocket has ended and everything received has been read. *)
ReadEnd ==
  /\ reader = "recv"
  /\ inbox = <<>> /\ link # "open"
  /\ EndSession(IF link = "closed" THEN "ok" ELSE "error")
  /\ UNCHANGED <<endVars, cancels>>

(* A task that the reader has just created is ahead of it on the ready     *)
(* queue: it has run before the reader returns from its await.             *)
CreatedHaveRun == \A s \in Streams : pc[s] # "created"

AckSent ==
  /\ reader = "ack" /\ fut[Reader] = "ok" /\ CreatedHaveRun
  /\ reader' = "recv"
  /\ Q!Resume(Reader)
  /\ UNCHANGED <<linkVars, exit, cancels, streams, appVars>>

AckFails ==
  /\ reader = "ack" /\ fut[Reader] = "err" /\ CreatedHaveRun
  /\ EndSession("error")
  /\ UNCHANGED <<endVars, cancels>>

(* The socket worker's task, which awaits run(), is cancelled: by shutdown *)
(* or because a refresh removes the router.                                *)
Cancel ==
  /\ cancels < MaxCancels
  /\ cancels' = cancels + 1
  /\ \/ /\ SessionOpen
        /\ reader = "ack" => CreatedHaveRun
        /\ EndSession("cancelled")
     \/ /\ reader = "join"
        /\ reader' = "done" /\ exit' = "cancelled"
        /\ IF writer \in {"idle", "sending"} THEN Q!WriterCancelled ELSE UNCHANGED queueVars
        /\ UNCHANGED <<inbox, streams, appVars>>
  /\ UNCHANGED endVars

(* run() has its writer back; the writer's exception replaces whatever     *)
(* run() was about to end with.                                            *)
Join ==
  /\ reader = "join" /\ writer \in {"stopped", "failed"}
  /\ reader' = "done"
  /\ exit' = IF writer = "failed" THEN "error" ELSE exit
  /\ UNCHANGED <<linkVars, cancels, streams, appVars, queueVars>>

-----------------------------------------------------------------------------
(* The app task of stream s. *)

(* The task leaves _run_asgi_request through its finally. *)
Finish(s) ==
  /\ pc' = [pc EXCEPT ![s] = "done"]
  /\ active' = IF active > 0 THEN active - 1 ELSE 0

(* Await the sending of frames, the first of which is queued now. *)
StartSending(s, frames) ==
  /\ pc' = [pc EXCEPT ![s] = "send"]
  /\ todo' = [todo EXCEPT ![s] = frames]
  /\ Q!SendFrame(s, Head(frames))

(* A response the adapter makes: 204 when the app returned without one,    *)
(* 503, with a body, when no app is attached.                              *)
AutoResponse(s, size) ==
  /\ auto' = [auto EXCEPT ![s] = TRUE]
  /\ state' = [state EXCEPT ![s].started = TRUE]
  /\ StartSending(s, <<Frame("HEADER", {"HEADER_END"}, s, 1),
                       Frame("DATA", {"STREAM_END"}, s, size)>>)

(* The first step of the task: _request_started, then the app runs, or the *)
(* 503 is sent when none is attached.                                      *)
TaskStart(s) ==
  /\ pc[s] = "created"
  /\ active' = active + 1
  /\ \/ /\ pc' = [pc EXCEPT ![s] = "running"]
        /\ UNCHANGED <<state, todo, auto, queueVars>>
     \/ AutoResponse(s, 1)
  /\ UNCHANGED <<linkVars, sessionVars, msgs, item, handed>>

(* http.response.start, a head of n HEADER frames. *)
AppStart(s) ==
  \E n \in 1..MaxHead :
    /\ pc[s] = "running" /\ ~ state[s].started /\ ~ state[s].disconnected
    /\ state' = [state EXCEPT ![s].started = TRUE]
    /\ StartSending(s, [i \in 1..n |->
         Frame("HEADER", IF i = n THEN {"HEADER_END"} ELSE {}, s, 1)])
    /\ UNCHANGED <<linkVars, sessionVars, auto, msgs, item, handed, active>>

(* http.response.body of n chunks, none meaning one empty DATA frame; the  *)
(* last one ends the stream unless there is more body to come.             *)
AppBody(s) ==
  \E n \in 0..MaxChunks, more \in BOOLEAN :
    LET frames == IF n = 0 THEN 1 ELSE n IN
    /\ pc[s] = "running" /\ state[s].started /\ ~ state[s].disconnected
    /\ "late" \in AppMay \/ ~ state[s].complete
    /\ msgs[s] < MaxBody
    /\ msgs' = [msgs EXCEPT ![s] = @ + 1]
    /\ StartSending(s, [i \in 1..frames |->
         Frame("DATA", IF i = frames /\ ~ more THEN {"STREAM_END"} ELSE {}, s,
               IF n = 0 THEN 0 ELSE 1)])
    /\ UNCHANGED <<linkVars, sessionVars, state, auto, item, handed, active>>

(* The rest of send once a frame is out and counted: the next frame, or    *)
(* the end of the message; the final one completes the response and drops  *)
(* the stream from the session.                                            *)
AfterFrame(s, pending) ==
  LET f == Head(todo[s])
      rest == Tail(todo[s])
      final == f.type = "DATA" /\ "STREAM_END" \in f.flags
  IN
  /\ todo' = [todo EXCEPT ![s] = rest]
  /\ state' = [state EXCEPT ![s].pending = pending, ![s].complete = @ \/ final]
  /\ streams' = IF final THEN streams \ {s} ELSE streams
  /\ IF rest # <<>>
       THEN /\ pc' = [pc EXCEPT ![s] = "send"]
            /\ Q!SendFrame(s, Head(rest))
            /\ UNCHANGED active
       ELSE /\ IF auto[s] THEN Finish(s)
                          ELSE pc' = [pc EXCEPT ![s] = "running"] /\ UNCHANGED active
            /\ IF fut[s] = "ok" THEN Q!Resume(s) ELSE UNCHANGED queueVars

(* Mutation of MustWait: off by one. *)
MustWaitTooHigh(pending) == pending > High + 1

(* So much pending keeps the task waiting. *)
MustWait(pending) == pending > High

(* _send_with_flow_control after its send_frame: count the bytes, then     *)
(* wait while more than High are unacknowledged.                           *)
FrameSent(s) ==
  LET f == Head(todo[s])
      pending == state[s].pending + f.payload
  IN
  /\ pc[s] = "send" /\ fut[s] = "ok"
  /\ IF f.payload > 0 /\ MustWait(pending)
       THEN /\ pc' = [pc EXCEPT ![s] = "window"]
            /\ state' = [state EXCEPT ![s].pending = pending]
            /\ Q!Resume(s)
            /\ UNCHANGED <<streams, todo, active>>
       ELSE AfterFrame(s, pending)
  /\ UNCHANGED <<linkVars, reader, exit, cancels, auto, msgs, item, handed>>

(* The task has been notified and tests the condition again. *)
Woken(s) ==
  /\ pc[s] = "woken"
  /\ IF MustWait(state[s].pending)
       THEN /\ pc' = [pc EXCEPT ![s] = "window"]
            /\ UNCHANGED <<streams, state, todo, active, queueVars>>
       ELSE AfterFrame(s, state[s].pending)
  /\ UNCHANGED <<linkVars, reader, exit, cancels, auto, msgs, item, handed>>

(* Mutation of StillOpen: the stream is reset whether it is open or not. *)
AnyStream(s) == TRUE

(* The stream is still registered when the exception is handled. *)
StillOpen(s) == s \in streams

(* An exception reaches _run_asgi_request: RST_STREAM if the stream is     *)
(* still open here.                                                        *)
Raise(s) ==
  /\ todo' = [todo EXCEPT ![s] = <<>>]
  /\ IF StillOpen(s)
       THEN /\ streams' = streams \ {s}
            /\ pc' = [pc EXCEPT ![s] = "rst"]
            /\ Q!SendFrame(s, Frame("RST_STREAM", {}, s, 0))
            /\ UNCHANGED active
       ELSE /\ Finish(s)
            /\ IF fut[s] = "err" THEN Q!Resume(s) ELSE UNCHANGED queueVars
            /\ UNCHANGED streams

(* send raises: in the app, which may handle it, or in the adapter's own   *)
(* response.                                                               *)
FrameFails(s) ==
  /\ pc[s] = "send" /\ fut[s] = "err"
  /\ \/ /\ ~ auto[s]
        /\ pc' = [pc EXCEPT ![s] = "running"]
        /\ todo' = [todo EXCEPT ![s] = <<>>]
        /\ Q!Resume(s)
        /\ UNCHANGED <<streams, active>>
     \/ auto[s] /\ Raise(s)
  /\ UNCHANGED <<linkVars, reader, exit, cancels, state, auto, msgs, item, handed>>

(* http.response.start with a status, headers or a text that int, list,    *)
(* build_response_head or split_header_text raise at: response_started is  *)
(* set, and no frame is queued.  The error ends the app, or the app        *)
(* handles it and goes on.                                                 *)
AppBadStart(s) ==
  /\ pc[s] = "running" /\ ~ state[s].started /\ ~ state[s].disconnected
  /\ state' = [state EXCEPT ![s].started = TRUE]
  /\ \/ Raise(s)
     \/ "badstart" \in AppMay /\ UNCHANGED <<streams, pc, todo, active, queueVars>>
  /\ UNCHANGED <<linkVars, reader, exit, cancels, auto, msgs, item, handed>>

AppRaise(s) ==
  /\ pc[s] = "running"
  /\ Raise(s)
  /\ UNCHANGED <<linkVars, reader, exit, cancels, state, auto, msgs, item, handed>>

(* The app returns; a request it has not answered gets the 204. *)
AppReturn(s) ==
  /\ pc[s] = "running"
  /\ IF state[s].started
       THEN Finish(s) /\ UNCHANGED <<state, todo, auto, queueVars>>
       ELSE AutoResponse(s, 0) /\ UNCHANGED active
  /\ UNCHANGED <<linkVars, sessionVars, msgs, item, handed>>

(* Mutation of ResetSent: the handler goes on behind the app's call. *)
ResetSentGoesOn(s) ==
  /\ pc[s] = "rst" /\ fut[s] \in {"ok", "err"}
  /\ pc' = [pc EXCEPT ![s] = "running"]
  /\ Q!Resume(s)
  /\ UNCHANGED <<linkVars, sessionVars, state, todo, auto, msgs, item, handed, active>>

(* The RST_STREAM is out, or could not be sent, which is suppressed. *)
ResetSent(s) ==
  /\ pc[s] = "rst" /\ fut[s] \in {"ok", "err"}
  /\ Finish(s)
  /\ Q!Resume(s)
  /\ UNCHANGED <<linkVars, sessionVars, state, todo, auto, msgs, item, handed>>

(* Mutation of TaskCancelled: no finally around the app. *)
TaskCancelledUncounted(s) ==
  /\ pc[s] = "cancelled"
  /\ pc' = [pc EXCEPT ![s] = "done"]
  /\ UNCHANGED <<linkVars, sessionVars, state, todo, auto, msgs, item, handed, active, queueVars>>

(* CancelledError in the task, wherever it was waiting. *)
TaskCancelled(s) ==
  /\ pc[s] = "cancelled"
  /\ Finish(s)
  /\ UNCHANGED <<linkVars, sessionVars, state, todo, auto, msgs, item, handed, queueVars>>

(* receive up to the await of an item. *)
AppReceive(s) ==
  /\ pc[s] = "running"
  /\ \/ "late" \in AppMay
     \/ ~ state[s].complete /\ ~ Contains(handed[s], RequestEnd)
  /\ pc' = [pc EXCEPT ![s] = "recv"]
  /\ UNCHANGED <<linkVars, sessionVars, state, todo, auto, msgs, item, handed, active, queueVars>>

(* receive with an item: a sentinel is returned, the WINDOW_UPDATE of a    *)
(* chunk is sent before the chunk is returned.                             *)
Receive(s) ==
  LET next == Head(state[s].queue) IN
  /\ pc[s] = "recv" /\ state[s].queue # <<>>
  /\ state' = [state EXCEPT ![s].queue = Tail(@),
                            ![s].disconnected = @ \/ next = RequestDisconnect]
  /\ IF next \in {RequestEnd, RequestDisconnect}
       THEN /\ pc' = [pc EXCEPT ![s] = "running"]
            /\ handed' = [handed EXCEPT ![s] = Append(@, next)]
            /\ UNCHANGED <<item, queueVars>>
       ELSE /\ pc' = [pc EXCEPT ![s] = "recvack"]
            /\ item' = [item EXCEPT ![s] = next]
            /\ Q!SendFrame(s, WindowUpdate(s, 1))
            /\ UNCHANGED handed
  /\ UNCHANGED <<linkVars, sessionVars, todo, auto, msgs, active>>

(* The ack is out and receive returns the chunk, or the ack failed and     *)
(* receive raises in the app.                                              *)
ReceiveAcked(s) ==
  /\ pc[s] = "recvack" /\ fut[s] \in {"ok", "err"}
  /\ pc' = [pc EXCEPT ![s] = "running"]
  /\ item' = [item EXCEPT ![s] = 0]
  /\ handed' = [handed EXCEPT ![s] = IF fut[s] = "ok" THEN Append(@, item[s]) ELSE @]
  /\ Q!Resume(s)
  /\ UNCHANGED <<linkVars, sessionVars, state, todo, auto, msgs, active>>

(* The app's own timeout cancels the send or receive it awaits, and the    *)
(* app goes on: what is left of the message is not sent, a frame that is   *)
(* queued still is, and nobody counts its bytes.                           *)
CallTimeout(s) ==
  /\ "timeout" \in AppMay
  /\ pc[s] \in {"send", "window", "woken", "recv", "recvack"} /\ ~ auto[s]
  /\ pc' = [pc EXCEPT ![s] = "running"]
  /\ todo' = [todo EXCEPT ![s] = <<>>]
  /\ item' = [item EXCEPT ![s] = 0]
  /\ Q!Abandon({s})
  /\ UNCHANGED <<linkVars, sessionVars, state, auto, msgs, handed, active>>

-----------------------------------------------------------------------------
RouterStep(s) ==
  RouterHeader(s) \/ RouterData(s) \/ RouterReset(s) \/ RouterAck(s) \/ RouterBad(s)

ReaderStep ==
  \/ ReadHeader \/ ReadData \/ ReadWindowUpdate \/ ReadReset \/ ReadBad
  \/ ReadEnd \/ AckSent \/ AckFails \/ Join

(* What the app decides to do next. *)
AppStep(s) ==
  \/ AppStart(s) \/ AppBadStart(s) \/ AppBody(s)
  \/ AppReceive(s) \/ AppReturn(s) \/ AppRaise(s)

(* What the event loop makes of a task that is ready. *)
TaskStep(s) ==
  \/ TaskStart(s) \/ FrameSent(s) \/ FrameFails(s) \/ Woken(s) \/ ResetSent(s)
  \/ Receive(s) \/ ReceiveAcked(s) \/ TaskCancelled(s)

Next ==
  \/ LinkEnd \/ Cancel
  \/ Get \/ Sent \/ SendFails
  \/ ReaderStep
  \/ \E s \in Streams : RouterStep(s) \/ AppStep(s) \/ TaskStep(s) \/ CallTimeout(s)

SafeSpec == Init /\ [][Next]_vars

(***************************************************************************)
(* The event loop runs every ready task; websocket.send returns, or raises *)
(* once the link is down.  The app eventually returns or raises: it has no *)
(* endless response, by MaxBody, never stops between two calls, and does   *)
(* not give its calls up for ever.  The router sends the request body to   *)
(* its end and acknowledges what it has received.  Nothing makes the link  *)
(* end, a cancellation or a reset come.                                    *)
(***************************************************************************)
Fairness ==
  /\ WF_vars(Get)
  /\ WF_vars(Sent \/ SendFails)
  /\ WF_vars(ReaderStep)
  /\ \A s \in Streams :
       /\ WF_vars(TaskStep(s))
       /\ WF_vars(AppStep(s))
       /\ SF_vars(AppReturn(s) \/ AppRaise(s))
       /\ WF_vars(RouterData(s))
       /\ WF_vars(RouterAck(s))

Spec == SafeSpec /\ Fairness

-----------------------------------------------------------------------------
(* What holds of a stream that is open on both sides of the session. *)
Live(s) == s \in streams /\ writer \in {"idle", "sending"}

(* f[1] + ... + f[n] for the n elements of f. *)
Total(f) ==
  LET sum[n \in 0..Len(f)] == IF n = 0 THEN 0 ELSE sum[n - 1] + f[n] IN sum[Len(f)]

(* What a frame acknowledges of stream s. *)
Acknowledges(s, f) == IF f.type = "WINDOW_UPDATE" /\ f.id = s THEN f.payload ELSE 0

AcksToRead(s) == Total([i \in DOMAIN inbox |-> Acknowledges(s, inbox[i])])

(***************************************************************************)
(* Response flow control never loses or invents a byte: what the stream    *)
(* counts as pending, plus a frame that is out and not counted yet, is     *)
(* what the router has still to acknowledge plus the acknowledgements that *)
(* wait to be read.  So the max(0, ...) of on_window_update never hides an *)
(* ack that was counted before its bytes, as long as the app gives no send *)
(* up.                                                                     *)
(***************************************************************************)
WindowAccounting ==
  \A s \in streams : state[s].pending + Uncounted(s) = credit[s] + AcksToRead(s)

(***************************************************************************)
(* A task that waits for the window has not missed its notification: while *)
(* it waits, at least Low bytes are pending, so that an acknowledgement    *)
(* that wakes it is still to come.                                         *)
(***************************************************************************)
NoLostWakeup == \A s \in Streams : pc[s] = "window" => state[s].pending >= Low

(***************************************************************************)
(* Backpressure: a stream never has more than one frame beyond High        *)
(* unacknowledged, whatever the app sends in one message.                  *)
(***************************************************************************)
Backpressure == \A s \in streams : state[s].pending <= High + 1

(* What the router has sent of the request body, in order, the end too. *)
RequestSent(s) == [i \in 1..reqs[s] |-> i]

(* What a frame that waits to be read has of the body of s. *)
Items(s, f) ==
  CASE f.id = s /\ f.type = "DATA" -> Arrivals(f)
    [] f.id = s /\ f.type = "HEADER" /\ f.flags = {"HEADER_END", "STREAM_END"} -> <<RequestEnd>>
    [] OTHER -> <<>>

(* Where the items of the request body are: with the app, in the hands of  *)
(* receive, on the request queue, on the link.                             *)
RequestHeld(s) ==
  handed[s] \o (IF item[s] = 0 THEN <<>> ELSE <<item[s]>>) \o state[s].queue
    \o FlattenSeq([i \in DOMAIN inbox |-> Items(s, inbox[i])])

(***************************************************************************)
(* The app is handed the request body in order and without a gap, and its  *)
(* end after its last chunk: every chunk the router has sent is with the   *)
(* app, or in the one receive call, or queued, or still to be read.        *)
(***************************************************************************)
RequestInOrder ==
  \A s \in streams :
    Live(s) =>
      \/ request[s] # "ended" /\ RequestHeld(s) = RequestSent(s)
      \/ request[s] \in {"ended", "reset"} /\ RequestHeld(s) = Append(RequestSent(s), RequestEnd)

(* The request frames of s, each worth 1, that wait to be read, the chunks *)
(* that wait for the app, and what the acknowledgements on their way give. *)
ToRead(s) ==
  Total([i \in DOMAIN inbox |->
    IF inbox[i].id = s /\ inbox[i].type \in {"HEADER", "DATA"} /\ inbox[i].payload > 0 THEN 1 ELSE 0])

Queued(s) == Total([i \in DOMAIN state[s].queue |-> IF state[s].queue[i] > 0 THEN 1 ELSE 0])

GivesBack(s, held) == IF held \in {Stop, NoItem} THEN 0 ELSE Acknowledges(s, held.frame)

AcksToWrite(s) == Total([i \in DOMAIN writeq |-> GivesBack(s, writeq[i])]) + GivesBack(s, writing)

(***************************************************************************)
(* The router gets back the window of every request frame: what it is owed *)
(* for a stream is what waits to be read, waits for the app, or is being   *)
(* acknowledged.  A leak here would stall an upload for good.              *)
(***************************************************************************)
RequestWindowConserved ==
  \A s \in streams : Live(s) => owed[s] = ToRead(s) + Queued(s) + AcksToWrite(s)

(***************************************************************************)
(* Once run() has left its loop, whichever way, no stream is registered    *)
(* and the only app tasks that go on are those that have sent a complete   *)
(* response and those that are sending their RST_STREAM.                   *)
(***************************************************************************)
OnlyCompletedSurvive ==
  ~ SessionOpen =>
    /\ streams = {}
    /\ \A s \in Streams : pc[s] \in {"none", "done", "cancelled", "rst"} \/ state[s].complete

(***************************************************************************)
(* The count that shutdown waits for is the number of requests under way,  *)
(* however they end.                                                       *)
(***************************************************************************)
ActiveCount == active = Cardinality({s \in Streams : InRequest(s)})

(***************************************************************************)
(* The session keeps the response contract: the frames of each stream come *)
(* out as ResponseContract allows, through every error that ends the app,  *)
(* every cancellation, and every failure of the link.                      *)
(***************************************************************************)
Contract == INSTANCE ResponseContract
ContractSpec == Contract!Spec

(***************************************************************************)
(* Whatever the app does with its calls, a stream that has been aborted on *)
(* the wire stays so: no frame of it follows its RST_STREAM, also none     *)
(* that was queued, given up or still to be made from a message before.    *)
(***************************************************************************)
AbortIsFinal == [][\A s \in Streams : out[s] = "RST_STREAM" => out'[s] = out[s]]_vars

(***************************************************************************)
(* A request whose head has been read comes to its end while the link is   *)
(* up, through backpressure, resets and a cancellation, also when the app  *)
(* gives up its calls.                                                     *)
(***************************************************************************)
RequestEnds ==
  \A s \in Streams : pc[s] = "created" ~> pc[s] = "done" \/ link # "open"

(***************************************************************************)
(* A session that has begun to close, for whichever reason (a cancelled    *)
(* worker included), gets its writer back and ends.                        *)
(***************************************************************************)
SessionCloses == reader = "join" ~> reader = "done"

(***************************************************************************)
(* What the documents say and the code does not do.                        *)
(***************************************************************************)

(***************************************************************************)
(* "Prompt stream cleanup on reset or disconnect" (architecture.md:252):   *)
(* when the connection has ended, the session comes to its end, and none   *)
(* of its requests stays active, so that a shutdown can drain.             *)
(***************************************************************************)
LinkEndEndsSession == link # "open" ~> reader = "done" /\ active = 0
=============================================================================
