------------------------------ MODULE Framing ------------------------------
(***************************************************************************)
(* The frames of one response, in bytes: how split_header_text cuts the    *)
(* head that build_response_head has written, how send cuts the body       *)
(* messages of the app, and the six bytes that go before each payload.     *)
(* Module Session has the interleaving of these frames with everything     *)
(* else and counts a payload as a unit.                                    *)
(*                                                                         *)
(* A text is what the splitter sees of it, one character after the other:  *)
(* ends[i] is the offset, in UTF-8, at which its first i characters end.   *)
(* A payload is a span of the head's or of the body's bytes.               *)
(***************************************************************************)
EXTENDS Integers, Sequences

CONSTANTS
  Ids,          (* request ids, each of four signed bytes                  *)
  Limits,       (* values of max_chunk_bytes (send takes 16000)            *)
  MaxData,      (* _MAX_DATA_CHUNK_BYTES                                   *)
  Byte,         (* values of a byte (256)                                  *)
  MaxChars, MaxMessages, MaxBody    (* bounds: characters of the head,     *)
                (* body messages, bytes of one                             *)

(* Values of four bytes (2^32). *)
Word == Byte * Byte * Byte * Byte

ASSUME FramingAssumption ==
  /\ Limits \subseteq Int
  /\ MaxData \in Nat \ {0}
  /\ Byte \in Nat /\ Byte % 2 = 0 /\ Byte > 8
  /\ MaxChars \in Nat /\ MaxMessages \in Nat /\ MaxBody \in Nat
  /\ Ids \subseteq (-(Word \div 2)) .. (Word \div 2 - 1)

VARIABLES
  id, max,               (* request_id; max_chunk_bytes                    *)
  ends,                  (* the characters seen so far                     *)
  from, bytes,           (* where current begins; current_bytes            *)
  chunks,                (* as in the code                                 *)
  at,                    (* "split", "error", "open", "data", "complete"   *)
  left, more, messages,  (* of the body message that is being cut          *)
  given,                 (* history: bytes of body that the app has sent   *)
  frames                 (* what has been given to send_frame              *)

headVars == <<ends, from, bytes, chunks>>
bodyVars == <<left, more, messages, given>>
framingVars == <<id, max, headVars, bodyVars, at, frames>>

CharSizes == 1..4

Span(a, b) == [from |-> a, to |-> b]

HeaderFrame(span, last) ==
  [type |-> 1, payload |-> span, headerEnd |-> last, streamEnd |-> FALSE]
DataFrame(span, last) ==
  [type |-> 0, payload |-> span, headerEnd |-> FALSE, streamEnd |-> last]

-----------------------------------------------------------------------------
(* The prefix of a frame: type, flags, and the id as four signed bytes     *)
(* with the highest first.                                                 *)
Flags(f) == (IF f.streamEnd THEN 1 ELSE 0) + (IF f.headerEnd THEN 4 ELSE 0)

IdBytes(n) ==
  LET u == n % Word
      Digit(k) == (u \div k) % Byte
  IN <<Digit(Byte * Byte * Byte), Digit(Byte * Byte), Digit(Byte), Digit(1)>>

Prefix(f) == <<f.type, Flags(f)>> \o IdBytes(id)

(* Mutation of IdOf: the id is read as unsigned. *)
IdOfUnsigned(b) == ((b[1] * Byte + b[2]) * Byte + b[3]) * Byte + b[4]

IdOf(b) ==
  LET u == ((b[1] * Byte + b[2]) * Byte + b[3]) * Byte + b[4]
  IN IF b[1] >= Byte \div 2 THEN u - Word ELSE u

(* decode_frame, of the prefix. *)
Decode(p) ==
  [type |-> p[1], streamEnd |-> p[2] % 2 = 1, headerEnd |-> (p[2] \div 4) % 2 = 1,
   id |-> IdOf(SubSeq(p, 3, 6))]

-----------------------------------------------------------------------------
Total == IF ends = <<>> THEN 0 ELSE ends[Len(ends)]

FramingInit ==
  /\ id \in Ids /\ max \in Limits
  /\ ends = <<>> /\ from = 0 /\ bytes = 0 /\ chunks = <<>>
  /\ left = 0 /\ more = FALSE /\ messages = 0 /\ given = 0
  /\ at = "split" /\ frames = <<>>

(* A limit that no character can meet. *)
Refuse ==
  /\ at = "split" /\ max <= 0
  /\ at' = "error"
  /\ UNCHANGED <<id, max, headVars, bodyVars, frames>>

(* Mutation of TakeChar: characters are counted, as String.length() does. *)
TakeCharCounting(size) ==
  /\ ends' = Append(ends, Total + size)
  /\ IF from < Total /\ bytes + 1 > max
       THEN /\ chunks' = Append(chunks, Span(from, Total))
            /\ from' = Total /\ bytes' = 1
       ELSE bytes' = bytes + 1 /\ UNCHANGED <<chunks, from>>

(* The character goes into current, or begins the next one. *)
TakeChar(size) ==
  /\ ends' = Append(ends, Total + size)
  /\ IF from < Total /\ bytes + size > max
       THEN /\ chunks' = Append(chunks, Span(from, Total))
            /\ from' = Total /\ bytes' = size
       ELSE bytes' = bytes + size /\ UNCHANGED <<chunks, from>>

NextChar(size) ==
  /\ at = "split" /\ max > 0 /\ Len(ends) < MaxChars
  /\ IF size > max
       THEN at' = "error" /\ UNCHANGED headVars
       ELSE TakeChar(size) /\ UNCHANGED at
  /\ UNCHANGED <<id, max, bodyVars, frames>>

(* Mutation of Pieces: what is left in current is forgotten. *)
PiecesCut == IF chunks = <<>> THEN <<Span(0, 0)>> ELSE chunks

(* What split_header_text returns when the text is over: never nothing. *)
Pieces ==
  LET all == IF from < Total THEN Append(chunks, Span(from, Total)) ELSE chunks
  IN IF all = <<>> THEN <<Span(0, 0)>> ELSE all

SendHead ==
  /\ at = "split" /\ max > 0
  /\ at' = "open"
  /\ frames' = [i \in DOMAIN Pieces |-> HeaderFrame(Pieces[i], i = Len(Pieces))]
  /\ UNCHANGED <<id, max, headVars, bodyVars>>

-----------------------------------------------------------------------------
(* A message http.response.body. *)
SendBody(size) ==
  /\ at = "open" /\ messages < MaxMessages
  /\ at' = "data"
  /\ left' = size /\ more' \in BOOLEAN /\ messages' = messages + 1
  /\ given' = given + size
  /\ UNCHANGED <<id, max, headVars, frames>>

(* Mutations: every slice is a full one; each frame of the last message is *)
(* an end.                                                                 *)
SliceFull == MaxData
LastSliceAny(size) == TRUE

(* body[index : index + _MAX_DATA_CHUNK_BYTES]; an empty body is one slice. *)
Slice == IF left < MaxData THEN left ELSE MaxData
LastSlice(size) == size = left

SendSlice ==
  /\ at = "data"
  /\ LET last == LastSlice(Slice) IN
       /\ frames' = Append(frames, DataFrame(Span(given - left, given - left + Slice),
                                             last /\ ~ more))
       /\ left' = left - Slice
       /\ at' = IF Slice < left THEN "data" ELSE IF more THEN "open" ELSE "complete"
  /\ UNCHANGED <<id, max, headVars, more, messages, given>>

FramingNext ==
  \/ Refuse
  \/ \E size \in CharSizes : NextChar(size)
  \/ SendHead
  \/ \E size \in 0..MaxBody : SendBody(size)
  \/ SendSlice

FramingSpec == FramingInit /\ [][FramingNext]_framingVars

-----------------------------------------------------------------------------
Headers == {i \in DOMAIN frames : frames[i].type = 1}
Follows(i, j) == frames[i].payload.to = frames[j].payload.from

(***************************************************************************)
(* Offsets and counters stay natural numbers: a slice never takes more     *)
(* than is left of its message.                                            *)
(***************************************************************************)
FramingTypeOK ==
  /\ id \in Int /\ max \in Limits
  /\ ends \in Seq(Nat) /\ from \in Nat /\ bytes \in Nat
  /\ chunks \in Seq([from : Nat, to : Nat])
  /\ at \in {"split", "error", "open", "data", "complete"}
  /\ left \in Nat /\ more \in BOOLEAN /\ messages \in Nat /\ given \in Nat
  /\ frames \in Seq([type : {0, 1}, payload : [from : Nat, to : Nat],
                     headerEnd : BOOLEAN, streamEnd : BOOLEAN])

(***************************************************************************)
(* No payload is longer than its limit, however the sizes of characters    *)
(* fall, and a HEADER payload begins and ends between characters: "chunk   *)
(* on encoded byte length instead to avoid UTF-8 boundary bugs"            *)
(* (cranker-v3-protocol.md:291).                                           *)
(***************************************************************************)
FramesFit ==
  \A i \in DOMAIN frames :
    LET f == frames[i] IN
    IF f.type = 0
      THEN f.payload.to - f.payload.from \in 0..MaxData
      ELSE /\ f.payload.to - f.payload.from \in 0..max
           /\ {f.payload.from, f.payload.to} \subseteq {0} \cup {ends[k] : k \in DOMAIN ends}

(***************************************************************************)
(* The payloads of the HEADER frames are the head, and those of the DATA   *)
(* frames the body as far as it has been cut: in order, nothing twice and  *)
(* nothing left out at either end or between two frames or messages.       *)
(***************************************************************************)
NothingLost ==
  at \in {"open", "data", "complete"} =>
    /\ frames # <<>> /\ frames[1].type = 1 /\ frames[1].payload.from = 0
    /\ \A i \in 1..(Len(frames) - 1) :
         IF frames[i].type = frames[i + 1].type
           THEN Follows(i, i + 1)
           ELSE frames[i].payload.to = Total /\ frames[i + 1].payload.from = 0
    /\ frames[Len(frames)].payload.to
         = IF frames[Len(frames)].type = 1 THEN Total ELSE given - left

(***************************************************************************)
(* The head ends with the last of its frames, and the stream with the last *)
(* frame of the last message, when a message is cut into several as well.  *)
(***************************************************************************)
EndsOnce ==
  /\ \A i \in DOMAIN frames :
       frames[i].headerEnd <=> i \in Headers /\ i + 1 \notin Headers
  /\ \A i \in DOMAIN frames :
       frames[i].streamEnd <=> at = "complete" /\ i = Len(frames)

(***************************************************************************)
(* Whoever decodes a frame as decode_frame does reads the type, the flags  *)
(* and the id that went in, for ids at both ends of the signed range too.  *)
(***************************************************************************)
FramesDecode ==
  \A i \in DOMAIN frames :
    Decode(Prefix(frames[i])) =
      [type |-> frames[i].type, streamEnd |-> frames[i].streamEnd,
       headerEnd |-> frames[i].headerEnd, id |-> id]
=============================================================================
