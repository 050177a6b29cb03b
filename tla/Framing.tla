------------------------------- MODULE Framing -------------------------------
(* Streams of bytes turned into frames: the game's (proxy/PacketFramer) and   *)
(* the native module's (packages/ipc).                                        *)
EXTENDS Integers, Sequences

------------------------------------------------------------------------------
(* PacketFramer: a TCP byte stream turned into whole frames, whatever chunks   *)
(* it comes in, through one buffer between a read and a write cursor that is   *)
(* slid or moved to a larger one when it runs out (PacketFramer.ts), and the   *)
(* loop of PeerLink that drains it.  A byte is its place in the stream, so     *)
(* that a byte copied wrong or read twice is told from the one that was due.   *)

CONSTANTS FrHead,     \* bytes that tell a frame's length
          FrLeast,    \* the shortest frame there is
          FrMost,     \* and the longest
          FrRoom,     \* how much the buffer holds at first
          FrCompact,  \* how many dead bytes are worth sliding the rest over
          FrStreams   \* the lengths that streams declare, frame by frame

ASSUME FramerSizes == FrHead <= FrLeast /\ FrLeast <= FrRoom /\ FrLeast <= FrMost /\ FrCompact > 0

VARIABLES frStream,   \* the lengths of the frames on this stream
          frBuf,      \* the buffer: the byte at each place
          frStart,    \* the read cursor
          frEnd,      \* the write cursor
          frPushed,   \* how many bytes have come
          frFrames,   \* the frames handed on
          frState     \* "reading", "draining" or "failed"

frVars == <<frStream, frBuf, frStart, frEnd, frPushed, frFrames, frState>>

\* The bytes before the i-th frame; a frame declared too short or too long still
\* has the bytes of its head.
RECURSIVE FrOffset(_)
FrOffset(i) == IF i = 1 THEN 0 ELSE FrOffset(i - 1) + (IF frStream[i - 1] < FrHead THEN FrHead ELSE frStream[i - 1])
FrBytes == FrOffset(Len(frStream) + 1)

FramerInit ==
  /\ frStream \in FrStreams /\ frBuf = [i \in 0..(FrRoom - 1) |-> 0] /\ frStart = 0 /\ frEnd = 0
  /\ frPushed = 0 /\ frFrames = << >> /\ frState = "reading"

Live == frEnd - frStart
Cap(buf) == CHOOSE n \in 0..(4 * FrBytes + 4 * FrRoom) : DOMAIN buf = 0..(n - 1)
Slid(buf, start, live) == [i \in DOMAIN buf |-> IF i < live THEN buf[start + i] ELSE buf[i]]

RECURSIVE Doubled(_, _)
Doubled(cap, need) == IF cap < need THEN Doubled(2 * cap, need) ELSE cap

\* A larger buffer filled from the old one's start.
MakeRoomCopied(n) ==
  IF frEnd + n <= Cap(frBuf) THEN [buf |-> frBuf, start |-> frStart, end |-> frEnd]
  ELSE LET cap == Doubled(2 * Cap(frBuf), Live + n) IN
    [buf |-> [i \in 0..(cap - 1) |-> IF i < Live THEN frBuf[i] ELSE 0], start |-> 0, end |-> Live]

MakeRoom(n) ==
  IF frEnd + n <= Cap(frBuf) THEN [buf |-> frBuf, start |-> frStart, end |-> frEnd]
  ELSE IF Live + n <= Cap(frBuf) THEN [buf |-> Slid(frBuf, frStart, Live), start |-> 0, end |-> Live]
  ELSE LET cap == Doubled(2 * Cap(frBuf), Live + n) IN
    [buf |-> [i \in 0..(cap - 1) |-> IF i < Live THEN frBuf[frStart + i] ELSE 0], start |-> 0, end |-> Live]

Push(n) ==
  /\ frState = "reading" /\ frPushed + n <= FrBytes
  /\ \E room \in {MakeRoom(n)} :
       /\ frBuf' = [i \in DOMAIN room.buf |-> IF i \in room.end..(room.end + n - 1) THEN frPushed + 1 + i - room.end ELSE room.buf[i]]
       /\ frStart' = room.start /\ frEnd' = room.end + n
  /\ frPushed' = frPushed + n /\ frState' = "draining" /\ UNCHANGED <<frStream, frFrames>>

\* The length at the cursor: what the stream says there, if a frame starts there.
DeclaredLength(at) ==
  LET starts == {i \in 1..Len(frStream) : FrOffset(i) + 1 = frBuf[at]} IN
  IF starts = {} THEN FrMost + 1 ELSE frStream[CHOOSE i \in starts : TRUE]

Fails == /\ frState' = "failed" /\ UNCHANGED <<frStream, frBuf, frStart, frEnd, frPushed, frFrames>>
Waits == /\ frState' = "reading" /\ UNCHANGED <<frStream, frBuf, frStart, frEnd, frPushed, frFrames>>

Take(length) ==
  /\ frFrames' = Append(frFrames, [i \in 1..length |-> frBuf[frStart + i - 1]])
  /\ LET start == frStart + length IN
     IF start = frEnd THEN frStart' = 0 /\ frEnd' = 0 /\ UNCHANGED frBuf
     ELSE IF start >= FrCompact THEN frBuf' = Slid(frBuf, start, frEnd - start) /\ frStart' = 0 /\ frEnd' = frEnd - start
     ELSE frStart' = start /\ UNCHANGED <<frEnd, frBuf>>
  /\ UNCHANGED <<frStream, frPushed, frState>>

\* next(), as PeerLink's loop calls it until there is nothing more to take.
NextFrame ==
  /\ frState = "draining"
  /\ IF Live < FrHead THEN Waits
     ELSE LET length == DeclaredLength(frStart) IN
       IF length \notin FrLeast..FrMost THEN Fails
       ELSE IF Live < length THEN Waits ELSE Take(length)

FramerNext == NextFrame \/ \E n \in 1..FrBytes : Push(n)

(***************************************************************************)
(* Properties.                                                             *)
(***************************************************************************)
FramerTypeOK ==
  /\ 0 <= frStart /\ frStart <= frEnd /\ frEnd <= Cap(frBuf)
  /\ frState \in {"reading", "draining", "failed"} /\ frPushed \in 0..FrBytes

\* Between the cursors are the bytes that came and were not handed on, each
\* once and in their order, through every slide and every larger buffer; and the
\* buffer is never more than doubled past what it had to hold
\* (PacketFramer.ts:20-27, 95-117).
NothingLost ==
  /\ \A i \in 0..(Live - 1) : frBuf[frStart + i] = frPushed - Live + 1 + i
  /\ Cap(frBuf) <= FrRoom \/ Cap(frBuf) < 4 * FrBytes

\* The frames are the stream's own, from its first and each whole, none of them
\* from bytes before or after a length that cannot be (PacketFramer.ts:50-56).
FramesWhole ==
  \A i \in DOMAIN frFrames :
    /\ frStream[i] \in FrLeast..FrMost
    /\ frFrames[i] = [k \in 1..frStream[i] |-> FrOffset(i) + k]

\* A chunk's last whole frame is not kept for the next chunk: what is left when
\* the loop ends is less than a frame, and a length that cannot be ended it
\* (PeerLink.ts:92-104).
NothingKeptBack ==
  LET next == Len(frFrames) + 1 IN
  frState = "reading" /\ next <= Len(frStream) =>
    /\ frPushed < FrOffset(next + 1) /\ (frPushed >= FrOffset(next) + FrHead => frStream[next] \in FrLeast..FrMost)

------------------------------------------------------------------------------
(* What the native module's pipe carries to the runtime: chunks of bytes that  *)
(* FrameReader turns into frames, the sequence each frame must continue, the   *)
(* message each one decodes to, and what becomes of the link when one does not *)
(* (packages/ipc: frame, messages; NativeLink.consume).  A body is what its    *)
(* JSON says of each field: its kind.  Who may be believed is NativeLink's.    *)

CONSTANTS IpHead,      \* bytes of a header
          IpCap,       \* the longest payload a header may declare
          IpMenu,      \* frames the module may write: [type, body, length, size, flaw]
          IpMaxFrames  \* bounds how many it writes

ASSUME IpcSizes == IpHead > 0 /\ IpCap >= 0

VARIABLES ipWritten,  \* the frames written to the pipe, each with its number
          ipBytes,    \* how many bytes of them the runtime has read
          ipTaken,    \* how many frames were taken from the reader
          ipHeard,    \* the messages dispatched
          ipLast,     \* the number of the last frame accepted
          ipUp        \* the link stands

ipVars == <<ipWritten, ipBytes, ipTaken, ipHeard, ipLast, ipUp>>

(***************************************************************************)
(* Messages (types.ts, codec.ts, clientFrame.ts).                          *)
(***************************************************************************)
IpOrigin ==
  [hello |-> "native", authChallenge |-> "runtime", authResult |-> "native", ping |-> "either", pong |-> "either",
   setFeature |-> "runtime", controlRecord |-> "runtime", controlAction |-> "native", hotkeyEvent |-> "native",
   offsetHealth |-> "native", serverTarget |-> "native", clientFrame |-> "native"]

\* The fields each JSON message needs; a hotkey's slot may be left out.
IpFields ==
  [hello |-> [pid |-> {"int"}, challenge |-> {"string"}],
   authChallenge |-> [userId |-> {"string"}, pid |-> {"int"}, response |-> {"string"}, challenge |-> {"string"}],
   authResult |-> [ok |-> {"boolean"}, response |-> {"string"}],
   ping |-> [nonce |-> {"string"}], pong |-> [response |-> {"string"}],
   setFeature |-> [key |-> {"string"}, value |-> {"boolean", "int", "number", "string"}],
   controlRecord |-> [record |-> {"string"}], controlAction |-> [action |-> {"string"}],
   hotkeyEvent |-> [pluginId |-> {"string"}, slot |-> {"string", "absent"}, action |-> {"string"}, value |-> {"boolean"}],
   offsetHealth |-> [unresolved |-> {"strings"}], serverTarget |-> [host |-> {"string"}, port |-> {"int"}]]

IpKind(body, name) == IF name \in DOMAIN body THEN body[name] ELSE "absent"
Fits(type, body) == \A name \in DOMAIN IpFields[type] : IpKind(body, name) \in IpFields[type][name]

\* A client frame says whether it has the player, the clock and the shots; it
\* has no shots it did not look for, and none without a clock to date them by.
FrameSize(body) == 20 + 36 * body.born + 8 * body.gone
ClientFrameFits(body) ==
  /\ body.size >= 20 /\ body.size = FrameSize(body)
  /\ body.scanned => body.clock
  /\ ~body.scanned => body.born = 0 /\ body.gone = 0

\* The encoder's own frame: shots it did not scan for are left out.
EncodedFrame(player, clock, scanned, born, gone) ==
  LET n == IF scanned THEN born ELSE 0  k == IF scanned THEN gone ELSE 0 IN
  [player |-> player, clock |-> clock, scanned |-> scanned, born |-> n, gone |-> k, size |-> 20 + 36 * n + 8 * k]

\* decodeMessage, from the native side: what the frame is.
IpDecoded(frame) ==
  IF frame.type \notin DOMAIN IpOrigin THEN "unknown"
  ELSE IF IpOrigin[frame.type] = "runtime" THEN "astray"
  ELSE IF (IF frame.type = "clientFrame" THEN ClientFrameFits(frame.body) ELSE Fits(frame.type, frame.body))
    THEN "message" ELSE "malformed"

(***************************************************************************)
(* The reader, and the loop that drains it (FrameReader.ts,                *)
(* NativeLink.consume).                                                    *)
(***************************************************************************)
HeaderFits(frame) == frame.flaw # "header" /\ frame.length <= IpCap
RECURSIVE IpOffset(_)
IpOffset(i) == IF i = 1 THEN 0 ELSE IpOffset(i - 1) + IpHead + ipWritten[i - 1].size

IpWhole(i, bytes) == i <= Len(ipWritten) /\ bytes >= IpOffset(i) + IpHead + ipWritten[i].length

\* One frame of the loop: its number is accepted before its message is read; a
\* message that cannot be read ends the loop, a frame that cannot be the link.
IpStep(d) ==
  LET i == d.taken + 1
      frame == ipWritten[i]
      read == IpDecoded(frame) IN
  IF frame.seq # d.last + 1 \/ read = "astray" THEN [d EXCEPT !.taken = i, !.up = FALSE]
  ELSE [d EXCEPT !.taken = i, !.last = frame.seq, !.going = read # "malformed",
                 !.heard = IF read = "message" THEN Append(@, i) ELSE @]

RECURSIVE Drained(_, _)
Drained(d, bytes) ==
  LET i == d.taken + 1 IN
  IF ~d.up \/ ~d.going \/ i > Len(ipWritten) THEN d
  ELSE IF bytes < IpOffset(i) + IpHead THEN d
  ELSE IF ~HeaderFits(ipWritten[i]) THEN [d EXCEPT !.up = FALSE]
  ELSE IF IpWhole(i, bytes) THEN Drained(IpStep(d), bytes) ELSE d

IpcInit == ipWritten = << >> /\ ipBytes = 0 /\ ipTaken = 0 /\ ipHeard = << >> /\ ipLast = 0 /\ ipUp = TRUE

\* The module's next frame; one that lost count skips a number.
OnPipe(f) ==
  /\ ipUp /\ Len(ipWritten) < IpMaxFrames
  /\ LET last == IF ipWritten = << >> THEN 0 ELSE ipWritten[Len(ipWritten)].seq IN
     ipWritten' = Append(ipWritten, [type |-> f.type, body |-> f.body, length |-> f.length, size |-> f.size, flaw |-> f.flaw,
                                     seq |-> last + (IF f.flaw = "gap" THEN 2 ELSE 1)])
  /\ UNCHANGED <<ipBytes, ipTaken, ipHeard, ipLast, ipUp>>

\* A chunk of the pipe: the reader takes it in, and the loop what is whole of it.
Consume(n) ==
  /\ ipUp /\ ipBytes + n <= IpOffset(Len(ipWritten) + 1)
  /\ ipBytes' = ipBytes + n
  /\ \E d \in {Drained([taken |-> ipTaken, heard |-> ipHeard, last |-> ipLast, up |-> TRUE, going |-> TRUE], ipBytes + n)} :
       ipTaken' = d.taken /\ ipHeard' = d.heard /\ ipLast' = d.last /\ ipUp' = d.up
  /\ UNCHANGED ipWritten

IpcNext == (\E f \in IpMenu : OnPipe(f)) \/ \E n \in 1..(IpMaxFrames * (IpHead + IpCap)) : Consume(n)

(***************************************************************************)
(* Properties.                                                             *)
(***************************************************************************)
\* What was heard is what the module said, in its order, each once: every frame
\* taken whose message the runtime knows and could read, and nothing else.
HeardIsSaid ==
  /\ ipBytes >= IpOffset(ipTaken + 1) - IpHead - IpCap
  /\ LET said == {i \in 1..ipTaken : IpDecoded(ipWritten[i]) = "message" /\ (ipUp \/ i < ipTaken)} IN
     /\ {ipHeard[k] : k \in DOMAIN ipHeard} \subseteq {i \in 1..ipTaken : IpDecoded(ipWritten[i]) = "message"}
     /\ said \subseteq {ipHeard[k] : k \in DOMAIN ipHeard}
     /\ \A k \in 2..Len(ipHeard) : ipHeard[k - 1] < ipHeard[k]

\* The runtime acts on no message only it may send, and on none after a number
\* was missing: the peer is not the one it was (codec.ts:153-161).
NothingAstrayHeard ==
  \A k \in DOMAIN ipHeard : /\ IpOrigin[ipWritten[ipHeard[k]].type] # "runtime"
                            /\ \A i \in 1..ipHeard[k] : ipWritten[i].seq = i

\* The stream is aligned behind a malformed payload, and the link lives: it is
\* lost only to a header, a number or a sender that cannot be (errors.ts).
LostForCause ==
  ~ipUp => \E i \in {ipTaken, ipTaken + 1} \cap DOMAIN ipWritten :
             ~HeaderFits(ipWritten[i]) \/ ipWritten[i].flaw = "gap" \/ IpDecoded(ipWritten[i]) = "astray"

\* A whole frame waits in the reader only behind a message that could not be
\* read.
HeldBehindMalformed ==
  ipUp /\ IpWhole(ipTaken + 1, ipBytes) => ipTaken > 0 /\ IpDecoded(ipWritten[ipTaken]) = "malformed"

\* "One malformed payload. The stream is still aligned, so the link lives and
\* only this message is lost" (NativeLink.ts:321-322): the frames behind it in
\* the same chunk are heard as well.
OnlyThatMessageIsLost == ipUp => ~IpWhole(ipTaken + 1, ipBytes)
==============================================================================
