------------------------------- MODULE WsDecode -------------------------------
(***************************************************************************)
(* A WebSocket client: the upgrade of the connection (webSocketsCheck,     *)
(* webSocketsHandshake), the decoder of RFC 6455 frames                    *)
(* (webSocketsDecodeHybi), rfbReadExactTimeout, which calls it until a     *)
(* message of the RFB protocol has been read, and the loop around          *)
(* rfbProcessClientMessage that asks webSocketsHasDataInBuffer.            *)
(*                                                                         *)
(* The peer's bytes are a script: the frames it sends, the reads that the  *)
(* messages inside them ask of the server, and what the network does to    *)
(* them: the places where a read may return less than was asked (splits)   *)
(* and where it may find nothing yet (gaps).  A byte is known by its frame *)
(* and its offset there; what a call of read() finds is chosen.            *)
(***************************************************************************)
EXTENDS Integers, Sequences, SequencesExt

CONSTANTS
    Scripts,    \* what peers send
    Requests,   \* what peers ask for before
    LongLen,    \* the shortest payload that takes the longer header (126)
    BufLen      \* the size of codeBufDecode

Places == {"message", "fragment", "header", "extended", "payload"}

Short == 6      \* WS_HYBI_HEADER_LEN_SHORT
Extended == 8   \* WS_HYBI_HEADER_LEN_EXTENDED

Control == {"close", "ping"}
Opcodes == Control \cup {"text", "binary", "continuation"}

Frame == [op : Opcodes, fin : BOOLEAN, masked : BOOLEAN, long : BOOLEAN, len : Nat]

(* The first bytes, and the header lines that came before the blank line   *)
(* or before the peer fell silent.                                         *)
WsRequest == [first : {"GET", "RFB", "silence", "other"},
              fields : SUBSET {"path", "host", "origin", "version", "base64", "key"},
              ended : {"line", "silence", "closed"}]

ASSUME WsAssumption ==
    /\ \A s \in Scripts : /\ s.frames \in Seq(Frame)
                          /\ s.messages \in Seq(Seq(Nat \ {0}) \ {<<>>})
                          /\ s.splits \subseteq Places /\ s.gaps \subseteq Places
    /\ Requests \subseteq WsRequest
    /\ LongLen \in Nat /\ BufLen \in Nat /\ BufLen > Extended + 4

VARIABLES
    script,     \* what the peer of this client sends
    phase,      \* where the thread that serves the client is
    why,        \* why the client was closed
    base64,     \* wsctx->base64
    frame, at,  \* the next byte on the socket: its frame and its offset
    sync,       \* FALSE: the decoder takes other bytes for a frame's header
    ctx,        \* the rest of ws_ctx_t
    messages,   \* the reads of the messages not begun, and of the one under way
    out         \* the data bytes handed to the RFB protocol

peer == <<script, base64>>
vars == <<script, phase, why, base64, frame, at, sync, ctx, messages, out>>

Frames == script.frames
HeaderLen(f) == IF f.long THEN Extended ELSE Short
Ended == frame > Len(Frames)
Here == Frames[frame]

(* A frame is within a fragmented message when the last data frame before  *)
(* it was not a final one.                                                 *)
Fragmented(i) == \E j \in 1 .. i - 1 :
    /\ Frames[j].op \notin Control /\ ~Frames[j].fin
    /\ \A k \in j + 1 .. i - 1 : Frames[k].op \in Control

(* The opcode of a frame's message: a continuation has that of the frame   *)
(* that began it.                                                          *)
Opcode(i) == IF Frames[i].op # "continuation" \/ ~Fragmented(i) THEN Frames[i].op
             ELSE Frames[Max({j \in 1 .. i : Frames[j].op \in {"text", "binary"}})].op

PlaceAt(p) == IF p >= HeaderLen(Here) THEN "payload"
              ELSE IF p >= Short THEN "extended" ELSE "header"

Place == IF Ended THEN "message"
         ELSE IF at = 0 THEN (IF Fragmented(frame) THEN "fragment" ELSE "message")
         ELSE PlaceAt(at)

------------------------------------------------------------------------------
(* What the frames carry.  Four characters of a text frame are three data  *)
(* bytes.                                                                  *)
DataLen(i) == CASE Opcode(i) \in Control -> 0
                [] Opcode(i) = "text" -> (3 * Frames[i].len) \div 4
                [] OTHER -> Frames[i].len

DataOf(i) == [k \in 1 .. DataLen(i) |-> <<i, k - 1>>]

Sent == FlattenSeq([i \in DOMAIN Frames |-> DataOf(i)])

Garbled == <<0, 0>>

(* Unmasking starts with the first byte of the mask, so a byte comes out   *)
(* right when its offset in the payload agrees.                            *)
Unmask(bytes) == [k \in DOMAIN bytes |->
    IF bytes[k] % 4 = (k - 1) % 4 THEN bytes[k] ELSE -1]

(* rfbBase64PtoN on unmasked characters: -1 is modelled by no data.        *)
Base64(i, chars) ==
    IF chars = <<>> \/ Len(chars) % 4 # 0 \/ -1 \in Range(chars) THEN <<>>
    ELSE [k \in 1 .. (3 * Len(chars)) \div 4 |-> <<i, ((3 * chars[1]) \div 4) + k - 1>>]

Raw(i, bytes) == [k \in DOMAIN bytes |-> IF bytes[k] = -1 THEN Garbled ELSE <<i, bytes[k]>>]

------------------------------------------------------------------------------
(* The decoder's state between two calls.                                  *)
(* state: "header" (WS_HYBI_STATE_HEADER_PENDING), "extended" (between the *)
(* two reads of one call), "needed" (DATA_NEEDED, CLOSE_REASON_PENDING) or *)
(* "available".                                                            *)
Cleared(cont) == [state |-> "header", nRead |-> 0, opcode |-> "invalid", got |-> 0,
                  write |-> 0, carry |-> <<>>, data |-> <<>>, cont |-> cont]

CleanupComplete == Cleared("invalid")
CleanupForContinuation(c) == Cleared(c.cont)

\* Mutant of FrameDone: a control frame makes the decoder forget the message.
MutantFrameDone(c) == IF Here.fin THEN CleanupComplete ELSE CleanupForContinuation(c)
FrameDone(c) == IF Here.fin /\ c.opcode \notin Control THEN CleanupComplete
                ELSE CleanupForContinuation(c)

\* Mutant of HasDataInBuffer: only the socket is looked at.
MutantHasDataInBuffer(c) == FALSE
HasDataInBuffer(c) == c.data # <<>>

Init ==
    /\ script \in Scripts
    /\ phase = "check" /\ why = "open" /\ base64 = FALSE
    /\ frame = 1 /\ at = 0 /\ sync = TRUE
    /\ ctx = CleanupComplete
    /\ messages = script.messages
    /\ out = <<>>

------------------------------------------------------------------------------
(* The connection is accepted as it is, upgraded, or refused.              *)

Accepts(r) ==
    /\ r.ended # "closed"
    /\ {"version", "path", "host", "origin"} \subseteq r.fields

(* The answer is made from Sec-WebSocket-Key.  That it is there is not     *)
(* checked: what becomes of a request without it is undefined ("lost").    *)
Check ==
    /\ phase = "check"
    /\ \E r \in Requests :
        IF r.first \in {"RFB", "silence"} THEN phase' = "plain" /\ UNCHANGED <<why, base64>>
        ELSE IF r.first = "GET" /\ Accepts(r)
        THEN /\ phase' = IF "key" \in r.fields THEN "select" ELSE "lost"
             /\ base64' = ("base64" \in r.fields) /\ UNCHANGED why
        ELSE phase' = "closed" /\ why' = "refused" /\ UNCHANGED base64
    /\ UNCHANGED <<script, frame, at, sync, ctx, messages, out>>

------------------------------------------------------------------------------
(* Reading messages.                                                       *)

(* The lengths asked of rfbReadExact for the message under way.  Woken     *)
(* after the last message the server asks for a byte that does not come.   *)
Asked == IF messages = <<>> THEN <<1>> ELSE Head(messages)

(* A message is over when its last read is; the next one is begun at once  *)
(* when decoded data is left.                                              *)
Consume(n, c) ==
    LET rest == IF Asked[1] > n THEN <<Asked[1] - n>> \o Tail(Asked) ELSE Tail(Asked)
    IN  IF rest # <<>> THEN messages' = <<rest>> \o Tail(messages) /\ UNCHANGED phase
        ELSE /\ messages' = IF messages = <<>> THEN <<>> ELSE Tail(messages)
             /\ phase' = IF HasDataInBuffer(c) THEN "read" ELSE "select"

(* select in rfbCheckFds or clientInput finds the socket readable.         *)
Wake ==
    /\ phase = "select"
    /\ phase' = "read"
    /\ UNCHANGED <<peer, why, frame, at, sync, ctx, messages, out>>

Close(reason) ==
    /\ phase' = "closed" /\ why' = reason /\ ctx' = CleanupComplete
    /\ UNCHANGED <<peer, sync, messages, out>>

(* read() and what it returns.  EINTR is retried and not modelled.         *)
ReadSome(n) == IF Ended THEN {}
               ELSE {k \in 1 .. n : k = n \/ LET p == at + k IN
                        PlaceAt(p) \in script.splits}

Empty == Place \in script.gaps \/ Ended

Reading == phase = "read" /\ sync

(* The peer closes the connection: read returns 0.                         *)
PeerCloses ==
    /\ phase = "read" /\ Len(Frames) < frame
    /\ Close("peer")
    /\ UNCHANGED <<frame, at>>

(* Nothing to read in time: select in rfbReadExactTimeout returns 0.       *)
TimedOut ==
    /\ phase = "read" /\ Empty /\ ctx.state # "available"
    /\ Close("timeout")
    /\ UNCHANGED <<frame, at>>

Room(c) == BufLen - c.write - Len(c.carry) - 1

Remaining(c) == Here.len - c.got

ToRead(c) == Min({Remaining(c), Room(c)})

(* EAGAIN ends every state but "available" in the cleanup of err_cleanup.  *)
FoundEmpty ==
    /\ Reading /\ Empty
    /\ \/ ctx.state = "header" /\ ctx.nRead < Short
       \/ ctx.state = "extended"
       \/ ctx.state = "needed" /\ ToRead(ctx) > 0
    /\ ctx' = CleanupComplete
    /\ sync' = (at = 0)
    /\ UNCHANGED <<peer, phase, why, frame, at, messages, out>>

------------------------------------------------------------------------------
(* hybiReadHeader *)

Continued(c, f) ==
    [c EXCEPT !.opcode = IF f.op = "continuation" THEN c.cont ELSE f.op,
              !.cont = IF f.op \in Control \cup {"continuation"} THEN @
                       ELSE IF f.fin THEN "invalid" ELSE f.op]

Rejected(c, f) ==
    \/ f.op \in Control /\ ~f.fin
    \/ f.op = "continuation" /\ c.cont = "invalid"
    \/ ~f.masked

(* The header is complete when all of it has been read.                    *)
HeaderRead(c, f) ==
    IF c.nRead < HeaderLen(f) THEN [c EXCEPT !.state = "header"]
    ELSE [c EXCEPT !.state = "needed", !.write = HeaderLen(f)]

BadLength(f) == f.long /\ f.len < LongLen

HeaderStep(c, f) ==
    IF c.state = "needed" /\ BadLength(f) THEN Close("protocol")
    ELSE ctx' = c /\ UNCHANGED <<peer, phase, why, sync, messages, out>>

ReadHeader ==
    /\ Reading /\ ctx.state = "header" /\ ctx.nRead < Short
    /\ \E k \in ReadSome(Short - ctx.nRead) :
        LET c == [ctx EXCEPT !.nRead = @ + k]
        IN  /\ at' = at + k /\ UNCHANGED frame
            /\ IF c.nRead < 2 THEN HeaderStep(c, Here)
               ELSE IF Rejected(c, Here) THEN Close("protocol")
               ELSE IF Here.long THEN HeaderStep([Continued(c, Here) EXCEPT !.state = "extended"], Here)
               ELSE HeaderStep(HeaderRead(Continued(c, Here), Here), Here)

ReadExtended ==
    /\ Reading /\ ctx.state = "extended"
    /\ \E k \in ReadSome(Extended - ctx.nRead) :
        /\ at' = at + k /\ UNCHANGED frame
        /\ HeaderStep(HeaderRead([ctx EXCEPT !.nRead = @ + k], Here), Here)

(* With six or more bytes of a longer header in hand the next call asks    *)
(* read() for none, which looks like a closed connection, or for a         *)
(* negative number, which fails.                                           *)
ReadNothing ==
    /\ Reading /\ ctx.state = "header" /\ ctx.nRead >= Short
    /\ Close("header")
    /\ UNCHANGED <<frame, at>>

------------------------------------------------------------------------------
(* hybiReadAndDecode and hybiReturnData *)

\* Mutant of Decodable: nothing is carried over to the next read.
MutantDecodableAll(c, n) == Len(c.carry) + n

\* Mutant of Decodable: a longer unit of decoding than carryBuf allows for.
MutantDecodableEight(c, n) ==
    IF Remaining(c) = n THEN Len(c.carry) + n ELSE ((Len(c.carry) + n) \div 8) * 8
(* All of a frame's last bytes are decoded, of others multiples of four.   *)
Decodable(c, n) ==
    IF Remaining(c) = n THEN Len(c.carry) + n ELSE ((Len(c.carry) + n) \div 4) * 4

(* The decoder's state when n bytes have been read, before it returns.     *)
Decoded(c, n) ==
    LET bytes == c.carry \o [k \in 1 .. n |-> c.got + k - 1]
        done == Decodable(c, n)
        plain == Unmask(SubSeq(bytes, 1, done))
    IN  [c EXCEPT !.got = @ + n,
                  !.carry = SubSeq(bytes, done + 1, Len(bytes)),
                  !.write = IF c.opcode \in {"text", "binary"} THEN HeaderLen(Here) ELSE @ + done,
                  !.data = CASE c.opcode = "text" -> Base64(frame, plain)
                             [] c.opcode = "binary" -> Raw(frame, plain)
                             [] OTHER -> <<>>]

(* Return what fits; clean up when the frame is through.                   *)
ReturnData(c) ==
    LET give == Min({Asked[1], Len(c.data)})
        left == [c EXCEPT !.data = SubSeq(c.data, give + 1, Len(c.data))]
        over == left.data = <<>> /\ Remaining(c) = 0
        next == IF over THEN FrameDone(c)
                ELSE [left EXCEPT !.state = IF left.data = <<>> THEN "needed" ELSE "available"]
    IN  /\ ctx' = next
        /\ out' = out \o SubSeq(c.data, 1, give)
        /\ IF give = 0 THEN UNCHANGED <<phase, messages>> ELSE Consume(give, next)
        /\ IF over THEN frame' = frame + 1 /\ at' = 0 ELSE frame' = frame /\ at' = HeaderLen(Here) + c.got
        /\ UNCHANGED <<peer, why, sync>>

ReadAndDecode ==
    /\ Reading /\ ctx.state = "needed"
    /\ \E n \in IF ToRead(ctx) = 0 THEN {0} ELSE ReadSome(ToRead(ctx)) :
            IF ctx.opcode = "close" /\ Remaining(ctx) = n
            THEN Close("close") /\ frame' = frame + 1 /\ at' = 0
            ELSE ReturnData(Decoded(ctx, n))

ReturnMore ==
    /\ Reading /\ ctx.state = "available"
    /\ ReturnData(ctx)

------------------------------------------------------------------------------
(* Out of step with the peer, the decoder takes the bytes of a frame's     *)
(* header or payload for a header: whatever that makes of them, the        *)
(* connection fails or the protocol is handed bytes that were never sent   *)
(* (bound: no more than the messages of the script ask for).               *)
Astray ==
    /\ phase = "read" /\ ~sync
    /\ \/ Close("protocol") /\ UNCHANGED <<frame, at>>
       \/ /\ messages # <<>>
          /\ out' = Append(out, Garbled) /\ Consume(1, ctx)
          /\ UNCHANGED <<peer, why, frame, at, sync, ctx>>

Next ==
    \/ Check \/ Wake \/ PeerCloses \/ TimedOut \/ FoundEmpty
    \/ ReadHeader \/ ReadExtended \/ ReadNothing \/ ReadAndDecode \/ ReturnMore
    \/ Astray

Spec == Init /\ [][Next]_vars

------------------------------------------------------------------------------
(* Properties *)

(* The state of the decoder and of its user; what is carried over fits     *)
(* carryBuf, and nothing is read beyond the frame or the buffer.           *)
TypeOK ==
    /\ phase \in {"check", "plain", "lost", "select", "read", "closed"}
    /\ why \in {"open", "refused", "peer", "timeout", "protocol", "header", "close"}
    /\ frame \in 1 .. Len(Frames) + 1 /\ at \in Nat
    /\ base64 \in BOOLEAN /\ sync \in BOOLEAN
    /\ ctx.state \in {"header", "extended", "needed", "available"}
    /\ ctx.nRead \in 0 .. Extended
    /\ Len(ctx.carry) <= 3
    /\ ctx.write + Len(ctx.carry) < BufLen
    /\ ctx.got > 0 => ~Ended /\ ctx.got <= Here.len

(* A text frame holds whole groups of four characters; of others what is   *)
(* left over at their end is not decoded.                                  *)
WholeText == \A i \in DOMAIN Frames : Opcode(i) = "text" => Frames[i].len % 4 = 0

(* What the RFB protocol reads is what the data frames carry, unmasked and *)
(* decoded, in order and without anything of a control frame between, for  *)
(* every way the bytes are cut into reads and messages into frames, unless *)
(* the decoder has lost its place.                                         *)
DataInOrder == sync /\ WholeText => IsPrefix(out, Sent)

(* A script a viewer may send.                                             *)
Conforming ==
    WholeText /\ \A i \in DOMAIN Frames :
        LET f == Frames[i]
        IN  /\ f.masked
            /\ f.op \in Control => f.fin
            /\ f.op = "continuation" <=> f.op \notin Control /\ Fragmented(i)
            /\ f.long <=> f.len >= LongLen

(* Once a message has begun, its bytes are there when they are asked for,  *)
(* and the longer header comes in one piece.                               *)
Smooth == script.splits \subseteq {"header", "payload"} /\ script.gaps \subseteq {"message"}

(* On a smooth network a viewer that keeps to the protocol is never thrown *)
(* out: the connection ends only when it is closed, when a close frame has *)
(* come after all data before it, or when nothing comes for too long.      *)
ConformingAccepted ==
    Conforming /\ Smooth =>
        /\ sync /\ why \notin {"protocol", "header"}
        /\ why = "close" => \E i \in DOMAIN Frames :
            /\ Frames[i].op = "close"
            /\ out = FlattenSeq([j \in 1 .. i - 1 |-> DataOf(j)])

(* While the server sleeps in select, which does not see what the decoder  *)
(* holds, all data of the frames it has read through has been handed on.   *)
NoStall ==
    sync /\ WholeText /\ phase = "select" =>
        LET through == IF ~Ended /\ at = HeaderLen(Here) + Here.len THEN frame ELSE frame - 1
        IN  Len(out) >= Len(FlattenSeq([j \in 1 .. through |-> DataOf(j)]))

(* "Emulates a read call on a socket" (ws_decode.c:508): a call that finds *)
(* nothing to read takes nothing away, it is "ok, just call again"         *)
(* (wstest.c:142).                                                         *)
JustCallAgain ==
    Conforming /\ "extended" \notin script.splits =>
        sync /\ why \notin {"protocol", "header"} /\ IsPrefix(out, Sent)

==============================================================================
