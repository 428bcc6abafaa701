-------------------------------- MODULE Wire --------------------------------
(***************************************************************************)
(* One connection, byte by byte: client::Connection::call at one end,      *)
(* Server::serve_connection at the other, and between them write_message,  *)
(* read_frame and the loops of net/io over a socket that takes and gives   *)
(* any number of bytes at a time.  Either end may go away at any moment,   *)
(* and one of them may be a peer that does not share our idea of a frame.  *)
(* A system call that a signal interrupts is issued again: no step.        *)
(***************************************************************************)
EXTENDS Codec

CONSTANTS
    Codecs,         \* what make_codec can return
    Requests,       \* a sequence of requests, without their ids
    Replies(_),     \* the answers the handler may give to a request, a sequence
    Mangled(_, _),  \* codec and message -> a sequence of what a foreign end sends for it
    MaxFrame,       \* kMaxFrameSize
    SockBuf,        \* bound: bytes the socket holds in one direction
    MaxCalls        \* bound: calls on the connection

ASSUME WireAssumption == SockBuf > 0 /\ MaxFrame > 0

VARIABLES
    codec,      \* the codec both ends were started with
    foreign,    \* the end that is not ours, if any
    end,        \* end -> where it is, what it is writing and reading, how it ended
    pipe,       \* end -> bytes it has sent that the other has not read
    asked,      \* Connection: the request of the current call
    outcome,    \* Connection: the CallStatus of the last call, and its response
    handled,    \* history: the last request given to the handler
    replied     \* history: the last response of the daemon

vars == <<codec, foreign, end, pipe, asked, outcome, handled, replied>>
mode == <<codec, foreign>>
call == <<asked, outcome>>
served == <<handled, replied>>

Ends == {"client", "daemon"}
Peer(e) == CHOOSE p \in Ends : p # e
Prefix == 4

NoOutcome == [status |-> "none", response |-> NoMessage]

\* left is what write_all has yet to send of the whole frame; got what read_exact has of
\* the want units it was asked for.
Reading == [at |-> "prefix", left |-> <<>>, whole |-> 0, got |-> <<>>, want |-> Prefix,
            verdict |-> "Ok"]

Open(e) == end[e].at # "closed"
Closed(e, verdict) == [end EXCEPT ![e].at = "closed", ![e].verdict = verdict, ![e].got = <<>>]
Writing(e, frame) == [end EXCEPT ![e] = [Reading EXCEPT !.at = "write", !.left = frame,
                                                        !.whole = Len(frame)]]

\* write_message: the prefix is patched in front of the encoded body.
Framed(body) == AppendBE(Len(body), Prefix) \o body
Fits(n) == 1 <= n /\ n <= MaxFrame

-----------------------------------------------------------------------------
(* net/io and proto/framing, for either end. *)

WriteSome(e) ==
    /\ end[e].at = "write" /\ Open(Peer(e))
    /\ \E n \in 1 .. Len(end[e].left) :
          /\ Len(pipe[e]) + n <= SockBuf
          /\ pipe' = [pipe EXCEPT ![e] = @ \o SubSeq(end[e].left, 1, n)]
          /\ LET left == SubSeq(end[e].left, n + 1, Len(end[e].left))
             IN  end' = [end EXCEPT ![e].left = left,
                                    ![e].at = IF left = <<>> THEN "prefix" ELSE "write"]
    /\ UNCHANGED <<mode, call, served>>

\* EPIPE: from_io tells it as a truncation once a part has been sent.
WriteFails(e) ==
    /\ end[e].at = "write" /\ ~Open(Peer(e))
    /\ end' = Closed(e, IF Len(end[e].left) = end[e].whole THEN "PeerClosed" ELSE "Truncated")
    /\ outcome' = IF e = "client" THEN [NoOutcome EXCEPT !.status = "ConnectionLost"]
                  ELSE outcome
    /\ UNCHANGED <<mode, pipe, asked, served>>

\* read_frame once the prefix, or the body, is there.
AfterRead(r) ==
    IF Len(r.got) < r.want THEN r
    ELSE IF r.at = "body" THEN [r EXCEPT !.at = "decode"]
    ELSE IF Fits(LoadBE(r.got)) THEN [r EXCEPT !.at = "body", !.want = LoadBE(r.got), !.got = <<>>]
    ELSE [r EXCEPT !.at = "closed", !.verdict = "Oversized", !.got = <<>>]

\* A call whose reading end is now closed has lost its connection.
LostIfClosed(e) ==
    outcome' = IF e = "client" /\ end'[e].at = "closed"
               THEN [NoOutcome EXCEPT !.status = "ConnectionLost"]
               ELSE outcome

ReadSome(e) ==
    /\ end[e].at \in {"prefix", "body"}
    /\ \E n \in 1 .. Len(pipe[Peer(e)]) :
          /\ n <= end[e].want - Len(end[e].got)
          /\ end' = [end EXCEPT ![e] =
                        AfterRead([@ EXCEPT !.got = @ \o SubSeq(pipe[Peer(e)], 1, n)])]
          /\ pipe' = [pipe EXCEPT ![Peer(e)] = SubSeq(@, n + 1, Len(@))]
    /\ LostIfClosed(e)
    /\ UNCHANGED <<mode, asked, served>>

\* Mutant: what read_exact says of the body is returned as it is.
EndOfStreamPlain(r) == IF r.got = <<>> THEN "PeerClosed" ELSE "Truncated"

\* from_io, and the correction for a body that never came.
EndOfStream(r) == IF r.at = "prefix" /\ r.got = <<>> THEN "PeerClosed" ELSE "Truncated"

\* The other end is closed: end-of-stream, or an error if it left bytes of ours unread.
ReadEnds(e) ==
    /\ end[e].at \in {"prefix", "body"}
    /\ ~Open(Peer(e)) /\ pipe[Peer(e)] = <<>>
    /\ end' = Closed(e, IF pipe[e] = <<>> THEN EndOfStream(end[e]) ELSE "IoError")
    /\ LostIfClosed(e)
    /\ UNCHANGED <<mode, pipe, asked, served>>

\* SO_RCVTIMEO and SO_SNDTIMEO, which only the client sets.
TimesOut ==
    /\ \/ end["client"].at \in {"prefix", "body"} /\ pipe["daemon"] = <<>>
       \/ end["client"].at = "write" /\ Len(pipe["client"]) = SockBuf
    /\ Open("daemon")
    /\ end' = Closed("client", "TimedOut")
    /\ LostIfClosed("client")
    /\ UNCHANGED <<mode, pipe, asked, served>>

\* The process goes away; for the daemon, also stop_all() shutting the socket down.
HangUp(e) ==
    /\ Open(e)
    /\ end' = Closed(e, "Ok")
    /\ UNCHANGED <<mode, pipe, call, served>>

-----------------------------------------------------------------------------
(* client::Connection. *)

\* put_item and recommend check before they send.
RefusedLocally(m) ==
    \/ m.type = "PutItemRequest" /\ ~WithinLimits(m)
    \/ m.type = "RecommendRequest" /\ (m.body[3] = 0 \/ ~WithinLimits(m))

NextRequest(i) == [type |-> Requests[i].type, id |-> asked.id + 1, body |-> Requests[i].body]

\* call() of one of our clients, up to write_all; a frame too large fails there, and the
\* connection with it.
Sending(m, body) ==
    /\ asked' = m
    /\ end' = IF Fits(Len(body)) THEN Writing("client", Framed(body))
              ELSE Closed("client", "Oversized")
    /\ outcome' = IF Fits(Len(body)) THEN NoOutcome
                  ELSE [NoOutcome EXCEPT !.status = "ConnectionLost"]

Call ==
    /\ end["client"].at = "idle" /\ asked.id < MaxCalls /\ foreign # "client"
    /\ \E i \in DOMAIN Requests :
          LET m == NextRequest(i)
          IN  IF RefusedLocally(m)
              THEN /\ outcome' = [NoOutcome EXCEPT !.status = "InvalidRequest"]
                   /\ UNCHANGED <<end, asked>>
              ELSE Sending(m, Encode(codec, m))
    /\ UNCHANGED <<mode, pipe, served>>

\* Any of the frames a foreign end may send.
WritingAny(e, frames) == \E j \in DOMAIN frames : end' = Writing(e, frames[j])

\* The same from a client that is not ours.
CallForeign ==
    /\ end["client"].at = "idle" /\ asked.id < MaxCalls /\ foreign = "client"
    /\ \E i \in DOMAIN Requests :
          /\ asked' = NextRequest(i)
          /\ WritingAny("client", Mangled(codec, NextRequest(i)))
    /\ outcome' = NoOutcome
    /\ UNCHANGED <<mode, pipe, served>>

\* The response each request is answered with, for expect<>.
Expected ==
    [GetItemRequest |-> "GetItemResponse", PutItemRequest |-> "PutItemResponse",
     DeleteItemRequest |-> "DeleteItemResponse", StatsRequest |-> "StatsResponse",
     RecommendRequest |-> "RecommendResponse"]

\* What the call returns for a response, and whether it closes the stream.
Returned(r) ==
    IF r.error # "None" \/ r.id # asked.id THEN "ProtocolError"
    ELSE IF r.message.type = "ErrorResponse"
         THEN IF r.message.body[1] = InvalidRequest THEN "InvalidRequest" ELSE "ServerError"
    ELSE IF r.message.type # Expected[asked.type] THEN "ProtocolError"
    ELSE IF r.message.type \in {"GetItemResponse", "DeleteItemResponse"}
            /\ r.message.body[1] = NotFound THEN "NotFound"
    ELSE "Ok"

Received(r) ==
    /\ outcome' = [status |-> Returned(r), response |-> r.message]
    /\ end' = IF r.error # "None" \/ r.id # asked.id THEN Closed("client", "Ok")
              ELSE [end EXCEPT !["client"] = [Reading EXCEPT !.at = "idle"]]

Receive ==
    /\ end["client"].at = "decode"
    /\ Received(Decode(codec, end["client"].got, TRUE))
    /\ UNCHANGED <<mode, pipe, asked, served>>

-----------------------------------------------------------------------------
(* Server::serve_connection. *)

\* make_error; the text of the reason is one byte.
MakeError(id, status) == [type |-> "ErrorResponse", id |-> id, body |-> <<status, <<70>>>>]

Answering(body) ==
    end' = IF Fits(Len(body)) THEN Writing("daemon", Framed(body)) ELSE Closed("daemon", "Oversized")

\* write_message of a response, or what a foreign daemon sends for it.
Reply(m) ==
    /\ replied' = m
    /\ IF foreign = "daemon" THEN WritingAny("daemon", Mangled(codec, m))
       ELSE Answering(Encode(codec, m))

\* A request that is only too large is answered; any other that does not decode ends the
\* connection.
Served(r) ==
    CASE r.error = "None" ->
             /\ handled' = r.message
             /\ \E i \in DOMAIN Replies(r.message) : Reply(Replies(r.message)[i])
      [] r.error = "FieldTooLarge" ->
             /\ Reply(MakeError(r.id, InvalidRequest))
             /\ UNCHANGED handled
      [] OTHER ->
             /\ end' = Closed("daemon", "Ok")
             /\ UNCHANGED served

\* A whole frame: decode, handle and start on the answer.
Serve ==
    /\ end["daemon"].at = "decode"
    /\ Served(Decode(codec, end["daemon"].got, FALSE))
    /\ UNCHANGED <<mode, pipe, call>>

-----------------------------------------------------------------------------
Init ==
    /\ codec \in Codecs /\ foreign \in Ends \cup {"none"}
    /\ end = [e \in Ends |-> IF e = "client" THEN [Reading EXCEPT !.at = "idle"] ELSE Reading]
    /\ pipe = [e \in Ends |-> <<>>]
    /\ asked = NoMessage /\ outcome = NoOutcome
    /\ handled = NoMessage /\ replied = NoMessage

Next ==
    \/ \E e \in Ends : WriteSome(e) \/ WriteFails(e) \/ ReadSome(e) \/ ReadEnds(e) \/ HangUp(e)
    \/ TimesOut \/ Call \/ CallForeign \/ Receive \/ Serve

Spec == Init /\ [][Next]_vars

-----------------------------------------------------------------------------
Same(a, b) == a.type = b.type /\ a.id = b.id /\ a.body = b.body

\* Every limit of message.hpp, on the message itself.
Admissible(m) == ListsWithinLimits(m) /\ WithinLimits(m)

\* Between two ends of ours, whatever the splits, hang-ups and timeouts, and with either
\* codec: the daemon's handler is given exactly the request the client asked, and only one
\* that respects the limits; a call that returns an answer returns the daemon's response
\* to that very request; a request over a limit is told so, and never as a protocol error
\* (BinaryCodec and ProtobufCodec decode, serve_connection's rejection, Connection::call).
EndToEnd ==
    foreign = "none" =>
        /\ handled.id = asked.id /\ asked.id > 0 => Same(handled, asked) /\ Admissible(asked)
        /\ outcome.status \in {"Ok", "NotFound", "ServerError"} =>
              Same(handled, asked) /\ Same(outcome.response, replied)
        /\ outcome.status # "ProtocolError"
        /\ \A e \in Ends : end[e].verdict = "Oversized" =>
              e = "client" /\ ~Fits(Len(Encode(codec, asked)))
        /\ replied.id = asked.id /\ handled.id # asked.id => ~Admissible(asked)

\* Between two ends of ours, a reader is told of a clean hang-up exactly when the writer
\* stopped between two frames, and of a truncation exactly when it stopped inside one, even
\* right after the prefix (read_frame and from_io).
BoundariesKept ==
    foreign = "none" =>
        \A e \in Ends :
            LET sent == end[Peer(e)].whole - Len(end[Peer(e)].left)
                inside == 0 < sent /\ sent < end[Peer(e)].whole
            IN  /\ end[e].verdict = "PeerClosed" => ~inside
                /\ end[e].verdict = "Truncated" /\ end[e].left = <<>> => inside

Reproduces(got, m, again) ==
    /\ Len(again) = Len(got)
    /\ \A i \in DOMAIN got :
           \/ again[i] = got[i]
           \/ m.type = "RecommendRequest" /\ i = Len(got) /\ again[i] = 1

Canonical(got, r) ==
    r.error = "None" => Reproduces(got, r.message, EncodeBinary(r.message))

\* Whatever the sender, a body that the binary decoder accepts is the one encoding of the
\* message it yields, apart from the byte of dry_run, which is any value but zero: no
\* length, count or leftover byte was overlooked (ByteReader, finish, decode).
AcceptedIsCanonical ==
    codec = "binary" =>
        \A e \in Ends :
            end[e].at = "decode" => Canonical(end[e].got, DecodeBinary(end[e].got, e = "client"))
=============================================================================
