------------------------------- MODULE Codec --------------------------------
(***************************************************************************)
(* proto::BinaryCodec and proto::ProtobufCodec over one table of what each *)
(* message holds.  A message is [type, id, body], its body the values of   *)
(* its fields in wire order; text is a sequence of bytes and a double is   *)
(* its bit pattern, a number.  Numbers stay below 2^31.                    *)
(***************************************************************************)
EXTENDS Integers, SequencesExt

CONSTANTS
    MaxCategory,        \* kMaxCategoryLength
    MaxAdvertiser,      \* kMaxAdvertiserLength
    MaxAffinities,      \* kMaxAffinities
    MaxExcluded,        \* kMaxExcluded
    MaxRecommendCount,  \* kMaxRecommendCount
    MaxMessage          \* kMaxMessageLength

Magic == 1280459825
Version == 3
Ok == 0
NotFound == 1
InvalidRequest == 2
Internal == 3

MessageType ==
    [GetItemRequest |-> 1, PutItemRequest |-> 2, DeleteItemRequest |-> 3,
     StatsRequest |-> 4, RecommendRequest |-> 5,
     GetItemResponse |-> 129, PutItemResponse |-> 130, DeleteItemResponse |-> 131,
     StatsResponse |-> 132, RecommendResponse |-> 133, ErrorResponse |-> 255]

IsKnownType(raw) == \E t \in DOMAIN MessageType : MessageType[t] = raw
TypeOf(raw) == CHOOSE t \in DOMAIN MessageType : MessageType[t] = raw
IsResponse(type) == MessageType[type] >= 128

U(w) == [kind |-> "uint", width |-> w]
Text == [kind |-> "text"]
Flag == [kind |-> "flag"]
\* Entries, at most max of them, whose text has at most cap bytes.
Many(fields, max, cap) == [kind |-> "many", of |-> fields, max |-> max, cap |-> cap]

ItemFields == <<U(8), Text, Text, U(8), U(8), U(8)>>
SignalFields ==
    <<Many(<<Text, U(8)>>, MaxAffinities, MaxCategory),
      Many(<<Text>>, MaxExcluded, MaxCategory)>>
\* The text of a ranked item has no cap but the frame's.
RankedFields == <<Many(<<U(8), U(8), Text, Text>>, MaxRecommendCount, 2^20)>>

\* What follows the header.  An item that was not found is not sent.
Fields(type, status) ==
    CASE type \in {"GetItemRequest", "DeleteItemRequest"} -> <<U(8)>>
      [] type = "PutItemRequest" -> ItemFields
      [] type = "StatsRequest" -> <<>>
      [] type = "RecommendRequest" -> SignalFields \o <<U(4), Flag>>
      [] type = "GetItemResponse" -> <<U(1)>> \o (IF status = Ok THEN ItemFields ELSE <<>>)
      [] type \in {"PutItemResponse", "DeleteItemResponse"} -> <<U(1)>>
      [] type = "StatsResponse" -> <<U(1)>> \o [i \in 1 .. 15 |-> U(8)]
      [] type = "RecommendResponse" -> <<U(1)>> \o RankedFields
      [] type = "ErrorResponse" -> <<U(1), Text>>

StatusOf(m) == IF IsResponse(m.type) THEN m.body[1] ELSE Ok

\* The limits that are tested once the whole payload has been read.
WithinLimits(m) ==
    CASE m.type = "PutItemRequest" ->
             Len(m.body[2]) <= MaxCategory /\ Len(m.body[3]) <= MaxAdvertiser
      [] m.type = "GetItemResponse" ->
             m.body[1] = Ok =>
                 Len(m.body[3]) <= MaxCategory /\ Len(m.body[4]) <= MaxAdvertiser
      [] m.type = "RecommendRequest" -> m.body[3] <= MaxRecommendCount
      [] m.type = "ErrorResponse" -> Len(m.body[2]) <= MaxMessage
      [] OTHER -> TRUE

NoMessage == [type |-> "none", id |-> 0, body |-> <<>>]
Refusal(error, id) == [error |-> error, id |-> id, message |-> NoMessage]
Accepted(m) ==
    IF WithinLimits(m) THEN [error |-> "None", id |-> m.id, message |-> m]
    ELSE Refusal("FieldTooLarge", m.id)

-----------------------------------------------------------------------------
(* The binary codec. *)

Concat(ss) == FoldLeft(LAMBDA a, b : a \o b, <<>>, ss)

AppendBE(n, w) == [i \in 1 .. w |-> IF w - i > 3 THEN 0 ELSE (n \div 256^(w - i)) % 256]
LoadBE(bytes) == FoldLeft(LAMBDA n, b : 256 * n + b, 0, bytes)

WriteLeaf(f, v) ==
    CASE f.kind = "uint" -> AppendBE(v, f.width)
      [] f.kind = "flag" -> <<IF v THEN 1 ELSE 0>>
      [] f.kind = "text" -> AppendBE(Len(v), 4) \o v

WriteAll(fs, vs) == Concat([i \in DOMAIN fs |-> WriteLeaf(fs[i], vs[i])])

WriteField(f, v) ==
    IF f.kind = "many"
    THEN AppendBE(Len(v), 4) \o Concat([i \in DOMAIN v |-> WriteAll(f.of, v[i])])
    ELSE WriteLeaf(f, v)

EncodeHeader(m) ==
    AppendBE(Magic, 4) \o <<Version, MessageType[m.type]>> \o AppendBE(0, 2) \o AppendBE(m.id, 8)

EncodeBinary(m) ==
    LET fs == Fields(m.type, StatusOf(m))
    IN  EncodeHeader(m) \o Concat([i \in DOMAIN fs |-> WriteField(fs[i], m.body[i])])

\* ByteReader, with the values it has returned.
Reader(bytes) == [bytes |-> bytes, failed |-> FALSE, refused |-> FALSE, out |-> <<>>]

Need(r, n) == ~r.failed /\ Len(r.bytes) >= n
Return(r, v, n) ==
    [r EXCEPT !.out = Append(@, v), !.bytes = SubSeq(@, n + 1, Len(@))]
Fail(r, v) == [r EXCEPT !.failed = TRUE, !.out = Append(@, v)]

ReadUint(r, w) ==
    IF Need(r, w) THEN Return(r, LoadBE(SubSeq(r.bytes, 1, w)), w) ELSE Fail(r, 0)

ReadText(r) ==
    IF ~Need(r, 4) THEN Fail(r, <<>>)
    ELSE LET n == LoadBE(SubSeq(r.bytes, 1, 4))
         IN  IF Need(r, 4 + n) THEN Return(r, SubSeq(r.bytes, 5, 4 + n), 4 + n)
             ELSE Fail(r, <<>>)

\* A byte that counts as a bool.
AsFlag(r) == [r EXCEPT !.out[Len(r.out)] = @ # 0]

ReadLeaf(r, f) ==
    CASE f.kind = "uint" -> ReadUint(r, f.width)
      [] f.kind = "text" -> ReadText(r)
      [] f.kind = "flag" -> AsFlag(ReadUint(r, 1))

\* One entry, refused once read if its text is too long.
EntryRead(r, f, e) ==
    [e EXCEPT !.out = Append(r.out, @),
              !.refused = \E i \in DOMAIN f.of : f.of[i].kind = "text" /\ Len(e.out[i]) > f.cap]

ReadEntry(r, f) ==
    IF r.refused THEN r
    ELSE EntryRead(r, f, FoldLeft(ReadLeaf, [r EXCEPT !.out = <<>>], f.of))

\* The entries of a list whose count has been read.
ReadEntries(r, f, c) ==
    LET count == Last(c.out)
        Entry(a, i) == ReadEntry(a, f)
    IN  IF c.failed \/ count > f.max
        THEN [c EXCEPT !.refused = TRUE, !.out = Append(r.out, <<>>)]
        ELSE [FoldLeft(Entry, [c EXCEPT !.out = <<>>], [i \in 1 .. count |-> i])
                 EXCEPT !.out = Append(r.out, @)]

ReadMany(r, f) == ReadEntries(r, f, ReadUint(r, 4))

\* read_signal() returning false ends the reading.
ReadField(r, f) ==
    IF r.refused THEN r
    ELSE IF f.kind = "many" THEN ReadMany(r, f)
    ELSE ReadLeaf(r, f)

\* Mutant: leftover bytes are ignored.
FinishLeniently(r) == IF r.failed THEN "Truncated" ELSE "None"

Finish(r) ==
    IF r.failed THEN "Truncated" ELSE IF r.bytes # <<>> THEN "TrailingBytes" ELSE "None"

\* m has the first field, h all five.
HeaderError(m, h) ==
    IF m.failed THEN "Truncated"
    ELSE IF m.out[1] # Magic THEN "BadMagic"
    ELSE IF h.failed THEN "Truncated"
    ELSE IF h.out[2] # Version THEN "UnsupportedVersion"
    ELSE IF h.out[4] # 0 THEN "ReservedFlags"
    ELSE IF ~IsKnownType(h.out[3]) THEN "UnknownType"
    ELSE "None"

Header(m, h) ==
    [error |-> HeaderError(m, h), raw |-> h.out[3], id |-> h.out[5], rest |-> Reader(h.bytes)]

DecodeHeader(bytes) ==
    LET m == ReadUint(Reader(bytes), 4)
    IN  Header(m, FoldLeft(ReadLeaf, m, <<U(1), U(1), U(2), U(8)>>))

\* The payload as it was read, with the id a refusal carries.
PayloadRead(h, id, p) ==
    IF p.failed THEN Refusal("Truncated", id)
    ELSE IF p.refused THEN Refusal("FieldTooLarge", id)
    ELSE IF Finish(p) # "None" THEN Refusal(Finish(p), id)
    ELSE Accepted([type |-> TypeOf(h.raw), id |-> h.id, body |-> p.out])

ReadPayload(h) ==
    LET type == TypeOf(h.raw)
        status == IF IsResponse(type) THEN ReadUint(h.rest, 1).out[1] ELSE Ok
    IN  FoldLeft(ReadField, h.rest, Fields(type, status))

\* Mutant: the request id is assigned with the body, after the checks.
DecodePayloadLateId(h) == PayloadRead(h, 0, ReadPayload(h))

DecodePayload(h) == PayloadRead(h, h.id, ReadPayload(h))

DecodeAfter(h, wantsResponse) ==
    IF h.error # "None" THEN Refusal(h.error, 0)
    ELSE IF IsResponse(TypeOf(h.raw)) # wantsResponse THEN Refusal("WrongDirection", 0)
    ELSE DecodePayload(h)

DecodeBinary(bytes, wantsResponse) == DecodeAfter(DecodeHeader(bytes), wantsResponse)

-----------------------------------------------------------------------------
(* The protobuf codec.  An Envelope on the wire is a sequence of fields    *)
(* [num, len, value], where an arm of the oneof announces the len fields   *)
(* it holds; a field with its default value is not sent.                   *)

Arms ==
    <<"none", "GetItemRequest", "PutItemRequest", "DeleteItemRequest", "StatsRequest",
      "RecommendRequest", "GetItemResponse", "PutItemResponse", "DeleteItemResponse",
      "StatsResponse", "RecommendResponse", "ErrorResponse">>

Default(f) ==
    CASE f.kind = "uint" -> 0 [] f.kind = "flag" -> FALSE [] OTHER -> <<>>

FieldOf(num, value) == [num |-> num, len |-> 0, value |-> value]

SerializeField(num, f, v) ==
    IF f.kind = "many" THEN [i \in DOMAIN v |-> FieldOf(num, v[i])]
    ELSE IF v = Default(f) THEN <<>>
    ELSE <<FieldOf(num, v)>>

Serialize(envelope) ==
    LET fs == Fields(envelope.type, Ok)
        held == Concat([i \in DOMAIN envelope.body |->
                            SerializeField(i, fs[i], envelope.body[i])])
    IN  SerializeField(1, U(8), envelope.id)
        \o <<[num |-> SelectInSeq(Arms, LAMBDA a : a = envelope.type), len |-> Len(held),
              value |-> 0]>>
        \o held

\* ParseFromArray: a tag of zero is no field, an unknown field is skipped, and an arm has
\* to be there whole.
ParseStep(p, field) ==
    CASE field.num = 0 -> [p EXCEPT !.valid = FALSE]
      [] field.num # 0 /\ p.left > 0 ->
             LET f == Fields(p.envelope.type, Ok)[field.num]
             IN  [p EXCEPT !.left = @ - 1,
                           !.envelope.body[field.num] =
                                IF f.kind = "many" THEN Append(@, field.value) ELSE field.value]
      [] field.num = 1 /\ p.left = 0 -> [p EXCEPT !.envelope.id = field.value]
      [] field.num \in 2 .. Len(Arms) /\ p.left = 0 ->
             LET fs == Fields(Arms[field.num], Ok)
             IN  [p EXCEPT !.left = field.len,
                           !.envelope.type = Arms[field.num],
                           !.envelope.body = [i \in DOMAIN fs |-> Default(fs[i])]]
      [] OTHER -> p

Parsed(p) == [p EXCEPT !.valid = @ /\ p.left = 0]

Parse(fields) ==
    Parsed(FoldLeft(ParseStep, [valid |-> TRUE, left |-> 0, envelope |-> NoMessage], fields))

\* to_wire_status and from_wire_status: an unknown status is Internal.
WireStatus(m) ==
    IF IsResponse(m.type) /\ m.body[1] \notin Ok .. Internal
    THEN [m EXCEPT !.body[1] = Internal]
    ELSE m

EncodeProtobuf(m) == Serialize(WireStatus(m))

\* from_wire for a signal, and the count of ranked items.
ListsWithinLimits(m) ==
    \A i \in DOMAIN m.body :
        LET f == Fields(m.type, Ok)[i]
        IN  f.kind = "many" =>
                /\ Len(m.body[i]) <= f.max
                /\ \A e \in DOMAIN m.body[i], j \in DOMAIN f.of :
                       f.of[j].kind = "text" => Len(m.body[i][e][j]) <= f.cap

\* The item of an answer that is not Ok is left at its default.
FromEnvelope(m) ==
    IF m.type = "GetItemResponse" /\ m.body[1] # Ok
    THEN [m EXCEPT !.body = <<m.body[1]>>]
    ELSE m

DecodeEnvelope(m) ==
    IF ~ListsWithinLimits(m) THEN Refusal("FieldTooLarge", m.id) ELSE Accepted(m)

DecodeParsed(p, wantsResponse) ==
    IF ~p.valid THEN Refusal("Truncated", 0)
    ELSE IF p.envelope.type = "none" THEN Refusal("UnknownType", p.envelope.id)
    ELSE IF IsResponse(p.envelope.type) # wantsResponse
         THEN Refusal("WrongDirection", p.envelope.id)
    ELSE DecodeEnvelope(FromEnvelope(WireStatus(p.envelope)))

DecodeProtobuf(fields, wantsResponse) == DecodeParsed(Parse(fields), wantsResponse)

-----------------------------------------------------------------------------
Encode(codec, m) == IF codec = "binary" THEN EncodeBinary(m) ELSE EncodeProtobuf(m)
Decode(codec, body, wantsResponse) ==
    IF codec = "binary" THEN DecodeBinary(body, wantsResponse)
    ELSE DecodeProtobuf(body, wantsResponse)
=============================================================================
