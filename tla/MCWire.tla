------------------------------- MODULE MCWire -------------------------------
EXTENDS Wire

a == <<97>>
long == <<97, 98>>

Req(type, body) == [type |-> type, body |-> body]

\* A signal with text of n bytes: 41 + n bytes of the binary codec.
Signal(n) == <<<<<<[i \in 1 .. n |-> 97], 5>>>>, <<>>, 1, FALSE>>

\* Text of zero, one and two bytes where one is the limit, counts on both sides of theirs,
\* a signal that just fits in a frame and one that is a byte too long for it.
MCRequests ==
    <<Req("GetItemRequest", <<258>>),
      Req("DeleteItemRequest", <<0>>),
      Req("PutItemRequest", <<1, a, <<>>, 3, 0, 70000>>),
      Req("PutItemRequest", <<1, long, a, 3, 4, 5>>),
      Req("StatsRequest", <<>>),
      Req("RecommendRequest", <<<<>>, <<>>, 1, TRUE>>),
      Req("RecommendRequest", <<<<<<a, 5>>>>, <<<<a>>>>, 1, FALSE>>),
      Req("RecommendRequest", <<<<<<long, 5>>>>, <<>>, 1, FALSE>>),
      Req("RecommendRequest", <<<<<<a, 5>>, <<a, 6>>>>, <<>>, 1, FALSE>>),
      Req("RecommendRequest", <<<<>>, <<<<long>>>>, 1, FALSE>>),
      Req("RecommendRequest", <<<<>>, <<>>, 2, FALSE>>),
      Req("RecommendRequest", Signal(MaxFrame - 41)),
      Req("RecommendRequest", Signal(MaxFrame - 40))>>

Resp(m, type, body) == [type |-> type, id |-> m.id, body |-> body]

MCReplies(m) ==
    CASE m.type = "GetItemRequest" ->
             <<Resp(m, "GetItemResponse", <<Ok, 258, a, <<>>, 3, 0, 0>>),
               Resp(m, "GetItemResponse", <<NotFound>>)>>
      [] m.type = "PutItemRequest" ->
             <<Resp(m, "PutItemResponse", <<Ok>>), MakeError(m.id, InvalidRequest)>>
      [] m.type = "DeleteItemRequest" ->
             <<Resp(m, "DeleteItemResponse", <<Ok>>), Resp(m, "DeleteItemResponse", <<NotFound>>)>>
      [] m.type = "StatsRequest" ->
             <<Resp(m, "StatsResponse", <<Ok>> \o [i \in 1 .. 15 |-> i % 3])>>
      [] m.type = "RecommendRequest" ->
             <<Resp(m, "RecommendResponse", <<Ok, <<>>>>),
               Resp(m, "RecommendResponse", <<Ok, <<<<7, 9, a, a>>>>>>),
               MakeError(m.id, Internal)>>

\* A peer of another version, or a faulty one: one byte of the header or the last byte is
\* another; a count or a length says less or more than there is, or more than any frame
\* could hold; the body is cut or has a byte more; the prefix is wrong.
Changed(s, i, v) == IF i \in DOMAIN s THEN [s EXCEPT ![i] = v] ELSE s

\* Where some counts and lengths of a message end; 24 is the length of a text that a number
\* follows, or a count.
Counted(type) ==
    CASE type = "PutItemRequest" -> <<28>>
      [] type = "RecommendRequest" -> <<20, 24>>
      [] type = "GetItemResponse" -> <<29>>
      [] type = "RecommendResponse" -> <<21, 41>>
      [] type = "ErrorResponse" -> <<21>>
      [] OTHER -> <<>>

\* All that is left of the body, a byte more, a number no frame can hold, and nothing.
Miscounted(at, body, n) ==
    [i \in DOMAIN at |-> Framed(Changed(body, at[i], n - at[i]))]
    \o [i \in DOMAIN at |-> Framed(Changed(body, at[i], n - at[i] + 1))]
    \o [i \in DOMAIN at |-> Framed(Changed(body, at[i] - 3, 64))]
    \o [i \in DOMAIN at |-> Framed(IF at[i] = 24 THEN body ELSE Changed(body, at[i], 0))]

Variants(c, type, body, n) ==
    IF c = "binary"
    THEN <<Framed(Changed(body, 4, 0)), Framed(Changed(body, 5, 2)),
           Framed(Changed(body, 6, 7)), Framed(Changed(body, 6, 130)),
           Framed(Changed(body, 6, 4)), Framed(Changed(body, 8, 1)),
           Framed(Changed(body, 16, 9)), Framed(Changed(body, n, 2)),
           Framed(SubSeq(body, 1, 3)), Framed(SubSeq(body, 1, 12)),
           Framed(SubSeq(body, 1, n - 1)), Framed(body \o <<0>>),
           AppendBE(0, 4), AppendBE(MaxFrame + 1, 4) \o body,
           AppendBE(n + 1, 4) \o body, AppendBE(n - 1, 4) \o body>>
         \o Miscounted(Counted(type), body, n)
    ELSE <<Framed(SubSeq(body, 1, 1)), Framed(SubSeq(body, 1, n - 1)),
           Framed(body \o <<FieldOf(0, 0)>>), Framed(body \o <<FieldOf(13, 0)>>),
           AppendBE(0, 4), AppendBE(MaxFrame + 1, 4) \o body>>

MCMangled(c, m) == LET body == Encode(c, m) IN Variants(c, m.type, body, Len(body))
=============================================================================
