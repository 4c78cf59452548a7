--------------------------- MODULE MCClientSession ---------------------------
(* Scripts of one to three requests, whole, cut short, or followed by bytes *)
(* that are not a request.                                                  *)
EXTENDS ClientSession

Req(tokens) == [tokens |-> tokens, bytes |-> EncodeCommand(tokens)]

Script(reqs, junk) ==
    LET size(i) == Len(FlattenSeq([j \in 1..i |-> reqs[j].bytes]))
    IN  [reqs  |-> [i \in DOMAIN reqs |-> reqs[i].tokens],
         bytes |-> FlattenSeq([i \in DOMAIN reqs |-> reqs[i].bytes]) \o junk,
         ends  |-> [i \in DOMAIN reqs |-> size(i)]]

Set  == Req(<<<<"S">>, <<"k">>, <<CR, LF>>>>)
SetQ == Req(<<<<"s">>, <<"q">>, <<>>>>)
Get  == Req(<<<<"g">>, <<"k">>>>)
Del  == Req(<<<<"D">>, <<"k">>>>)
Ping == Req(<<<<"P">>>>)
Echo == Req(<<<<"E">>, <<>>>>)
Save == Req(<<<<"B">>>>)
Sync == Req(<<<<"Y">>>>)
NoKey  == Req(<<<<"S">>, <<>>, <<"v">>>>)
Arity1 == Req(<<<<"D">>>>)
Empty  == Req(<<>>)
\* "*1" CR LF "$17" CR LF "P" CR LF with an int64_t of 4 bits
Wraps  == [tokens |-> <<<<"P">>>>,
           bytes  |-> <<"*", "1", CR, LF, "$", "1", "7", CR, LF, "P", CR, LF>>]

MCScripts == {
    Script(<<Set, Get>>, <<>>),
    Script(<<Set, Del>>, <<>>),
    Script(<<Save, Save>>, <<>>),
    Script(<<Sync, Set>>, <<>>),
    Script(<<NoKey, Ping>>, <<>>),
    Script(<<Empty, Arity1, Echo>>, <<>>),
    Script(<<SetQ, Save>>, <<>>),
    Script(<<Save, Sync>>, <<>>),
    Script(<<Wraps>>, <<>>),
    Script(<<Ping>>, <<"*", "1", CR, LF, "P", CR, LF>>),
    Script(<<Ping>>, <<"*", "-", "1", CR, LF, "*">>),
    Script(<<>>, <<"*", "1", CR, LF, "$", "1", CR, LF, "P", "P", CR, LF>>),
    Script(<<>>, <<"*", "1", CR, LF, "$", CR, LF>>),
    Script(<<>>, <<"P">>)}

\* The codec on short tokens, of characters that mean something to it
Tokens == UNION {[1..n -> {"a", "1", "$", "*", CR, LF}] : n \in 0..2}

ASSUME CodecAssumption ==
    \A tokens \in UNION {[1..n -> Tokens] : n \in 0..2} :
        \A after \in {<<>>, <<"*">>, <<CR, LF>>} : RoundTrip(tokens, after)

MCRdbFile == <<Unit("rdb", <<"1">>), Unit("rdb", <<"2">>)>>
=============================================================================
