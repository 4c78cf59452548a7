----------------------------- MODULE RespDecode -----------------------------
(***************************************************************************)
(* The wire format of the commands: RespDecode and RespEncode as operators *)
(* on sequences of bytes.  A byte is the name of a character.  Positions   *)
(* count from 1, where the code counts from 0.                             *)
(***************************************************************************)
EXTENDS Integers, Sequences, SequencesExt

CONSTANT IntBits            \* width of int64_t

\* Wide enough for the number of tokens of a write (the powers are spelt out
\* for the provers)
ASSUME RespDecodeAssumption ==
    /\ IntBits \in Nat /\ IntBits > 2
    /\ 2^(IntBits - 1) \in Nat /\ 2^(IntBits - 1) > 3
    /\ 2^IntBits = 2^(IntBits - 1) + 2^(IntBits - 1)

CR     == "CR"
LF     == "LF"
CRLF   == <<CR, LF>>
Digits == <<"0", "1", "2", "3", "4", "5", "6", "7", "8", "9">>

DigitValue(d) == (CHOOSE i \in 1..10 : Digits[i] = d) - 1

\* Arithmetic on int64_t, which wraps on overflow in the builds of the server
AsInt64(v) ==
    LET low == v % 2^IntBits
    IN  IF low >= 2^(IntBits - 1) THEN low - 2^IntBits ELSE low

-----------------------------------------------------------------------------

\* FindCRLF: where the first CR LF at or behind pos starts, 0 when nowhere
FindCRLF(data, pos) ==
    LET at == {i \in pos..(Len(data) - 1) : data[i] = CR /\ data[i + 1] = LF}
    IN  IF at = {} THEN 0 ELSE Min(at)

\* ParseIntegerLine: an optional minus sign, then digits only.  The callers
\* tell a line without an end ("more") from a malformed one ("error").
\* The overflow of the value is undefined in C++; it wraps as built.
ParseIntegerLine(data, pos) ==
    LET crlf   == FindCRLF(data, pos)
        line   == SubSeq(data, pos, crlf - 1)
        neg    == line # <<>> /\ line[1] = "-"
        digits == IF neg THEN Tail(line) ELSE line
        value  == FoldLeft(LAMBDA v, d : AsInt64(10 * v + DigitValue(d)),
                           0, digits)
    IN  IF crlf = 0 THEN [st |-> "more"]
        ELSE IF digits = <<>> \/ ToSet(digits) \ ToSet(Digits) # {}
        THEN [st |-> "error"]
        ELSE [st |-> "ok", pos |-> crlf + 2,
              value |-> IF neg THEN AsInt64(-value) ELSE value]

\* One turn of the loop of DecodeArrayOfBulk that checks the length of the
\* body alone, and not the CR LF behind it
BulkUnterminated(data, acc) ==
    LET size == ParseIntegerLine(data, acc.pos + 1)
        end  == size.pos + size.value
    IN  IF acc.st # "ok" THEN acc
        ELSE IF acc.pos > Len(data) THEN [acc EXCEPT !.st = "more"]
        ELSE IF data[acc.pos] # "$" THEN [acc EXCEPT !.st = "error"]
        ELSE IF size.st # "ok" THEN [acc EXCEPT !.st = size.st]
        ELSE IF size.value < 0 THEN [acc EXCEPT !.st = "error"]
        ELSE IF end - 1 > Len(data) THEN [acc EXCEPT !.st = "more"]
        ELSE [st |-> "ok", pos |-> end + 2,
              tokens |-> Append(acc.tokens, SubSeq(data, size.pos, end - 1))]

\* One turn of the loop of DecodeArrayOfBulk: the bulk at acc.pos
Bulk(data, acc) ==
    LET size == ParseIntegerLine(data, acc.pos + 1)
        end  == size.pos + size.value           \* where its CR LF must be
    IN  IF acc.st # "ok" THEN acc
        ELSE IF acc.pos > Len(data) THEN [acc EXCEPT !.st = "more"]
        ELSE IF data[acc.pos] # "$" THEN [acc EXCEPT !.st = "error"]
        ELSE IF size.st # "ok" THEN [acc EXCEPT !.st = size.st]
        ELSE IF size.value < 0 THEN [acc EXCEPT !.st = "error"]
        ELSE IF end + 1 > Len(data) THEN [acc EXCEPT !.st = "more"]
        ELSE IF SubSeq(data, end, end + 1) # CRLF
        THEN [acc EXCEPT !.st = "error"]
        ELSE [st |-> "ok", pos |-> end + 2,
              tokens |-> Append(acc.tokens, SubSeq(data, size.pos, end - 1))]

\* DecodeArrayOfBulk: st is kOk, kNeedMore or kError; the first pos - 1 bytes
\* are the frame.  The room it reserves for count tokens is not modelled: a
\* count for which there is none throws and ends the server.
DecodeArrayOfBulk(data) ==
    LET count    == ParseIntegerLine(data, 2)
        verdict(s) == [st |-> s, pos |-> 1, tokens |-> <<>>]
    IN  IF data = <<>> THEN verdict("more")
        ELSE IF data[1] # "*" THEN verdict("error")
        ELSE IF count.st # "ok" THEN verdict(count.st)
        ELSE IF count.value < 0 THEN verdict("error")
        ELSE FoldLeft(LAMBDA acc, i : Bulk(data, acc),
                      [st |-> "ok", pos |-> count.pos, tokens |-> <<>>],
                      [i \in 1..count.value |-> i])

-----------------------------------------------------------------------------

\* The decimal digits of n, the %zu and %lld of the encoder
Decimal[n \in Nat] == IF n < 10 THEN <<Digits[n + 1]>>
                      ELSE Append(Decimal[n \div 10], Digits[(n % 10) + 1])

AppendBulkString(s) == <<"$">> \o Decimal[Len(s)] \o CRLF \o s \o CRLF

AppendArrayHeader(n) == <<"*">> \o Decimal[n] \o CRLF

\* EncodeWriteCommand, and any client that sends these tokens
EncodeCommand(tokens) ==
    AppendArrayHeader(Len(tokens)) \o
    FlattenSeq([i \in DOMAIN tokens |-> AppendBulkString(tokens[i])])

\* The codec: a frame decodes to its tokens and to its own length, whatever
\* follows it, and no part of it is a frame or malformed.  The tail of a
\* truncated AOF and a request that has not arrived are recognised by that.
RoundTrip(tokens, after) ==
    LET frame == EncodeCommand(tokens)
    IN  /\ DecodeArrayOfBulk(frame \o after) =
               [st |-> "ok", pos |-> Len(frame) + 1, tokens |-> tokens]
        /\ \A n \in 0..(Len(frame) - 1) :
               DecodeArrayOfBulk(SubSeq(frame, 1, n)).st = "more"
=============================================================================
