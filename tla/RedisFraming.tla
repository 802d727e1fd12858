---------------------------- MODULE RedisFraming -----------------------------
(***************************************************************************)
(* The receiving side of a link that speaks both protocols, byte by byte.  *)
(* Link::recv looks at the first unconsumed byte: a '*' hands the input to *)
(* RedisLink::recv_req, whose parse_req looks for                          *)
(*     *N \r\n  then N times  $len \r\n  body \r\n                         *)
(* and anything else is parsed as an SSDB packet (module Framing).  Like   *)
(* recv(), parse_req starts again from the first byte until the whole      *)
(* request is there.  It also looks at errno, which strtol leaves alone    *)
(* when all is well, so what the conversion of an earlier request left in  *)
(* errno (convert_req: Bytes::Int64 of a window, str_to_int() of exclusive *)
(* scores) is part of the state.                                           *)
(***************************************************************************)
EXTENDS Framing

CONSTANTS RangeCommands, \* names that convert_req takes for zrange, zrevrange
          ScoreCommands, \* ... for zrangebyscore, zrevrangebyscore
          LongMax,       \* LONG_MAX and LLONG_MAX
          Streams        \* the sequences of packets a peer may send

\* What a peer may send: requests of either protocol, each with a name at least.
Byte == 0 .. 255

Packets == [redis : BOOLEAN, bodies : Seq(Seq(Byte)) \ {<<>>},
            eol : {<<LF>>, <<CR, LF>>}, lead : Seq(BLANK)]

ASSUME StreamsAssumption == Streams \subseteq Seq(Packets)

\* A name stands for one strategy.
ASSUME NamesAssumption == RangeCommands \cap ScoreCommands = {}

ASSUME LongAssumption == LongMax \in Nat

VARIABLES sent,          \* the packets of the stream, each with its format
          wire,          \* bytes of the stream not yet read
          buf,           \* unconsumed input, input->data() .. +size()
          got,           \* the packets recv() returned
          state,         \* "call" recv() next, "wait" for bytes, or "null"
          errno          \* "none", "EINVAL", "ERANGE" or "EAGAIN"

vars == <<sent, wire, buf, got, state, errno>>

STAR == 42
DOLLAR == 36
PLUS == 43
MINUS == 45
PAREN == 40
SPACE == 9 .. 13 \cup {32}
CRLF == <<CR, LF>>
-----------------------------------------------------------------------------
(* What a Redis client sends.                                              *)

Line(mark, n) == <<mark>> \o Decimal[n] \o CRLF

Bulk(body) == Line(DOLLAR, Len(body)) \o body \o CRLF

RedisRequest(args) ==
  Line(STAR, Len(args)) \o FlattenSeq([i \in 1..Len(args) |-> Bulk(args[i])])

Encoded(p) == IF p.redis THEN p.lead \o RedisRequest(p.bodies) ELSE SsdbPacket(p)

Stream(ps) == FlattenSeq([i \in 1..Len(ps) |-> Encoded(ps[i])])
-----------------------------------------------------------------------------
(* RedisLink::parse_req                                                    *)

\* strtol() of a line from its second character on.
NumberAt(s, at) ==
  IF at + 1 < Len(s) /\ s[at + 2] = MINUS THEN -Atoi(s, at + 2) ELSE Atoi(s, at + 1)

BodyComplete(rest, len) == len <= rest - 2

\* Of the number in the first line, which counts the arguments, or a later one.
RefusedLength(len, first) ==
  \/ errno = "EINVAL"
  \/ len < 0
  \/ first /\ len = 0

\* Mutant of NextLine: only the '\n' after a body skipped.
AfterOneByte(eoh, len) == eoh + len + 1

NextLine(eoh, len) == eoh + len + 2

\* One turn of the loop of parse_req, after those that gave the arguments r.
Argument(s, r) ==
  LET eoh == NewlineAfter(s, r.consumed)
      len == NumberAt(s, r.consumed)
  IN  IF r.kind # "packet" THEN r
      ELSE IF eoh = 0 THEN NotReady
      ELSE IF RefusedLength(len, FALSE) THEN BadFormat
      ELSE IF ~BodyComplete(Len(s) - eoh, len) THEN NotReady
      ELSE Packet(Append(r.bodies, SubSeq(s, eoh + 1, eoh + len)), NextLine(eoh, len))

ParseReq(s) ==
  LET eoh == NewlineAfter(s, 0)
      num_args == NumberAt(s, 0)
      parsed[i \in 0 .. num_args] ==
        IF i = 0 THEN Packet(<<>>, eoh) ELSE Argument(s, parsed[i - 1])
  IN  IF eoh = 0 THEN NotReady
      ELSE IF RefusedLength(num_args, TRUE) THEN BadFormat
      ELSE parsed[num_args]

IsRedis(s) == s # <<>> /\ s[1] = STAR

\* Link::recv
Recv(s) == IF IsRedis(s) THEN ParseReq(s) ELSE SsdbRecv(s)
-----------------------------------------------------------------------------
(* errno                                                                   *)

\* The number that strtol() and strtoll() find in s, after blanks and a sign:
\* where its digits start, or Len(s) when there are none.
Digits(s) ==
  LET blanks == RunEnd(s, 0, SPACE)
      signed == blanks < Len(s) /\ s[blanks + 1] \in {PLUS, MINUS}
  IN  IF signed THEN blanks + 1 ELSE blanks

\* It ends with s; the empty string is taken for a number, too.
WholeNumber(s) ==
  s = <<>> \/ (Digits(s) < Len(s) /\ RunEnd(s, Digits(s), DIGIT) = Len(s))

\* It does not fit, and strtol() sets ERANGE.
Unfit(s) ==
  LET negative == Digits(s) > 0 /\ s[Digits(s)] = MINUS
  IN  Atoi(s, Digits(s)) > IF negative THEN LongMax + 1 ELSE LongMax

\* str_to_int(), str_to_int64(): clear errno when the whole of s is a number, be
\* it too long, and set it otherwise unless it is set.
AfterNumber(e, s) ==
  IF WholeNumber(s) THEN "none"
  ELSE IF Unfit(s) THEN "ERANGE"
  ELSE IF e = "none" THEN "EINVAL" ELSE e

\* convert_req() reads the bounds of a zrange or zrevrange as numbers ...
HasWindow(p) == p.redis /\ Len(p.bodies) >= 4 /\ p.bodies[1] \in RangeCommands

\* ... and of a zrangebyscore or zrevrangebyscore what follows a '('.
HasScores(p) ==
  /\ p.redis /\ Len(p.bodies) >= 4 /\ p.bodies[1] \in ScoreCommands
  /\ p.bodies[3] # <<>> /\ p.bodies[4] # <<>>

Exclusive(s) == s[1] = PAREN

\* Mutant of AfterScore: an exclusive score that is no number leaves EINVAL,
\* a good one does not clear it.
AfterScoreKeeps(e, s) ==
  IF Exclusive(s) /\ ~WholeNumber(Tail(s)) THEN AfterNumber(e, Tail(s)) ELSE e

AfterScore(e, s) == IF Exclusive(s) THEN AfterNumber(e, Tail(s)) ELSE e

AfterConvert(e, p) ==
  CASE HasWindow(p) -> AfterNumber(AfterNumber(e, p.bodies[3]), p.bodies[4])
    [] HasScores(p) -> AfterScore(AfterScore(e, p.bodies[3]), p.bodies[4])
    [] OTHER        -> e
-----------------------------------------------------------------------------
Init == /\ sent \in Streams
        /\ wire = Stream(sent)
        /\ buf = <<>> /\ got = <<>> /\ state = "call" /\ errno = "none"

\* One read(), which on a non-blocking socket ends with EWOULDBLOCK.
Read(k) ==
  /\ state = "wait" /\ wire # <<>>
  /\ buf' = buf \o SubSeq(wire, 1, k)
  /\ wire' = SubSeq(wire, k + 1, Len(wire))
  /\ state' = "call"
  /\ errno' \in {errno, "EAGAIN"}
  /\ UNCHANGED <<sent, got>>

\* Mutant of CallRecv: the request stays in the buffer.
CallRecvPeeks ==
  /\ state = "call"
  /\ LET r == Recv(buf)
     IN  /\ state' = CASE r.kind = "packet" -> "call"
                       [] r.kind = "empty"  -> "wait"
                       [] r.kind = "null"   -> "null"
         /\ IF r.kind = "packet" /\ Len(got) < Len(sent)
              THEN got' = Append(got, [redis |-> IsRedis(buf), bodies |-> r.bodies])
              ELSE UNCHANGED got
  /\ UNCHANGED <<sent, wire, buf, errno>>

\* One recv(), with the decr() that consumes a packet and, after a Redis
\* request, convert_req().
CallRecv ==
  /\ state = "call"
  /\ LET r == Recv(buf)
         p == [redis |-> IsRedis(buf), bodies |-> r.bodies]
     IN  /\ state' = CASE r.kind = "packet" -> "call"
                       [] r.kind = "empty"  -> "wait"
                       [] r.kind = "null"   -> "null"
         /\ IF r.kind = "packet"
              THEN /\ got' = Append(got, p)
                   /\ buf' = SubSeq(buf, r.consumed + 1, Len(buf))
                   /\ errno' = AfterConvert(errno, p)
              ELSE UNCHANGED <<got, buf, errno>>
  /\ UNCHANGED <<sent, wire>>

Next == CallRecv \/ \E k \in 1..Len(wire) : Read(k)

Spec == Init /\ [][Next]_vars
-----------------------------------------------------------------------------
Plain(p) == [redis |-> p.redis, bodies |-> p.bodies]

EndOf(i) == Len(Stream(SubSeq(sent, 1, i)))

TypeOK ==
  /\ sent \in Streams
  /\ Len(got) <= Len(sent)
  /\ buf \o wire = SubSeq(Stream(sent), EndOf(Len(got)) + 1, Len(Stream(sent)))
  /\ \A i \in 1..Len(got) : got[i] \in [redis : BOOLEAN, bodies : Seq(Seq(Byte))]
  /\ state \in {"call", "wait", "null"}
  /\ errno \in {"none", "EINVAL", "ERANGE", "EAGAIN"}

(* Requests of both protocols come out of one stream whole, unaltered and  *)
(* in order, whatever bytes the arguments hold and wherever the pieces are *)
(* cut (link.cpp:275, link_redis.cpp:509-567).                             *)
InOrder == IsPrefix(got, [i \in 1..Len(sent) |-> Plain(sent[i])])

(* No complete request is left waiting: recv() says "not ready" only while *)
(* a byte of the next request is still to come.                            *)
ReadyWhenComplete ==
  state = "wait" =>
    \A i \in 1..Len(sent) : EndOf(i) <= Len(Stream(sent)) - Len(wire) => i <= Len(got)

\* Whether the conversion of a request reads a number, and the last one it does.
ReadsNumber(p) ==
  HasWindow(p) \/ (HasScores(p) /\ (Exclusive(p.bodies[3]) \/ Exclusive(p.bodies[4])))

LastNumber(p) ==
  CASE HasWindow(p)  -> p.bodies[4]
    [] ~HasWindow(p) -> Tail(IF Exclusive(p.bodies[4]) THEN p.bodies[4] ELSE p.bodies[3])

\* The last number read is none.  (A bad start before a good stop is forgotten,
\* and so is a bad bound before a good score: the later one clears errno.)
BadNumberBehind ==
  LET numbers == { i \in 1..Len(got) : ReadsNumber(got[i]) }
  IN  numbers # {} /\ ~WholeNumber(LastNumber(got[Max(numbers)]))

(* The three ways a well-formed stream is refused: an SSDB packet over the *)
(* limit, which is never taken either, a blank line before a '*' (recv()   *)
(* looks for the '*' before it skips blank lines), and the errno of a      *)
(* number converted earlier, a bound of zrange or an exclusive score like  *)
(* "(1.5", perhaps for a request that was answered long ago                *)
(* (link_redis.cpp:273-290, 533).                                          *)
RefusedForAReason ==
  /\ state = "null" =>
       LET p == sent[Len(got) + 1]
       IN  \/ ~p.redis /\ Oversized(p)
           \/ p.redis /\ p.lead # <<>>
           \/ p.redis /\ BadNumberBehind
  /\ \A i \in 1..Len(got) : got[i].redis \/ ~Oversized(sent[i])
=============================================================================
