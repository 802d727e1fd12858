------------------------------ MODULE RedisLink ------------------------------
(***************************************************************************)
(* The serving end of a link.  Link::recv creates the RedisLink at the     *)
(* first request that begins with '*'; recv_req keeps the descriptor and   *)
(* the arguments of the latest Redis request in it; Link::send encodes     *)
(* every response with them from then on.  The application takes requests  *)
(* with recv() and answers them with send(), each in its turn; nothing in  *)
(* the code makes it answer one before it takes the next.                  *)
(*                                                                         *)
(* The data behind the application is external: a set of keys that have a  *)
(* value, and a sorted set whose members are known by their scores.        *)
(***************************************************************************)
EXTENDS RedisCommands

CONSTANTS Requests,      \* Redis requests a client may send
          Stores,        \* the data: [found, scores]
          Failures,      \* statuses of a response other than ok and not_found
          MaxReceived,   \* bound: requests received
          MaxPending     \* bound: requests received and not yet answered

Tokens == [word : STRING, role : STRING, num : Int]

\* parse_req() refuses a request without arguments.
ASSUME RedisLinkAssumption ==
  /\ MaxReceived \in Nat /\ MaxPending \in Nat
  /\ Requests \subseteq Seq(Tokens) \ {<<>>}
  /\ \A s \in Stores : IsFiniteSet(s.scores) /\ s.scores \subseteq Int
  /\ Failures \subseteq STRING \ {"ok"}

VARIABLES store,         \* the data behind the application
          redis,         \* Link::redis has been created
          desc,          \* RedisLink::req_desc
          strings,       \* RedisLink::recv_string
          received,      \* requests received
          pending,       \* requests the application has not answered
          last           \* history: the last exchange that was completed

vars == <<store, redis, desc, strings, received, pending, last>>

Plain == <<Word("ssdb")>>     \* a request in the SSDB protocol

Pending(args, asked, isRedis) ==
  [args |-> args, asked |-> asked, redis |-> isRedis, at |-> received + 1]

\* Mutant of RecvRedis: the descriptor is looked up for the first request only.
RecvRedisOnce(args) ==
  /\ received < MaxReceived /\ Len(pending) < MaxPending
  /\ redis' = TRUE
  /\ desc' = IF redis THEN desc ELSE Desc(args)
  /\ strings' = Convert(args)
  /\ received' = received + 1
  /\ pending' = Append(pending, Pending(args, Convert(args), TRUE))
  /\ UNCHANGED <<store, last>>

RecvRedis(args) ==
  /\ received < MaxReceived /\ Len(pending) < MaxPending
  /\ redis' = TRUE
  /\ desc' = Desc(args)
  /\ strings' = Convert(args)
  /\ received' = received + 1
  /\ pending' = Append(pending, Pending(args, Convert(args), TRUE))
  /\ UNCHANGED <<store, last>>

RecvSsdb ==
  /\ received < MaxReceived /\ Len(pending) < MaxPending
  /\ received' = received + 1
  /\ pending' = Append(pending, Pending(Plain, Plain, FALSE))
  /\ UNCHANGED <<store, redis, desc, strings, last>>

\* Link::send(const std::vector<std::string> &)
Send(resp) == IF redis THEN SendResp(desc, strings, resp) ELSE Reply("ssdb", resp)

Answer(resp) ==
  LET p == Head(pending)
  IN  /\ last' = [args |-> p.args, asked |-> p.asked, redis |-> p.redis,
                  resp |-> resp, reply |-> Send(resp),
                  alone |-> p.at = received, spoken |-> redis]
      /\ pending' = Tail(pending)
      /\ UNCHANGED <<store, redis, desc, strings, received>>
-----------------------------------------------------------------------------
(* The SSDB server's answers, as far as the adaptor relies on them.        *)

Value(key)   == [key EXCEPT !.role = "value"]
Member(s)    == [word |-> "member", role |-> "plain", num |-> s]

\* The keys of `keys` that have a value, each with it, in the order asked.
Entry(key)  == IF key \in store.found THEN <<key, Value(key)>> ELSE <<>>
Found(keys) == FlattenSeq([ j \in 1 .. Len(keys) |-> Entry(keys[j]) ])

\* The i-th score has i - 1 scores before it.
Upwards(S) ==
  [ i \in 1 .. Cardinality(S) |-> CHOOSE s \in S : Cardinality({ t \in S : t < s }) = i - 1 ]
Downwards(S) ==
  [ i \in 1 .. Cardinality(S) |-> CHOOSE s \in S : Cardinality({ t \in S : t > s }) = i - 1 ]
Ordered(c, S) == IF c \in {"zrange", "zrangebyscore"} THEN Upwards(S) ELSE Downwards(S)

WithTheirScores(s) == FlattenSeq([ j \in 1 .. Len(s) |-> <<Member(s[j]), Num(s[j])>> ])

\* At most `limit` elements after the first `offset`; -1 is no limit.
Slice(s, offset, limit) ==
  IF offset < 0 THEN <<>>
  ELSE SubSeq(s, offset + 1, IF limit = -1 \/ offset + limit > Len(s)
                               THEN Len(s) ELSE offset + limit)

\* The scores between two bounds given in the order of the scan.
Within(c, first, second) ==
  LET lo == IF c = "zrangebyscore" THEN first ELSE second
      hi == IF c = "zrangebyscore" THEN second ELSE first
  IN  { s \in store.scores : /\ lo = Empty \/ lo.num <= s
                             /\ hi = Empty \/ s <= hi.num }

ClientError == <<Word("client_error")>>

\* The responses to a request that does not fail.
Answers(asked) ==
  LET c == asked[1].word  n == Len(asked)
  IN  CASE c \in KeyedCommands -> { Ok(Found(KeysAsked(c, asked))) }
        [] c \in RankCommands ->
             IF n < 4 THEN { ClientError }
             ELSE { Ok(WithTheirScores(Slice(Ordered(c, store.scores),
                                             asked[3].num, asked[4].num))) }
        [] c \in ScoreCommands ->
             IF n < 7 THEN { ClientError }
             ELSE { Ok(WithTheirScores(Slice(Ordered(c, Within(c, asked[4], asked[5])),
                                             asked[6].num, asked[7].num))) }
        [] c = "hgetall" -> { Ok(WithTheirScores(Upwards(store.scores))) }
        [] c \in {"keys", "lrange", "hkeys", "hvals"} -> { Ok(SetToSeq(store.found)) }
        [] c \in BulkCommands -> { Ok(<<Num(7)>>), Ok(<<>>), <<Word("not_found")>> }
        [] c \in IntCommands -> { Ok(<<Num(1)>>), Ok(<<>>) }
        [] OTHER -> { Ok(<<>>), Ok(<<Num(1)>>) }

Respond ==
  /\ pending # <<>>
  /\ \E resp \in Answers(Head(pending).asked) \cup { <<Word(f)>> : f \in Failures } :
       Answer(resp)
-----------------------------------------------------------------------------
NothingYet == [args |-> Plain, asked |-> Plain, redis |-> FALSE, resp |-> ClientError,
               reply |-> Reply("ssdb", ClientError), alone |-> FALSE, spoken |-> FALSE]

Init == /\ store \in Stores
        /\ redis = FALSE /\ desc = NoDesc /\ strings = <<>>
        /\ received = 0 /\ pending = <<>>
        /\ last = NothingYet

Next == (\E args \in Requests : RecvRedis(args)) \/ RecvSsdb \/ Respond

Spec == Init /\ [][Next]_vars
-----------------------------------------------------------------------------
TypeOK ==
  /\ store \in Stores
  /\ redis \in BOOLEAN
  /\ desc \in cmd_table \cup {NoDesc}
  /\ received \in 0 .. MaxReceived
  /\ Len(pending) <= MaxPending
  /\ \A i \in 1 .. Len(pending) : pending[i].at = received - Len(pending) + i
  /\ redis = FALSE => desc = NoDesc /\ \A i \in 1 .. Len(pending) : ~pending[i].redis

(* An application that answers a request before it takes the next one      *)
(* answers each with that request's own descriptor and arguments, however  *)
(* the requests before it differed (link.cpp:374, link_redis.cpp:346).  An *)
(* SSDB request gets an SSDB reply only until the first Redis request.     *)
ReplyOfItsRequest ==
  last.alone =>
    IF last.redis
      THEN last.reply = SendResp(Desc(last.args), Convert(last.args), last.resp)
      ELSE last.spoken \/ last.reply = Reply("ssdb", last.resp)

\* A reply that a Redis client can delimit.
Framed(r) == r.type # "cut" /\ r.count = Len(r.vals)

(* Replies keep their framing, so the client finds the next one, except    *)
(* when an "ok" that should carry a value has none ("$0\r\n" lacks its     *)
(* second line end, link_redis.cpp:453 and 465).                           *)
RepliesFramed ==
  last.alone /\ last.redis =>
    \/ Framed(last.reply)
    \/ last.resp = Ok(<<>>) /\ Desc(last.args) \in BulkCommands \cup IntCommands

Served == last.alone /\ last.redis /\ last.resp[1].word = "ok"

(* mget and hmget: one element for each key in the order asked, its value  *)
(* or nil, for keys that are missing or asked for twice, although the      *)
(* server sends only what it found (link_redis.cpp:398-443).               *)
ValuesInRequestOrder ==
  Served /\ last.args[1].word \in KeyedCommands =>
    LET keys == KeysAsked(last.args[1].word, last.args)
    IN  /\ Len(last.reply.vals) = Len(keys)
        /\ \A j \in 1 .. Len(keys) :
             last.reply.vals[j] = IF keys[j] \in store.found THEN Value(keys[j]) ELSE Nil

\* The elements of a reply about these scores.
Elements(s, scored) == IF scored THEN WithTheirScores(s) ELSE [ j \in 1 .. Len(s) |-> Member(s[j]) ]

AsksScores(args) == \E i \in 5 .. Len(args) : args[i].word = "withscores"

\* A window that ends two or more before it starts: its size is negative, and
\* -1 is the code's way of asking for everything.
Backwards(start, end) == end # -1 /\ start > end + 1

(* zrange, zrevrange: the members from position start to position end, the *)
(* last for -1, with their scores only if asked (link_redis.cpp:201-230).  *)
(* A start counted from the end is passed on as it is.                     *)
WindowAsAsked ==
  Served /\ last.args[1].word \in RankCommands /\ Len(last.args) <= 5 =>
    LET start == last.args[3].num  end == last.args[4].num
        all   == Ordered(last.args[1].word, store.scores)
    IN  \/ start < 0 \/ Backwards(start, end)
        \/ last.reply.vals =
             Elements(SubSeq(all, start + 1,
                             IF end = -1 \/ end >= Len(all) THEN Len(all) ELSE end + 1),
                      AsksScores(last.args))

\* A bound the code turns into what it says: an exclusive one that is an int,
\* and not an infinity on the wrong side.
Exact(t, infinity) ==
  \/ t.word = infinity /\ t.role = "plain"
  \/ t.word = "number" /\ (t.role = "open" => t.num \in -IntMax .. IntMax - 1)

NotBelow(s, t) == \/ t.word = "-inf"
                  \/ t.word = "number" /\ s >= t.num /\ (t.role = "open" => s # t.num)
NotAbove(s, t) == \/ t.word = "+inf"
                  \/ t.word = "number" /\ s <= t.num /\ (t.role = "open" => s # t.num)

\* Where LIMIT stands, with an offset and a count after it.
Limits(args) == { i \in 5 .. Len(args) - 2 : args[i].word = "limit" }

\* LIMIT is given at most once and followed by two numbers.
ProperLimit(args) ==
  \A i \in 5 .. Len(args) : args[i].word = "limit" =>
    /\ Limits(args) = {i}
    /\ args[i + 1].word = "number" /\ args[i + 1].num >= 0
    /\ args[i + 2].word = "number"

(* zrangebyscore, zrevrangebyscore: the members whose scores lie between   *)
(* the bounds, inclusive or not, cut by LIMIT, with their scores only if   *)
(* asked, the options in any order (link_redis.cpp:232-311); the first     *)
(* two thousand million, if there are more.                                *)
ScoresBetween ==
  Served /\ last.args[1].word \in ScoreCommands =>
    LET a  == last.args
        lo == IF a[1].word = "zrangebyscore" THEN a[3] ELSE a[4]
        hi == IF a[1].word = "zrangebyscore" THEN a[4] ELSE a[3]
        all == Ordered(a[1].word, { s \in store.scores : NotBelow(s, lo) /\ NotAbove(s, hi) })
        cut == IF Limits(a) = {} THEN Slice(all, 0, AllOfThem.num)
               ELSE LET i == CHOOSE i \in Limits(a) : TRUE
                    IN  Slice(all, a[i + 1].num, a[i + 2].num)
    IN  Exact(lo, "-inf") /\ Exact(hi, "+inf") /\ ProperLimit(a) =>
          last.reply.vals = Elements(cut, AsksScores(a))
=============================================================================
