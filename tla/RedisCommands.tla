--------------------------- MODULE RedisCommands ----------------------------
(***************************************************************************)
(* What RedisLink makes of one request and of one response                 *)
(* (src/src/net/link_redis.cpp): convert_req turns the arguments of a      *)
(* Redis command into those of an SSDB command, send_resp turns an SSDB    *)
(* response into a Redis reply with the descriptor and the arguments of    *)
(* the request.  Pure operators; module RedisLink runs them.               *)
(*                                                                         *)
(* A string is a token: a word, or a number, perhaps with the '(' that     *)
(* makes a score exclusive.  Letter case is left out (the code lowers it   *)
(* wherever it compares), and a command keeps its Redis name: which SSDB   *)
(* command has which name is of no consequence here.                       *)
(***************************************************************************)
EXTENDS Integers, SequencesExt

CONSTANT IntMax          \* the largest int

ASSUME RedisAssumption == IntMax \in Nat

Word(w)  == [word |-> w, role |-> "plain", num |-> 0]
Num(n)   == [word |-> "number", role |-> "plain", num |-> n]
Above(n) == [word |-> "number", role |-> "open", num |-> n]      \* "(n"
Empty    == Word("empty")
-----------------------------------------------------------------------------
(* cmds_raw                                                                *)

StatusCommands == {"ping", "set", "mset", "hmset", "setex", "lset"}

IntCommands ==
  {"setnx", "exists", "incr", "decr", "ttl", "expire", "getbit", "setbit",
   "strlen", "bitcount", "hset", "hexists", "del", "incrby", "decrby", "hdel",
   "hmdel", "hlen", "hincrby", "zcard", "zrem", "zrank", "zrevrank", "zcount",
   "zremrangebyrank", "zremrangebyscore", "zadd", "lpush", "rpush", "llen",
   "lsize", "dbsize"}

BulkCommands ==
  {"get", "getset", "substr", "getrange", "hget", "zscore", "zincrby", "lpop",
   "rpop", "lindex"}

KeyedCommands == {"mget", "hmget"}
RankCommands  == {"zrange", "zrevrange"}
ScoreCommands == {"zrangebyscore", "zrevrangebyscore"}

ListCommands ==
  {"keys", "hgetall", "hkeys", "hvals", "lrange"}
    \cup KeyedCommands \cup RankCommands \cup ScoreCommands

cmd_table == StatusCommands \cup IntCommands \cup BulkCommands \cup ListCommands

\* req_desc: the row of a command, NULL for one that is not in the table.
NoDesc == "NULL"

\* Mutant of Desc: a row for every command, as the map's operator[] would make.
DescOfAny(args) == args[1].word

Desc(args) == IF args[1].word \in cmd_table THEN args[1].word ELSE NoDesc
-----------------------------------------------------------------------------
(* convert_req: arguments are numbered from 1, the command being the first *)

AllOfThem == Num(2000000000)

\* zadd: score and member of every whole pair, the other way round.
SwappedPairs(args) ==
  [ i \in 1 .. 2 * ((Len(args) - 2) \div 2) |->
      IF i % 2 = 1 THEN args[i + 3] ELSE args[i + 1] ]

\* Mutant of WindowSize: the end of the window as an offset, not a position.
WindowSizeShort(start, end) == IF end = -1 THEN -1 ELSE end - start

WindowSize(start, end) == IF end = -1 THEN -1 ELSE end - start + 1

\* zrange, zrevrange: a window the code cannot express sends no arguments.
Window(args) ==
  LET start == args[3].num  end == args[4].num
  IN  IF end = -1 \/ (start >= 0 /\ end >= 0)
        THEN <<args[2], args[3], Num(WindowSize(start, end))>>
        ELSE <<>>

\* str_to_int(): a long cut down to an int.
ToInt(n) == ((n + IntMax + 1) % (2 * (IntMax + 1))) - (IntMax + 1)

Infinite(t) == t.word \in {"-inf", "+inf"} /\ t.role = "plain"

\* Mutant of Bound: an exclusive score taken for an inclusive one.
BoundInclusive(t, delta) == IF Infinite(t) THEN Empty ELSE Num(t.num)

Bound(t, delta) ==
  CASE Infinite(t)                       -> Empty
    [] ~Infinite(t) /\ t.role = "open"   -> Num(ToInt(t.num) + delta)
    [] ~Infinite(t) /\ t.role # "open"   -> t

\* The two arguments after LIMIT.
Limited(acc, t) ==
  CASE ~acc.limit                        -> acc
    [] acc.limit /\ acc.offset = Empty   -> [acc EXCEPT !.offset = t]
    [] acc.limit /\ acc.offset # Empty   -> [acc EXCEPT !.count = t, !.limit = FALSE]

\* One argument after the bounds of zrangebyscore.
Option(acc, t) ==
  LET read == Limited(acc, t)
  IN  [read EXCEPT !.limit  = @ \/ t.word = "limit",
                   !.scores = IF t.word = "withscores" THEN t ELSE @]

NoOptions == [limit |-> FALSE, offset |-> Empty, count |-> Empty, scores |-> Empty]

Options(args) ==
  LET read[i \in 4 .. Len(args)] ==
        IF i = 4 THEN NoOptions ELSE Option(read[i - 1], args[i])
  IN  read[Len(args)]

Otherwise(t, default) == IF t = Empty THEN default ELSE t

\* zrangebyscore takes its bounds upwards, zrevrangebyscore downwards.
ScoreRange(args) ==
  LET up == args[1].word = "zrangebyscore"
      o  == Options(args)
  IN  << args[1], args[2], Empty,
         Bound(args[3], IF up THEN 1 ELSE -1), Bound(args[4], IF up THEN -1 ELSE 1),
         Otherwise(o.offset, Num(0)), Otherwise(o.count, AllOfThem), o.scores >>

\* recv_string: what the server is asked.
Convert(args) ==
  LET c == args[1].word  n == Len(args)  alone == <<args[1]>>
  IN  CASE c \in {"hkeys", "hvals"} ->
             IF n = 2 THEN <<args[1], args[2], Empty, Empty, AllOfThem>> ELSE alone
        [] c \in {"setex", "zincrby"} ->
             IF n = 4 THEN <<args[1], args[2], args[4], args[3]>> ELSE alone
        [] c = "zadd" ->
             IF n >= 2 THEN <<args[1], args[2]>> \o SwappedPairs(args) ELSE alone
        [] c \in {"zremrangebyrank", "zremrangebyscore"} ->
             IF n >= 4 THEN SubSeq(args, 1, 4) ELSE alone
        [] c \in RankCommands ->
             alone \o (IF n >= 4 THEN Window(args) ELSE <<>>)
                   \o (IF n > 4 THEN <<args[5]>> ELSE <<>>)
        [] c \in ScoreCommands ->
             IF n < 4 \/ Empty \in {args[3], args[4]} THEN alone ELSE ScoreRange(args)
        [] OTHER -> args
-----------------------------------------------------------------------------
(* send_resp.  A reply is its type, the number of elements it announces    *)
(* and its elements; "cut" is a reply that lacks its last line end.        *)

Reply(type, vals) == [type |-> type, count |-> Len(vals), vals |-> vals]
Multi(count, vals) == [type |-> "multi", count |-> count, vals |-> vals]
Cut == Reply("cut", <<>>)
Nil == Word("nil")

Ok(vals) == <<Word("ok")>> \o vals

\* Mutant of Matched: the response is walked in step with the keys.
MatchedInStep(keys, resp) ==
  [ j \in 0 .. Len(keys) |-> 2 + 2 * j ]

\* mget, hmget: matched[j] is where in resp the loop looks after j keys.
Matched(keys, resp) ==
  LET at[j \in 0 .. Len(keys)] ==
        IF j = 0 THEN 2
        ELSE IF at[j - 1] <= Len(resp) /\ resp[at[j - 1]] = keys[j]
               THEN at[j - 1] + 2 ELSE at[j - 1]
  IN  at

\* The value after a key that matches, nil for one that does not.
ValuesOf(keys, resp) ==
  LET at == Matched(keys, resp)
  IN  [ j \in 1 .. Len(keys) |->
          IF at[j - 1] <= Len(resp) /\ resp[at[j - 1]] = keys[j]
            THEN resp[at[j - 1] + 1] ELSE Nil ]

KeysAsked(desc, strings) == SubSeq(strings, IF desc = "mget" THEN 2 ELSE 3, Len(strings))

WithScores(desc, strings) ==
  /\ desc \in RankCommands => Len(strings) >= 5 /\ strings[5].word = "withscores"
  /\ desc \in ScoreCommands => strings[Len(strings)].word = "withscores"

\* Mutant of EverySecond: the loop does not skip the scores.
EveryOne(vals) == vals

EverySecond(vals) == [ i \in 1 .. (Len(vals) + 1) \div 2 |-> vals[2 * i - 1] ]

SendResp(desc, strings, resp) ==
  LET vals   == Tail(resp)
      status == resp[1].word
  IN  CASE status = "not_found" -> Reply("nil", <<>>)
        [] status \notin {"ok", "not_found"} -> Reply("error", <<>>)
        [] status = "ok" /\ desc \in StatusCommands \cup {NoDesc} -> Reply("status", <<>>)
        [] status = "ok" /\ desc \in KeyedCommands ->
             IF Len(resp) % 2 # 1 THEN Cut
             ELSE Reply("multi", ValuesOf(KeysAsked(desc, strings), resp))
        [] status = "ok" /\ desc \in BulkCommands ->
             IF vals = <<>> THEN Cut ELSE Reply("bulk", <<vals[1]>>)
        [] status = "ok" /\ desc \in IntCommands ->
             IF vals = <<>> THEN Cut ELSE Reply("int", <<vals[1]>>)
        [] status = "ok" /\ desc \in ListCommands \ KeyedCommands ->
             IF WithScores(desc, strings) THEN Reply("multi", vals)
             ELSE Multi(Len(vals) \div 2, EverySecond(vals))
=============================================================================
