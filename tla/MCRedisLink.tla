---------------------------- MODULE MCRedisLink -----------------------------
(* Small instances of RedisLink.  An int counts to 7, so that 12 is a      *)
(* score an int cannot hold.                                               *)
EXTENDS RedisLink

k1 == Word("k1")
k2 == Word("k2")
z == Word("z")
Inf == Word("+inf")
NegInf == Word("-inf")
ws == Word("withscores")
lim == Word("limit")

Command(name, args) == <<Word(name)>> \o args

MCSimple ==
  { Command("ping", <<>>), Command("set", <<k1, Num(5)>>), Command("get", <<k1>>),
    Command("incr", <<k1>>), Command("keys", <<>>), Command("unknown", <<k1>>),
    Command("setex", <<k1, Num(3), Num(5)>>), Command("hgetall", <<z>>),
    Command("hkeys", <<z>>), Command("zadd", <<z, Num(1), k1, Num(2), k2>>),
    Command("zremrangebyrank", <<z, Num(0), Num(1)>>) }

MCKeyed ==
  { Command("mget", <<k1, k2, k1>>), Command("mget", <<k2>>),
    Command("hmget", <<z, k2, k1>>) }

MCWindows ==
  { Command(c, <<z, Num(b[1]), Num(b[2])>> \o o) :
      c \in RankCommands, o \in {<<>>, <<ws>>},
      b \in {<<0, 1>>, <<1, 5>>, <<1, 0>>, <<2, 0>>, <<1, -1>>, <<0, -2>>} }

MCBounds ==
  { <<NegInf, Inf>>, <<Inf, NegInf>>, <<Num(1), Above(3)>>, <<Above(1), Num(3)>>,
    <<Above(3), Above(1)>>, <<Num(3), Num(1)>>, <<Above(12), Inf>> }

MCOptions ==
  { <<>>, <<ws>>, <<lim, Num(1), Num(1)>>, <<ws, lim, Num(0), Num(2)>>,
    <<lim, Num(1), Num(-1), ws>> }

MCScores ==
  { Command(c, <<z>> \o b \o o) : c \in ScoreCommands, b \in MCBounds, o \in MCOptions }

MCRequests == MCSimple \cup MCKeyed \cup MCWindows \cup MCScores

MCStores == { [found |-> f, scores |-> s] : f \in {{}, {k2}, {k1, k2}},
                                            s \in {{}, {1}, {1, 2, 3}} }
MCFailures == { "error", "noauth" }
=============================================================================
