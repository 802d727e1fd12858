---------------------------- MODULE MCRedisFraming --------------------------
(* Requests whose arguments look like the framing, are empty or have a     *)
(* two-digit length, windows and exclusive scores with good and bad bounds *)
(* (the one-byte names Z and B stand for "zrange" and "zrangebyscore"),    *)
(* and SSDB packets between them.                                          *)
EXTENDS RedisFraming

Z == <<90>>
B == <<66>>
K == <<107>>
N == <<49>>      \* "1"
X == <<120>>     \* "x", no number
Y == <<49, 50, 120>>  \* "12x", no number and over LongMax

MCRedis(bodies) == [redis |-> TRUE, bodies |-> bodies, eol |-> CRLF, lead |-> <<>>]
MCSsdb(bodies, eol, lead) ==
  [redis |-> FALSE, bodies |-> bodies, eol |-> eol, lead |-> lead]

\* Bodies that are empty, look like a line or its end, have a two-digit length.
MCBodies == { <<>>, <<49, 10>>, CRLF, [i \in 1..10 |-> 50] }

MCSsdbPackets ==
  { MCSsdb(bs, eol, <<>>) : bs \in BoundedSeq(MCBodies, 2) \ {<<>>},
                            eol \in {<<10>>, CRLF} }
    \cup { MCSsdb(<<b>>, eol, <<10>>) : b \in MCBodies, eol \in {<<10>>, CRLF} }

MCWindows == { MCRedis(<<Z, K, N, N>>), MCRedis(<<Z, K, N, X>>),
               MCRedis(<<Z, K, X, <<32, 45, 49>>>>) }

\* "(x" to "1", "1" to "(1", "(x" to "(1", "(12x" to "1", "(x" to nothing.
MCScores == { MCRedis(<<B, K>> \o bounds) :
                bounds \in { <<<<40>> \o X, N>>, <<N, <<40>> \o N>>,
                             <<<<40>> \o X, <<40>> \o N>>,
                             <<<<40>> \o Y, N>>, <<<<40>> \o X, <<>>>> } }

MCRedisRequests ==
  MCWindows \cup MCScores \cup
  { MCRedis(<<K, CRLF, <<>>, <<42, 49>>>>),
    MCRedis(<<<<36, 49>> \o CRLF, [i \in 1..10 |-> 50]>>),
    [MCRedis(<<K>>) EXCEPT !.lead = <<10>>] }

\* Two packets of any kind, or one that follows two that use errno.
MCStreams ==
  LET plain == { MCRedis(<<K, <<>>>>), MCSsdb(<<K, <<42, 10>>>>, <<10>>, <<>>) }
      users == MCWindows \cup MCScores \cup plain
  IN  (BoundedSeq(MCSsdbPackets \cup MCRedisRequests, 2) \ {<<>>})
        \cup { <<p, q, r>> : p \in users, q \in users, r \in plain }

MCRangeCommands == { Z }
MCScoreCommands == { B }
=============================================================================
