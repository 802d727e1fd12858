-------------------------- MODULE RedisLinkProofs ---------------------------
(***************************************************************************)
(* What the Redis adaptor replies, for any requests, any data, any failures *)
(* and any number of requests waiting for their answers.                   *)
(*                                                                         *)
(* First what convert_req makes of a request and what send_resp makes of   *)
(* the server's answer to it (link_redis.cpp:164-477), one kind of command *)
(* after the other; then which request the descriptor and the arguments    *)
(* kept in RedisLink belong to, the invariant of the module; the theorems  *)
(* at the end put the two together.                                        *)
(***************************************************************************)
EXTENDS RedisLink, Recursion, SequenceTheorems, FiniteSetTheorems, TLAPS
-----------------------------------------------------------------------------
(* The kinds of commands.                                                  *)

\* Each command has one kind.
LEMMA KeyedKind ==
  ASSUME NEW c \in KeyedCommands
  PROVE  /\ c \in cmd_table /\ c # NoDesc
         /\ c \notin StatusCommands \cup {NoDesc} /\ c \notin IntCommands /\ c \notin BulkCommands
         /\ c \notin RankCommands /\ c \notin ScoreCommands
         /\ c \notin {"keys", "lrange", "hkeys", "hvals"} /\ c # "hgetall"
         /\ c \notin {"hkeys", "hvals"} /\ c \notin {"setex", "zincrby"} /\ c # "zadd"
         /\ c \notin {"zremrangebyrank", "zremrangebyscore"}
         /\ c \notin ListCommands \ KeyedCommands
  BY DEF KeyedCommands, cmd_table, NoDesc, StatusCommands, IntCommands, BulkCommands,
         RankCommands, ScoreCommands, ListCommands

\* ... ranks,
LEMMA RankKind ==
  ASSUME NEW c \in RankCommands
  PROVE  /\ c \in cmd_table /\ c # NoDesc
         /\ c \notin StatusCommands \cup {NoDesc} /\ c \notin IntCommands /\ c \notin BulkCommands
         /\ c \notin KeyedCommands /\ c \notin ScoreCommands
         /\ c \notin {"keys", "lrange", "hkeys", "hvals"} /\ c # "hgetall"
         /\ c \notin {"hkeys", "hvals"} /\ c \notin {"setex", "zincrby"} /\ c # "zadd"
         /\ c \notin {"zremrangebyrank", "zremrangebyscore"}
         /\ c \in ListCommands \ KeyedCommands
  BY DEF KeyedCommands, cmd_table, NoDesc, StatusCommands, IntCommands, BulkCommands,
         RankCommands, ScoreCommands, ListCommands

\* ... and scores.
LEMMA ScoreKind ==
  ASSUME NEW c \in ScoreCommands
  PROVE  /\ c \in cmd_table /\ c # NoDesc
         /\ c \notin StatusCommands \cup {NoDesc} /\ c \notin IntCommands /\ c \notin BulkCommands
         /\ c \notin KeyedCommands /\ c \notin RankCommands
         /\ c \notin {"keys", "lrange", "hkeys", "hvals"} /\ c # "hgetall"
         /\ c \notin {"hkeys", "hvals"} /\ c \notin {"setex", "zincrby"} /\ c # "zadd"
         /\ c \notin {"zremrangebyrank", "zremrangebyscore"}
         /\ c \in ListCommands \ KeyedCommands
  BY DEF KeyedCommands, cmd_table, NoDesc, StatusCommands, IntCommands, BulkCommands,
         RankCommands, ScoreCommands, ListCommands

\* What convert_req makes of the commands with a list of values for an answer.
LEMMA ConvertKeyed ==
  ASSUME NEW a, a[1].word \in KeyedCommands
  PROVE  Convert(a) = a
<1> PICK c : c = a[1].word  OBVIOUS
<1>1. c \in KeyedCommands  OBVIOUS
<1> QED  BY <1>1, KeyedKind, Zenon DEF Convert

\* ... with a window of positions,
LEMMA ConvertRank ==
  ASSUME NEW a, a[1].word \in RankCommands
  PROVE  Convert(a) = <<a[1]>> \o (IF Len(a) >= 4 THEN Window(a) ELSE <<>>)
                               \o (IF Len(a) > 4 THEN <<a[5]>> ELSE <<>>)
<1> PICK c : c = a[1].word  OBVIOUS
<1>1. c \in RankCommands  OBVIOUS
<1> QED  BY <1>1, RankKind, Zenon DEF Convert

\* ... and with a range of scores.
LEMMA ConvertScore ==
  ASSUME NEW a, a[1].word \in ScoreCommands
  PROVE  Convert(a) = IF Len(a) < 4 \/ Empty \in {a[3], a[4]} THEN <<a[1]>> ELSE ScoreRange(a)
<1> PICK c : c = a[1].word  OBVIOUS
<1>1. c \in ScoreCommands  OBVIOUS
<1> QED  BY <1>1, ScoreKind, Zenon DEF Convert

\* ... and what the server answers them.
LEMMA AnswersKeyed ==
  ASSUME NEW a, a[1].word \in KeyedCommands
  PROVE  Answers(a) = { Ok(Found(KeysAsked(a[1].word, a))) }
<1> PICK c : c = a[1].word  OBVIOUS
<1>1. c \in KeyedCommands  OBVIOUS
<1> QED  BY <1>1, KeyedKind, Zenon DEF Answers

\* ... to a window,
LEMMA AnswersRank ==
  ASSUME NEW a, a[1].word \in RankCommands
  PROVE  Answers(a) = IF Len(a) < 4 THEN { ClientError }
             ELSE { Ok(WithTheirScores(Slice(Ordered(a[1].word, store.scores),
                                             a[3].num, a[4].num))) }
<1> PICK c : c = a[1].word  OBVIOUS
<1>1. c \in RankCommands  OBVIOUS
<1> QED  BY <1>1, RankKind, Zenon DEF Answers

\* ... and to a range.
LEMMA AnswersScore ==
  ASSUME NEW a, a[1].word \in ScoreCommands
  PROVE  Answers(a) = IF Len(a) < 7 THEN { ClientError }
             ELSE { Ok(WithTheirScores(Slice(Ordered(a[1].word, Within(a[1].word, a[4], a[5])),
                                             a[6].num, a[7].num))) }
<1> PICK c : c = a[1].word  OBVIOUS
<1>1. c \in ScoreCommands  OBVIOUS
<1> QED  BY <1>1, ScoreKind, Zenon DEF Answers

\* ... and how an "ok" is encoded.
LEMMA SendKeyed ==
  ASSUME NEW d \in KeyedCommands, NEW s, NEW r, r[1].word = "ok"
  PROVE  SendResp(d, s, r) = IF Len(r) % 2 # 1 THEN Cut
                             ELSE Reply("multi", ValuesOf(KeysAsked(d, s), r))
<1>1. r[1].word # "not_found"  OBVIOUS
<1> QED  BY <1>1, KeyedKind DEF SendResp

\* ... for members and scores.
LEMMA SendScored ==
  ASSUME NEW d \in RankCommands \cup ScoreCommands, NEW s, NEW r, r[1].word = "ok"
  PROVE  SendResp(d, s, r) = IF WithScores(d, s) THEN Reply("multi", Tail(r))
                             ELSE Multi(Len(Tail(r)) \div 2, EverySecond(Tail(r)))
<1>1. r[1].word # "not_found"  OBVIOUS
<1> QED  BY <1>1, RankKind, ScoreKind DEF SendResp
-----------------------------------------------------------------------------
(* Members and scores.                                                     *)

\* The members in order are a sequence, one for each score.
LEMMA OrderedSeq ==
  ASSUME NEW c, NEW S, IsFiniteSet(S)
  PROVE  /\ Len(Ordered(c, S)) = Cardinality(S)
         /\ \E T : Ordered(c, S) \in Seq(T)
<1>1. Cardinality(S) \in Nat  BY FS_CardinalityType
<1> DEFINE o == Ordered(c, S)
<1>2. o = [ i \in 1 .. Cardinality(S) |-> o[i] ]
  <2> DEFINE up(i) == CHOOSE s \in S : Cardinality({ t \in S : t < s }) = i - 1
             down(i) == CHOOSE s \in S : Cardinality({ t \in S : t > s }) = i - 1
  <2>1. \/ o = [ i \in 1 .. Cardinality(S) |-> up(i) ]
        \/ o = [ i \in 1 .. Cardinality(S) |-> down(i) ]
    BY Zenon DEF Ordered, Upwards, Downwards
  <2> HIDE DEF o, up, down
  <2> QED  BY <2>1
<1>3. Len(o) = Cardinality(S) /\ o \in Seq({ o[i] : i \in 1 .. Cardinality(S) })
  <2> HIDE DEF o
  <2>1. \A i \in 1 .. Cardinality(S) : o[i] \in { o[j] : j \in 1 .. Cardinality(S) }
    OBVIOUS
  <2> QED  BY <1>1, <1>2, <2>1
<1> QED  BY <1>3

\* A slice of a sequence is a sequence.
LEMMA SliceSeq ==
  ASSUME NEW T, NEW s \in Seq(T), NEW offset \in Int, NEW limit \in Int
  PROVE  Slice(s, offset, limit) \in Seq(T)
<1>1. CASE offset < 0
  BY <1>1 DEF Slice
<1>2. CASE offset >= 0
  <2>1. PICK n \in Int : /\ n <= Len(s)
                         /\ Slice(s, offset, limit) = SubSeq(s, offset + 1, n)
    <3>1. Len(s) \in Nat  OBVIOUS
    <3>2. PICK n : n = IF limit = -1 \/ offset + limit > Len(s)
                         THEN Len(s) ELSE offset + limit
      OBVIOUS
    <3>3. n \in Int /\ n <= Len(s)  BY <3>1, <3>2
    <3>4. Slice(s, offset, limit) = SubSeq(s, offset + 1, n)
      BY <1>2, <3>2 DEF Slice
    <3> QED  BY <3>3, <3>4
  <2> QED  BY <1>2, <2>1
<1> QED  BY <1>1, <1>2

\* Members and scores by turns.
LEMMA ScoresPaired ==
  ASSUME NEW T, NEW s \in Seq(T)
  PROVE  /\ \E U : WithTheirScores(s) \in Seq(U)
         /\ Len(WithTheirScores(s)) = 2 * Len(s)
         /\ \A j \in 1 .. Len(s) : /\ WithTheirScores(s)[2 * j - 1] = Member(s[j])
                                   /\ WithTheirScores(s)[2 * j] = Num(s[j])
<1> DEFINE n == Len(s)
           U == { Member(s[j]) : j \in 1 .. n } \cup { Num(s[j]) : j \in 1 .. n }
           pairs == [ j \in 1 .. n |-> <<Member(s[j]), Num(s[j])>> ]
<1>1. n \in Nat  OBVIOUS
<1>2. \A j \in 1 .. n : <<Member(s[j]), Num(s[j])>> \in Seq(U)
  OBVIOUS
<1>3. pairs \in Seq(Seq(U)) /\ Len(pairs) = n
  <2> HIDE DEF U, n
  <2> QED  BY <1>1, <1>2
<1>4. \A j \in 1 .. n : /\ Len(pairs[j]) = 2
                        /\ pairs[j][1] = Member(s[j]) /\ pairs[j][2] = Num(s[j])
  OBVIOUS
<1>5. WithTheirScores(s) = FlattenSeq(pairs)
  BY DEF WithTheirScores
<1> HIDE DEF pairs, U, n
<1>6. /\ Len(FlattenSeq(pairs)) = 2 * Len(pairs)
      /\ \A j \in 1 .. Len(pairs) : /\ FlattenSeq(pairs)[2 * j - 1] = pairs[j][1]
                                    /\ FlattenSeq(pairs)[2 * j] = pairs[j][2]
  BY <1>3, <1>4, FlattenPairs
<1>7. FlattenSeq(pairs) \in Seq(U)
  BY <1>3, FlattenType
<1> QED  BY <1>3, <1>4, <1>5, <1>6, <1>7 DEF n

\* Every second element of members and scores is a member.
LEMMA MembersOnly ==
  ASSUME NEW T, NEW s \in Seq(T)
  PROVE  /\ EverySecond(WithTheirScores(s)) = Elements(s, FALSE)
         /\ Len(WithTheirScores(s)) \div 2 = Len(Elements(s, FALSE))
<1> DEFINE w == WithTheirScores(s)
<1>1. Len(w) = 2 * Len(s) /\ \A j \in 1 .. Len(s) : w[2 * j - 1] = Member(s[j])
  BY ScoresPaired
<1> HIDE DEF w
<1>2. Len(s) \in Nat  OBVIOUS
<1>3. (Len(w) + 1) \div 2 = Len(s) /\ Len(w) \div 2 = Len(s)
  BY <1>1, <1>2
<1>4. EverySecond(w) = [ i \in 1 .. Len(s) |-> w[2 * i - 1] ]
  BY <1>3 DEF EverySecond
<1>5. EverySecond(w) = [ i \in 1 .. Len(s) |-> Member(s[i]) ]
  BY <1>1, <1>4
<1>6. Len(Elements(s, FALSE)) = Len(s)
  BY <1>2 DEF Elements
<1> QED  BY <1>3, <1>5, <1>6 DEF Elements, w

\* The values of an "ok" are what follows it.
LEMMA OkTail ==
  ASSUME NEW U, NEW v \in Seq(U)
  PROVE  Tail(Ok(v)) = v /\ Ok(v)[1].word = "ok" /\ Len(Ok(v)) = Len(v) + 1
<1> DEFINE W == U \cup {Word("ok")}
<1>1. v \in Seq(W) /\ <<Word("ok")>> \in Seq(W)  OBVIOUS
<1>2. Ok(v) \in Seq(W) /\ Len(Ok(v)) = Len(v) + 1
  BY <1>1 DEF Ok
<1>3. Ok(v)[1].word = "ok"
  BY <1>1 DEF Ok, Word
<1>4. Tail(Ok(v)) = v
  BY <1>1 DEF Ok
<1> QED  BY <1>2, <1>3, <1>4

\* A list whose count is its length can be delimited.
LEMMA MultiFramed ==
  ASSUME NEW n, NEW e, n = Len(e)
  PROVE  Framed(Multi(n, e)) /\ Multi(n, e).vals = e
  BY DEF Multi, Framed

\* The reply to a command that lists members.
LEMMA ScoredReply ==
  ASSUME NEW d \in RankCommands \cup ScoreCommands, NEW kept,
         NEW T, NEW s \in Seq(T)
  PROVE  LET reply == SendResp(d, kept, Ok(WithTheirScores(s)))
         IN  /\ Framed(reply)
             /\ reply.vals = Elements(s, WithScores(d, kept))
<1> DEFINE w == WithTheirScores(s)
<1>1. PICK U : w \in Seq(U)  BY ScoresPaired
<1>2. Tail(Ok(w)) = w /\ Ok(w)[1].word = "ok"
  BY <1>1, OkTail
<1>3. SendResp(d, kept, Ok(w)) = IF WithScores(d, kept) THEN Reply("multi", w)
                                    ELSE Multi(Len(w) \div 2, EverySecond(w))
  BY <1>2, SendScored
<1>4. CASE WithScores(d, kept)
  <2>1. SendResp(d, kept, Ok(w)) = Reply("multi", w)  BY <1>3, <1>4
  <2>2. Elements(s, WithScores(d, kept)) = w  BY <1>4 DEF Elements
  <2> HIDE DEF w
  <2> QED  BY <2>1, <2>2 DEF Reply, Framed, w
<1>5. CASE ~WithScores(d, kept)
  <2>1. SendResp(d, kept, Ok(w)) = Multi(Len(w) \div 2, EverySecond(w))  BY <1>3, <1>5
  <2>2. EverySecond(w) = Elements(s, FALSE) /\ Len(w) \div 2 = Len(Elements(s, FALSE))
    BY MembersOnly
  <2>3. Elements(s, WithScores(d, kept)) = Elements(s, FALSE)  BY <1>5 DEF Elements
  <2> QED  BY <2>1, <2>2, <2>3, MultiFramed
<1> QED  BY <1>4, <1>5
-----------------------------------------------------------------------------
(* zrange, zrevrange.                                                     *)

\* A command, some arguments and perhaps one more.
Joins(t, x, m, l) == /\ Len(t) = 1 + Len(m) + Len(l)
                     /\ t[1] = x
                     /\ \A i \in 1 .. Len(m) : t[1 + i] = m[i]
                     /\ \A i \in 1 .. Len(l) : t[1 + Len(m) + i] = l[i]

\* The parts of what zrange becomes.
LEMMA Joined ==
  ASSUME NEW T, NEW x \in T, NEW m \in Seq(T), NEW l \in Seq(T)
  PROVE  Joins(<<x>> \o m \o l, x, m, l)
<1>1. <<x>> \in Seq(T) /\ Len(<<x>>) = 1 /\ <<x>>[1] = x
  OBVIOUS
<1> DEFINE s == <<x>> \o m
<1>2. s \in Seq(T)
  BY <1>1
<1>3. Len(s) = 1 + Len(m) /\ s[1] = x /\ \A i \in 1 .. Len(m) : s[1 + i] = m[i]
  BY <1>1
<1> HIDE DEF s
<1>4. /\ s \o l \in Seq(T) /\ Len(s \o l) = Len(s) + Len(l)
      /\ \A i \in 1 .. Len(s) : (s \o l)[i] = s[i]
      /\ \A i \in 1 .. Len(l) : (s \o l)[Len(s) + i] = l[i]
  BY <1>2, Appended
<1>5. Len(m) \in Nat /\ Len(l) \in Nat  OBVIOUS
<1>6. Joins(s \o l, x, m, l)  BY <1>2, <1>3, <1>4, <1>5 DEF Joins
<1> QED  BY <1>6 DEF s

\* A number is a number.
LEMMA NumType ==
  ASSUME NEW n
  PROVE  Num(n).num = n /\ Num(n).word = "number"
  BY DEF Num

\* A request has at least its command, and tokens for arguments.
LEMMA RequestType ==
  ASSUME NEW a \in Requests
  PROVE  a \in Seq(Tokens) /\ Len(a) \in Nat /\ Len(a) >= 1 /\ \A i \in 1 .. Len(a) : a[i] \in Tokens
<1>1. a \in Seq(Tokens) /\ a # <<>>  BY RedisLinkAssumption
<1> QED  BY <1>1, Element

\* The members of the store are as many as its scores.
LEMMA StoreType ==
  ASSUME store \in Stores, NEW c
  PROVE  /\ Len(Ordered(c, store.scores)) \in Nat
         /\ \E T : Ordered(c, store.scores) \in Seq(T)
<1>1. IsFiniteSet(store.scores)  BY RedisLinkAssumption
<1> QED  BY <1>1, OrderedSeq, FS_CardinalityType

\* The size of a window is an integer, perhaps a negative one.
LEMMA WindowSizeType ==
  ASSUME NEW start \in Int, NEW end \in Int
  PROVE  WindowSize(start, end) \in Int
  BY DEF WindowSize

\* A window that is served: what the server was asked, and the reply.
LEMMA RankServed ==
  ASSUME store \in Stores, NEW a \in Requests, a[1].word \in RankCommands,
         NEW resp \in Answers(Convert(a)), resp[1].word = "ok"
  PROVE  LET start == a[3].num  end == a[4].num
             reply == SendResp(Desc(a), Convert(a), resp)
         IN  /\ Len(a) >= 4 /\ start \in Int /\ end \in Int
             /\ Framed(reply)
             /\ reply.vals = Elements(Slice(Ordered(a[1].word, store.scores), start,
                                            WindowSize(start, end)),
                                      Len(a) > 4 /\ a[5].word = "withscores")
<1> DEFINE start == a[3].num
           end == a[4].num
           all == Ordered(a[1].word, store.scores)
           size == WindowSize(start, end)
           asked == Convert(a)
<1>1. /\ a \in Seq(Tokens) /\ Len(a) \in Nat /\ Len(a) >= 1
      /\ \A i \in 1 .. Len(a) : a[i] \in Tokens
  BY RequestType
<1>2. asked = <<a[1]>> \o (IF Len(a) >= 4 THEN Window(a) ELSE <<>>)
                       \o (IF Len(a) > 4 THEN <<a[5]>> ELSE <<>>)
  BY ConvertRank
<1>3. a[1] \in Tokens  BY <1>1
<1> DEFINE U == Tokens \cup {Num(size)}
           l == IF Len(a) > 4 THEN <<a[5]>> ELSE <<>>
           m == IF Len(a) >= 4 THEN Window(a) ELSE <<>>
<1>4. /\ l \in Seq(U) /\ Len(l) \in Nat /\ Len(l) <= 1
      /\ Len(a) > 4 <=> Len(l) >= 1
      /\ Len(a) > 4 => l[1] = a[5]
  <2>1. CASE Len(a) > 4
    <3>1. a[5] \in Tokens /\ l = <<a[5]>>  BY <1>1, <2>1
    <3> HIDE DEF l, size
    <3> QED  BY <2>1, <3>1
  <2>2. CASE ~(Len(a) > 4)
    <3>1. l = <<>>  BY <2>2
    <3> HIDE DEF l
    <3> QED  BY <2>2, <3>1
  <2> QED  BY <2>1, <2>2
<1>5. asked = <<a[1]>> \o m \o l
  BY <1>2
<1> HIDE DEF l, asked
<1>6. Len(a) >= 4 /\ Window(a) # <<>>
  <2> SUFFICES ASSUME Len(a) < 4 \/ Window(a) = <<>> PROVE FALSE
    BY <1>1
  <2>1. m = <<>>  OBVIOUS
  <2> HIDE DEF m, size
  <2>2. m \in Seq(U) /\ Len(m) = 0  BY <2>1
  <2> HIDE DEF U
  <2>3. Len(asked) < 4 /\ asked[1] = a[1]
    <3>1. Len(asked) = 1 + Len(m) + Len(l) /\ asked[1] = a[1]
      <4>1. a[1] \in U  BY <1>3 DEF U
      <4>2. Joins(asked, a[1], m, l)
        BY <1>4, <1>5, <2>2, <4>1, Joined
      <4> QED  BY <4>2 DEF Joins
    <3>2. Len(l) \in Nat /\ Len(l) <= 1  BY <1>4
    <3>3. Len(m) \in Nat /\ Len(m) <= 0  BY <2>2
    <3> QED  BY <3>1, <3>2, <3>3
  <2>4. Answers(asked) = { ClientError }
    BY <2>3, AnswersRank
  <2>5. ClientError[1].word = "client_error"  BY DEF ClientError, Word
  <2>6. resp \in Answers(asked)  BY DEF asked
  <2> QED  BY <2>4, <2>5, <2>6
<1>7. /\ a[2] \in Tokens /\ a[3] \in Tokens /\ a[4] \in Tokens
      /\ start \in Int /\ end \in Int
  BY <1>1, <1>6 DEF Tokens
<1>8. size \in Int  BY <1>7, WindowSizeType
<1>9. Num(size).num = size
  BY NumType
<1>10. /\ Len(asked) >= 4 /\ asked[1] = a[1] /\ asked[3] = a[3] /\ asked[4] = Num(size)
       /\ (Len(asked) >= 5 /\ asked[5].word = "withscores")
             <=> (Len(a) > 4 /\ a[5].word = "withscores")
  <2>1. m = <<a[2], a[3], Num(size)>>
    BY <1>6 DEF Window
  <2> HIDE DEF size, m
  <2>2. /\ m \in Seq(U) /\ Len(m) = 3
        /\ m[1] = a[2] /\ m[2] = a[3] /\ m[3] = Num(size)
    BY <1>7, <2>1
  <2> HIDE DEF U
  <2>3. /\ Len(asked) = 1 + Len(m) + Len(l)
        /\ asked[1] = a[1]
        /\ \A i \in 1 .. Len(m) : asked[1 + i] = m[i]
        /\ \A i \in 1 .. Len(l) : asked[1 + Len(m) + i] = l[i]
    <3>1. a[1] \in U  BY <1>3 DEF U
    <3>2. Joins(asked, a[1], m, l)
      BY <1>4, <1>5, <2>2, <3>1, Joined
    <3> QED  BY <3>2 DEF Joins
  <2>4. Len(asked) >= 4 /\ asked[1] = a[1]
    BY <1>4, <2>2, <2>3
  <2>5. asked[1 + 2] = m[2] /\ asked[1 + 3] = m[3]
    BY <2>2, <2>3
  <2>6. Len(l) >= 1 => asked[1 + 3 + 1] = l[1]
    BY <2>2, <2>3
  <2>7. Len(a) > 4 => asked[5] = a[5] /\ Len(asked) = 5
    BY <1>4, <2>2, <2>3, <2>6
  <2>8. Len(asked) >= 5 => Len(a) > 4
    BY <1>4, <2>2, <2>3
  <2> QED  BY <2>2, <2>4, <2>5, <2>7, <2>8
<1>11. resp = Ok(WithTheirScores(Slice(all, start, size)))
  <2>1. Answers(asked) = { Ok(WithTheirScores(Slice(Ordered(asked[1].word, store.scores),
                                                    asked[3].num, asked[4].num))) }
    BY <1>10, AnswersRank
  <2>2. resp \in Answers(asked)  BY DEF asked
  <2> HIDE DEF size
  <2> QED  BY <1>9, <1>10, <2>1, <2>2
<1>12. Desc(a) = a[1].word
  BY RankKind DEF Desc
<1>13. PICK T : Slice(all, start, size) \in Seq(T)
  <2>1. PICK T : all \in Seq(T)  BY StoreType
  <2> HIDE DEF all, start, end, size
  <2> QED  BY <1>7, <1>8, <2>1, SliceSeq
<1>14. WithScores(Desc(a), asked) = (Len(a) > 4 /\ a[5].word = "withscores")
  <2>1. Desc(a) \in RankCommands /\ Desc(a) \notin ScoreCommands
    BY <1>12, RankKind
  <2> QED  BY <1>10, <2>1 DEF WithScores
<1> HIDE DEF all, start, end, size
<1>15. LET reply == SendResp(Desc(a), asked, Ok(WithTheirScores(Slice(all, start, size))))
       IN  /\ Framed(reply)
           /\ reply.vals = Elements(Slice(all, start, size), WithScores(Desc(a), asked))
  <2>1. Desc(a) \in RankCommands \cup ScoreCommands  BY <1>12
  <2> QED  BY <1>13, <2>1, ScoredReply
<1> QED  BY <1>6, <1>7, <1>11, <1>14, <1>15 DEF all, start, end, size, asked

\* The window is the one asked for.
LEMMA WindowIsAsked ==
  ASSUME NEW T, NEW all \in Seq(T), NEW start \in Nat, NEW end \in Int,
         ~Backwards(start, end)
  PROVE  Slice(all, start, WindowSize(start, end))
           = SubSeq(all, start + 1, IF end = -1 \/ end >= Len(all) THEN Len(all) ELSE end + 1)
<1>1. Len(all) \in Nat  OBVIOUS
<1>2. CASE end = -1
  BY <1>2 DEF Slice, WindowSize
<1>3. CASE end # -1
  <2>1. WindowSize(start, end) = end - start + 1 /\ start <= end + 1
    BY <1>3 DEF WindowSize, Backwards
  <2>2. end - start + 1 # -1 /\ start + (end - start + 1) = end + 1
    BY <2>1
  <2>3. Slice(all, start, WindowSize(start, end))
          = SubSeq(all, start + 1, IF end + 1 > Len(all) THEN Len(all) ELSE end + 1)
    BY <2>1, <2>2 DEF Slice
  <2>4. end + 1 > Len(all) <=> end >= Len(all)
    BY <1>1
  <2> QED  BY <1>3, <2>3, <2>4
<1> QED  BY <1>2, <1>3
-----------------------------------------------------------------------------
(* zrangebyscore, zrevrangebyscore: the bounds and the options.            *)

\* A number below the modulus is its own remainder.
LEMMA SmallMod ==
  ASSUME NEW k \in Int, NEW x \in 0 .. k - 1
  PROVE  x % k = x
  OBVIOUS

\* str_to_int keeps what fits in an int (strings.h:284-298).
LEMMA IntKept ==
  ASSUME NEW n \in -IntMax - 1 .. IntMax
  PROVE  ToInt(n) = n
  BY RedisAssumption, SmallMod DEF ToInt

\* An exclusive bound moves by one.
LEMMA BoundOpen ==
  ASSUME NEW t \in Tokens, t.word = "number", t.role = "open",
         t.num \in -IntMax .. IntMax - 1, NEW delta \in {-1, 1}
  PROVE  Bound(t, delta) = Num(t.num + delta)
<1>1. ToInt(t.num) = t.num  BY IntKept, RedisAssumption
<1>2. ~Infinite(t)  BY DEF Infinite
<1> QED  BY <1>1, <1>2 DEF Bound

\* An inclusive bound stays as it is.
LEMMA BoundPlain ==
  ASSUME NEW t \in Tokens, t.word = "number", t.role # "open", NEW delta
  PROVE  Bound(t, delta) = t
<1>1. ~Infinite(t)  BY DEF Infinite
<1> QED  BY <1>1 DEF Bound

\* A number is no empty string.
LEMMA NumNotEmpty ==
  /\ Empty.word = "empty"
  /\ \A t : t.word = "number" => t # Empty
  BY DEF Empty, Word

\* A score is above the lower bound the server gets if it is above the one asked.
LEMMA LowerBound ==
  ASSUME NEW t \in Tokens, Exact(t, "-inf"), NEW s \in Int
  PROVE  (Bound(t, 1) = Empty \/ Bound(t, 1).num <= s) <=> NotBelow(s, t)
<1>1. CASE t.word = "-inf" /\ t.role = "plain"
  <2>1. Infinite(t)  BY <1>1 DEF Infinite
  <2>2. Bound(t, 1) = Empty  BY <2>1 DEF Bound
  <2> QED  BY <1>1, <2>2 DEF NotBelow
<1>2. CASE t.word = "number" /\ t.role = "open"
  <2>1. Bound(t, 1) = Num(t.num + 1)  BY <1>2, BoundOpen DEF Exact
  <2>2. Bound(t, 1) # Empty /\ Bound(t, 1).num = t.num + 1
    BY <2>1, NumType, NumNotEmpty
  <2>3. t.num \in Int  BY DEF Tokens
  <2>4. t.num + 1 <= s <=> s >= t.num /\ s # t.num  BY <2>3
  <2> QED  BY <1>2, <2>2, <2>4 DEF NotBelow
<1>3. CASE t.word = "number" /\ t.role # "open"
  <2>1. Bound(t, 1) = t  BY <1>3, BoundPlain
  <2>2. t # Empty /\ t.num \in Int  BY <1>3, NumNotEmpty DEF Tokens
  <2>3. t.num <= s <=> s >= t.num  BY <2>2
  <2> QED  BY <1>3, <2>1, <2>2, <2>3 DEF NotBelow
<1> QED  BY <1>1, <1>2, <1>3 DEF Exact

\* ... and below the upper bound likewise.
LEMMA UpperBound ==
  ASSUME NEW t \in Tokens, Exact(t, "+inf"), NEW s \in Int
  PROVE  (Bound(t, -1) = Empty \/ s <= Bound(t, -1).num) <=> NotAbove(s, t)
<1>1. CASE t.word = "+inf" /\ t.role = "plain"
  <2>1. Infinite(t)  BY <1>1 DEF Infinite
  <2>2. Bound(t, -1) = Empty  BY <2>1 DEF Bound
  <2> QED  BY <1>1, <2>2 DEF NotAbove
<1>2. CASE t.word = "number" /\ t.role = "open"
  <2>1. Bound(t, -1) = Num(t.num + (-1))  BY <1>2, BoundOpen DEF Exact
  <2>2. Bound(t, -1) # Empty /\ Bound(t, -1).num = t.num + (-1)
    BY <2>1, NumType, NumNotEmpty
  <2>3. t.num \in Int  BY DEF Tokens
  <2>4. s <= t.num + (-1) <=> s <= t.num /\ s # t.num  BY <2>3
  <2> QED  BY <1>2, <2>2, <2>4 DEF NotAbove
<1>3. CASE t.word = "number" /\ t.role # "open"
  <2>1. Bound(t, -1) = t  BY <1>3, BoundPlain
  <2>2. t # Empty /\ t.num \in Int  BY <1>3, NumNotEmpty DEF Tokens
  <2> QED  BY <1>3, <2>1, <2>2 DEF NotAbove
<1> QED  BY <1>1, <1>2, <1>3 DEF Exact

\* The server looks among the scores asked for, whichever way the scan goes.
LEMMA WithinBounds ==
  ASSUME NEW c \in ScoreCommands, NEW x \in Tokens, NEW y \in Tokens, store \in Stores
  PROVE  LET up == c = "zrangebyscore"
             lo == IF up THEN x ELSE y
             hi == IF up THEN y ELSE x
         IN  Exact(lo, "-inf") /\ Exact(hi, "+inf") =>
               Within(c, Bound(x, IF up THEN 1 ELSE -1), Bound(y, IF up THEN -1 ELSE 1))
                 = { s \in store.scores : NotBelow(s, lo) /\ NotAbove(s, hi) }
<1>1. store.scores \subseteq Int  BY RedisLinkAssumption
<1>2. CASE c = "zrangebyscore"
  <2>1. Within(c, Bound(x, 1), Bound(y, -1))
          = { s \in store.scores : /\ Bound(x, 1) = Empty \/ Bound(x, 1).num <= s
                                   /\ Bound(y, -1) = Empty \/ s <= Bound(y, -1).num }
    BY <1>2 DEF Within
  <2>2. ASSUME Exact(x, "-inf"), Exact(y, "+inf")
        PROVE  Within(c, Bound(x, 1), Bound(y, -1))
                 = { s \in store.scores : NotBelow(s, x) /\ NotAbove(s, y) }
    <3>1. \A s \in store.scores :
            /\ (Bound(x, 1) = Empty \/ Bound(x, 1).num <= s) <=> NotBelow(s, x)
            /\ (Bound(y, -1) = Empty \/ s <= Bound(y, -1).num) <=> NotAbove(s, y)
      BY <1>1, <2>2, LowerBound, UpperBound
    <3> QED  BY <2>1, <3>1
  <2> QED  BY <1>2, <2>2
<1>3. CASE c # "zrangebyscore"
  <2>1. Within(c, Bound(x, -1), Bound(y, 1))
          = { s \in store.scores : /\ Bound(y, 1) = Empty \/ Bound(y, 1).num <= s
                                   /\ Bound(x, -1) = Empty \/ s <= Bound(x, -1).num }
    BY <1>3 DEF Within
  <2>2. ASSUME Exact(y, "-inf"), Exact(x, "+inf")
        PROVE  Within(c, Bound(x, -1), Bound(y, 1))
                 = { s \in store.scores : NotBelow(s, y) /\ NotAbove(s, x) }
    <3>1. \A s \in store.scores :
            /\ (Bound(y, 1) = Empty \/ Bound(y, 1).num <= s) <=> NotBelow(s, y)
            /\ (Bound(x, -1) = Empty \/ s <= Bound(x, -1).num) <=> NotAbove(s, x)
      BY <1>1, <2>2, LowerBound, UpperBound
    <3> QED  BY <2>1, <3>1
  <2> QED  BY <1>3, <2>2
<1> QED  BY <1>2, <1>3
-----------------------------------------------------------------------------
(* The options.                                                            *)

OptionsRead == [limit : BOOLEAN, offset : Tokens \cup {Empty},
                count : Tokens \cup {Empty}, scores : Tokens \cup {Empty}]

\* The options after each argument, and those used.
OptionSteps(g, a) == /\ g \in [4 .. Len(a) -> OptionsRead]
                     /\ g[4] = NoOptions
                     /\ \A i \in 5 .. Len(a) : g[i] = Option(g[i - 1], a[i])
                     /\ Options(a) = g[Len(a)]

\* One option changes the limit as Limited does and notes the scores.
LEMMA OptionType ==
  ASSUME NEW acc \in OptionsRead, NEW t \in Tokens
  PROVE  /\ Option(acc, t) \in OptionsRead
         /\ Option(acc, t).limit = (Limited(acc, t).limit \/ t.word = "limit")
         /\ Option(acc, t).offset = Limited(acc, t).offset
         /\ Option(acc, t).count = Limited(acc, t).count
         /\ Option(acc, t).scores = IF t.word = "withscores" THEN t ELSE acc.scores
<1>1. Limited(acc, t) \in OptionsRead /\ Limited(acc, t).scores = acc.scores
  BY DEF Limited, OptionsRead
<1> QED  BY <1>1 DEF Option, OptionsRead

\* What the loop does with an argument before, in and after LIMIT.
LEMMA LimitedCases ==
  ASSUME NEW acc \in OptionsRead, NEW t
  PROVE  /\ ~acc.limit => Limited(acc, t) = acc
         /\ acc.limit /\ acc.offset = Empty =>
              /\ Limited(acc, t).limit /\ Limited(acc, t).offset = t
              /\ Limited(acc, t).count = acc.count
         /\ acc.limit /\ acc.offset # Empty =>
              /\ ~Limited(acc, t).limit /\ Limited(acc, t).offset = acc.offset
              /\ Limited(acc, t).count = t
  BY DEF Limited, OptionsRead

\* The loop over the options, as a function of how far it is.
LEMMA OptionsAreSteps ==
  ASSUME NEW a \in Seq(Tokens), Len(a) >= 4
  PROVE  \E g : OptionSteps(g, a)
<1> PICK n \in Int : n = Len(a)
  OBVIOUS
<1> DEFINE X == OptionsRead
           G == [i \in 4 .. n |-> [acc \in X |-> Option(acc, a[i])]]
           Rec(f) == [i \in 4 .. n |-> IF i = 4 THEN NoOptions ELSE Option(f[i - 1], a[i])]
<1>1. n >= 4 /\ \A i \in 4 .. n : a[i] \in Tokens
  BY Element
<1>2. NoOptions \in X
  BY DEF NoOptions, OptionsRead
<1>3. G \in [4 .. n -> [X -> X]]
  BY <1>1, OptionType
<1>4. PICK f \in [4 .. n -> X] : Follows(f, G, NoOptions, 4, n)
  <2> PICK m \in Int : m = 4  OBVIOUS
  <2> HIDE DEF G, X
  <2>1. m <= n /\ G \in [m .. n -> [X -> X]]
    BY <1>1, <1>3
  <2>2. \E f \in [m .. n -> X] : Follows(f, G, NoOptions, m, n)
    BY <1>2, <2>1, RecFcn
  <2> QED  BY <2>2
<1>5. f[4] = NoOptions
  BY <1>4 DEF Follows
<1>6. ASSUME NEW i \in 5 .. n PROVE f[i] = Option(f[i - 1], a[i])
  <2>1. i - 1 \in 4 .. n /\ i \in 4 .. n /\ i \in 4 + 1 .. n
    OBVIOUS
  <2>2. f[i] = G[i][f[i - 1]]
    BY <1>4, <2>1 DEF Follows
  <2>3. f[i - 1] \in X
    BY <2>1
  <2> QED  BY <2>1, <2>2, <2>3
<1>7. f = Rec(f)
  <2>1. ASSUME NEW i \in 4 .. n
        PROVE  f[i] = IF i = 4 THEN NoOptions ELSE Option(f[i - 1], a[i])
    <3>1. CASE i = 4  BY <1>5, <3>1
    <3>2. CASE i # 4
      <4>1. i \in 5 .. n  BY <3>2
      <4> QED  BY <1>6, <3>2, <4>1
    <3> QED  BY <3>1, <3>2
  <2> QED  BY <2>1
<1> DEFINE g == CHOOSE h : h = Rec(h)
<1>8. g = Rec(g)
  <2> HIDE DEF Rec
  <2> QED  BY <1>7
<1>9. Options(a) = g[n]
  BY DEF Options
<1> HIDE DEF g
<1>10. \A i \in 4 .. n : g[i] = IF i = 4 THEN NoOptions ELSE Option(g[i - 1], a[i])
  BY <1>8
<1>11. \A i \in 4 .. n : g[i] \in X
  <2> PICK m \in Int : m = 4  OBVIOUS
  <2> DEFINE S == { i \in 4 .. n : g[i] \in X }
  <2>1. m \in S
    BY <1>1, <1>2, <1>10
  <2>2. \A i \in m .. n - 1 : i \in S => i + 1 \in S
    <3> SUFFICES ASSUME NEW i \in m .. n - 1, i \in S PROVE i + 1 \in S
      OBVIOUS
    <3>1. i + 1 \in 4 .. n /\ i + 1 # 4 /\ (i + 1) - 1 = i /\ g[i] \in X
      OBVIOUS
    <3>2. g[i + 1] = Option(g[i], a[i + 1])
      BY <1>10, <3>1
    <3>3. a[i + 1] \in Tokens
      BY <1>1, <3>1
    <3> QED  BY <3>1, <3>2, <3>3, OptionType
  <2>3. \A i \in m .. n : i \in S
    <3> HIDE DEF S
    <3> QED  BY <2>1, <2>2, IntervalInduction
  <2> QED  BY <2>3
<1>12. OptionSteps(g, a)
  <2>1. g \in [4 .. n -> X]
    BY <1>8, <1>11
  <2>2. g[4] = NoOptions
    BY <1>1, <1>10
  <2>3. ASSUME NEW i \in 5 .. n PROVE g[i] = Option(g[i - 1], a[i])
    <3>1. i \in 4 .. n /\ i # 4  OBVIOUS
    <3> QED  BY <1>10, <3>1
  <2> QED  BY <1>9, <2>1, <2>2, <2>3 DEF OptionSteps
<1> QED  BY <1>12

\* WITHSCORES is kept once it was given.
LEMMA ScoresOption ==
  ASSUME NEW a \in Seq(Tokens), Len(a) >= 4
  PROVE  (Options(a).scores.word = "withscores") = AsksScores(a)
<1> PICK n \in Int : n = Len(a)
  OBVIOUS
<1>1. PICK g : OptionSteps(g, a)
  BY OptionsAreSteps
<1> DEFINE S == { i \in 4 .. n : (g[i].scores.word = "withscores")
                                  <=> \E k \in 5 .. i : a[k].word = "withscores" }
<1>2. \A i \in 4 .. n : i \in S
  <2> PICK m \in Int : m = 4  OBVIOUS
  <2>1. m \in S
    BY <1>1, NumNotEmpty DEF OptionSteps, NoOptions
  <2>2. \A i \in m .. n - 1 : i \in S => i + 1 \in S
    <3> SUFFICES ASSUME NEW i \in m .. n - 1, i \in S PROVE i + 1 \in S
      OBVIOUS
    <3>1. /\ i \in 4 .. n /\ i + 1 \in 5 .. n /\ (i + 1) - 1 = i /\ i + 1 \in 4 .. n
      OBVIOUS
    <3>2. g[i] \in OptionsRead /\ a[i + 1] \in Tokens /\ g[i + 1] = Option(g[i], a[i + 1])
      BY <1>1, <3>1, Element DEF OptionSteps
    <3>3. g[i + 1].scores = IF a[i + 1].word = "withscores" THEN a[i + 1] ELSE g[i].scores
      BY <3>2, OptionType
    <3>4. (\E k \in 5 .. i + 1 : a[k].word = "withscores")
            <=> a[i + 1].word = "withscores" \/ \E k \in 5 .. i : a[k].word = "withscores"
      <4>1. 5 .. i + 1 = (5 .. i) \cup {i + 1}  BY <3>1
      <4> QED  BY <4>1
    <3> QED  BY <3>1, <3>3, <3>4
  <2>3. \A i \in m .. n : i \in S
    <3> HIDE DEF S
    <3> QED  BY <2>1, <2>2, IntervalInduction
  <2> QED  BY <2>3
<1>3. n \in S
  BY <1>2
<1> QED  BY <1>1, <1>3 DEF OptionSteps, AsksScores

\* Where no LIMIT is read or being read, its values stay.
LEMMA QuietOptions ==
  ASSUME NEW a \in Seq(Tokens), NEW g, OptionSteps(g, a), NEW j \in 4 .. Len(a),
         ~g[j].limit, \A i \in j + 1 .. Len(a) : a[i].word # "limit"
  PROVE  Options(a).offset = g[j].offset /\ Options(a).count = g[j].count
<1> PICK n \in Int : n = Len(a)
  OBVIOUS
<1> DEFINE S == { i \in 4 .. n : /\ ~g[i].limit
                                 /\ g[i].offset = g[j].offset /\ g[i].count = g[j].count }
<1>1. j \in S
  OBVIOUS
<1>2. \A i \in j .. n - 1 : i \in S => i + 1 \in S
  <2> SUFFICES ASSUME NEW i \in j .. n - 1, i \in S PROVE i + 1 \in S
    OBVIOUS
  <2>1. /\ i \in 4 .. n /\ i + 1 \in 5 .. n /\ (i + 1) - 1 = i /\ i + 1 \in 4 .. n
        /\ i + 1 \in j + 1 .. n
    OBVIOUS
  <2>2. g[i] \in OptionsRead /\ a[i + 1] \in Tokens /\ g[i + 1] = Option(g[i], a[i + 1])
    BY <2>1, Element DEF OptionSteps
  <2>3. ~g[i].limit /\ Limited(g[i], a[i + 1]) = g[i]
    BY <2>2, LimitedCases
  <2>4. a[i + 1].word # "limit"
    BY <2>1
  <2> QED  BY <2>1, <2>2, <2>3, <2>4, OptionType
<1>3. \A i \in j .. n : i \in S
  <2> HIDE DEF S
  <2>1. j \in Int  OBVIOUS
  <2> QED  BY <1>1, <1>2, <2>1, IntervalInduction
<1>4. n \in S
  BY <1>3
<1> QED  BY <1>4 DEF OptionSteps

\* Without LIMIT there is no offset and no count.
LEMMA NoLimit ==
  ASSUME NEW a \in Seq(Tokens), Len(a) >= 4, \A i \in 5 .. Len(a) : a[i].word # "limit"
  PROVE  Options(a).offset = Empty /\ Options(a).count = Empty
<1>1. PICK g : OptionSteps(g, a)
  BY OptionsAreSteps
<1> PICK j \in 4 .. Len(a) : j = 4
  OBVIOUS
<1>2. g[j] = NoOptions
  BY <1>1 DEF OptionSteps
<1>3. ~g[j].limit /\ g[j].offset = Empty /\ g[j].count = Empty
  BY <1>2 DEF NoOptions
<1>4. \A i \in j + 1 .. Len(a) : a[i].word # "limit"
  OBVIOUS
<1> QED  BY <1>1, <1>3, <1>4, QuietOptions

\* Up to the one LIMIT there is none.
LEMMA BeforeLimit ==
  ASSUME NEW a \in Seq(Tokens), NEW g, OptionSteps(g, a), NEW p \in 5 .. Len(a),
         \A i \in 5 .. p - 1 : a[i].word # "limit"
  PROVE  ~g[p - 1].limit /\ g[p - 1].offset = Empty /\ g[p - 1].count = Empty
<1> PICK n \in Int : n = Len(a)
  OBVIOUS
<1> PICK m \in Int : m = 4
  OBVIOUS
<1> PICK q \in Int : q = p - 1
  OBVIOUS
<1> DEFINE S == { i \in 4 .. n : ~g[i].limit /\ g[i].offset = Empty /\ g[i].count = Empty }
<1>1. m \in S
  BY DEF OptionSteps, NoOptions
<1>2. \A i \in m .. q - 1 : i \in S => i + 1 \in S
  <2> SUFFICES ASSUME NEW i \in m .. q - 1, i \in S PROVE i + 1 \in S
    OBVIOUS
  <2>1. /\ i \in 4 .. n /\ i + 1 \in 5 .. n /\ (i + 1) - 1 = i /\ i + 1 \in 4 .. n
        /\ i + 1 \in 5 .. p - 1
    OBVIOUS
  <2>2. g[i] \in OptionsRead /\ a[i + 1] \in Tokens /\ g[i + 1] = Option(g[i], a[i + 1])
    BY <2>1, Element DEF OptionSteps
  <2>3. Limited(g[i], a[i + 1]) = g[i]
    BY <2>2, LimitedCases
  <2>4. a[i + 1].word # "limit"
    BY <2>1
  <2> QED  BY <2>1, <2>2, <2>3, <2>4, OptionType
<1>3. \A i \in m .. q : i \in S
  <2> HIDE DEF S
  <2> QED  BY <1>1, <1>2, IntervalInduction
<1>4. q \in S
  BY <1>3
<1> QED  BY <1>4

\* The offset and the count are the two arguments after LIMIT.
LEMMA OneLimit ==
  ASSUME NEW a \in Seq(Tokens), NEW p \in 5 .. Len(a) - 2,
         a[p].word = "limit", a[p + 1].word = "number", a[p + 2].word = "number",
         \A i \in 5 .. Len(a) : a[i].word = "limit" => i = p
  PROVE  Options(a).offset = a[p + 1] /\ Options(a).count = a[p + 2]
<1>0. /\ Len(a) \in Nat /\ Len(a) >= 4
      /\ p \in 5 .. Len(a) /\ p + 1 \in 5 .. Len(a) /\ p + 2 \in 5 .. Len(a)
      /\ p - 1 \in 4 .. Len(a) /\ p \in 4 .. Len(a) /\ p + 1 \in 4 .. Len(a) /\ p + 2 \in 4 .. Len(a)
      /\ (p + 1) - 1 = p /\ (p + 2) - 1 = p + 1
  OBVIOUS
<1>1. PICK g : OptionSteps(g, a)
  BY <1>0, OptionsAreSteps
<1>2. /\ g[p - 1] \in OptionsRead /\ g[p] \in OptionsRead /\ g[p + 1] \in OptionsRead
      /\ g[p + 2] \in OptionsRead
      /\ g[p] = Option(g[p - 1], a[p])
      /\ g[p + 1] = Option(g[p], a[p + 1])
      /\ g[p + 2] = Option(g[p + 1], a[p + 2])
  BY <1>0, <1>1 DEF OptionSteps
<1>3. a[p] \in Tokens /\ a[p + 1] \in Tokens /\ a[p + 2] \in Tokens
  BY <1>0, Element
<1>4. ~g[p - 1].limit /\ g[p - 1].offset = Empty /\ g[p - 1].count = Empty
  <2>1. \A i \in 5 .. p - 1 : a[i].word # "limit"
    OBVIOUS
  <2> QED  BY <1>0, <1>1, <2>1, BeforeLimit
<1>5. g[p].limit /\ g[p].offset = Empty
  <2>1. Limited(g[p - 1], a[p]) = g[p - 1]
    BY <1>2, <1>4, LimitedCases
  <2>2. /\ Option(g[p - 1], a[p]).limit = (Limited(g[p - 1], a[p]).limit \/ a[p].word = "limit")
        /\ Option(g[p - 1], a[p]).offset = Limited(g[p - 1], a[p]).offset
    BY <1>2, <1>3, OptionType
  <2> QED  BY <1>2, <1>4, <2>1, <2>2
<1>6. g[p + 1].limit /\ g[p + 1].offset = a[p + 1] /\ a[p + 1] # Empty
  <2>1. /\ Limited(g[p], a[p + 1]).limit
        /\ Limited(g[p], a[p + 1]).offset = a[p + 1]
    BY <1>2, <1>5, LimitedCases
  <2>2. a[p + 1] # Empty
    BY NumNotEmpty
  <2>3. /\ Option(g[p], a[p + 1]).limit
              = (Limited(g[p], a[p + 1]).limit \/ a[p + 1].word = "limit")
        /\ Option(g[p], a[p + 1]).offset = Limited(g[p], a[p + 1]).offset
    BY <1>2, <1>3, OptionType
  <2> QED  BY <1>2, <2>1, <2>2, <2>3
<1>7. ~g[p + 2].limit /\ g[p + 2].offset = a[p + 1] /\ g[p + 2].count = a[p + 2]
  <2>1. /\ ~Limited(g[p + 1], a[p + 2]).limit
        /\ Limited(g[p + 1], a[p + 2]).offset = g[p + 1].offset
        /\ Limited(g[p + 1], a[p + 2]).count = a[p + 2]
    BY <1>2, <1>6, LimitedCases
  <2>2. a[p + 2].word # "limit"
    OBVIOUS
  <2>3. /\ Option(g[p + 1], a[p + 2]).limit
              = (Limited(g[p + 1], a[p + 2]).limit \/ a[p + 2].word = "limit")
        /\ Option(g[p + 1], a[p + 2]).offset = Limited(g[p + 1], a[p + 2]).offset
        /\ Option(g[p + 1], a[p + 2]).count = Limited(g[p + 1], a[p + 2]).count
    BY <1>2, <1>3, OptionType
  <2> QED  BY <1>2, <1>6, <2>1, <2>2, <2>3
<1>8. \A i \in (p + 2) + 1 .. Len(a) : a[i].word # "limit"
  <2> SUFFICES ASSUME NEW i \in (p + 2) + 1 .. Len(a) PROVE a[i].word # "limit"
    OBVIOUS
  <2>1. i \in 5 .. Len(a) /\ i # p  OBVIOUS
  <2> QED  BY <2>1
<1> PICK j \in 4 .. Len(a) : j = p + 2
  BY <1>0
<1>9. ~g[j].limit /\ \A i \in j + 1 .. Len(a) : a[i].word # "limit"
  BY <1>7, <1>8
<1>10. Options(a).offset = g[j].offset /\ Options(a).count = g[j].count
  BY <1>1, <1>9, QuietOptions
<1> QED  BY <1>7, <1>10

\* The scores the server looks among, and where it starts and stops.
ScoresAsked(a) == LET up == a[1].word = "zrangebyscore"
             IN  Within(a[1].word, Bound(a[3], IF up THEN 1 ELSE -1),
                                   Bound(a[4], IF up THEN -1 ELSE 1))
OffsetOf(a) == Otherwise(Options(a).offset, Num(0)).num
CountOf(a)  == Otherwise(Options(a).count, AllOfThem).num

\* A range of scores that is served: what the server was asked, and the reply.
LEMMA ScoreServed ==
  ASSUME store \in Stores, NEW a \in Requests, a[1].word \in ScoreCommands,
         NEW resp \in Answers(Convert(a)), resp[1].word = "ok"
  PROVE  LET reply == SendResp(Desc(a), Convert(a), resp)
         IN  /\ Len(a) >= 4
             /\ Framed(reply)
             /\ reply.vals = Elements(Slice(Ordered(a[1].word, ScoresAsked(a)),
                                            OffsetOf(a), CountOf(a)),
                                      AsksScores(a))
<1> DEFINE asked == Convert(a)
           all == Ordered(a[1].word, ScoresAsked(a))
<1>1. /\ a \in Seq(Tokens) /\ Len(a) \in Nat /\ Len(a) >= 1
      /\ \A i \in 1 .. Len(a) : a[i] \in Tokens
  BY RequestType
<1>2. Len(a) >= 4 /\ asked = ScoreRange(a)
  <2>1. asked = IF Len(a) < 4 \/ Empty \in {a[3], a[4]} THEN <<a[1]>> ELSE ScoreRange(a)
    BY ConvertScore
  <2> HIDE DEF asked
  <2> SUFFICES ASSUME Len(a) < 4 \/ Empty \in {a[3], a[4]} PROVE FALSE
    BY <1>1, <2>1
  <2>2. asked = <<a[1]>>  BY <2>1
  <2>3. Len(asked) < 7 /\ asked[1] = a[1]  BY <2>2
  <2>4. Answers(asked) = { ClientError }  BY <2>3, AnswersScore
  <2>5. ClientError[1].word = "client_error"  BY DEF ClientError, Word
  <2>6. resp \in Answers(asked)  BY DEF asked
  <2> QED  BY <2>4, <2>5, <2>6
<1>3. Options(a) \in OptionsRead
  <2>1. PICK g : OptionSteps(g, a)  BY <1>1, <1>2, OptionsAreSteps
  <2>2. Len(a) \in 4 .. Len(a)  BY <1>1, <1>2
  <2> QED  BY <2>1, <2>2 DEF OptionSteps
<1>4. OffsetOf(a) \in Int /\ CountOf(a) \in Int
  BY <1>3 DEF OffsetOf, CountOf, Otherwise, OptionsRead, Tokens, Num, AllOfThem, Empty, Word
<1>5. /\ Len(asked) = 8 /\ asked[1] = a[1]
      /\ Within(asked[1].word, asked[4], asked[5]) = ScoresAsked(a)
      /\ asked[6].num = OffsetOf(a) /\ asked[7].num = CountOf(a)
      /\ asked[8] = Options(a).scores
  <2> HIDE DEF asked
  <2> QED  BY <1>2 DEF ScoreRange, ScoresAsked, OffsetOf, CountOf
<1>6. resp = Ok(WithTheirScores(Slice(all, OffsetOf(a), CountOf(a))))
  <2> HIDE DEF asked
  <2>1. Answers(asked) = { Ok(WithTheirScores(Slice(
                Ordered(asked[1].word, Within(asked[1].word, asked[4], asked[5])),
                asked[6].num, asked[7].num))) }
    <3>1. asked[1].word \in ScoreCommands /\ ~(Len(asked) < 7)  BY <1>5
    <3> QED  BY <3>1, AnswersScore
  <2>2. resp \in Answers(asked)  BY DEF asked
  <2> QED  BY <1>5, <2>1, <2>2
<1>7. Desc(a) = a[1].word /\ Desc(a) \in ScoreCommands /\ Desc(a) \notin RankCommands
  BY ScoreKind DEF Desc
<1>8. PICK T : Slice(all, OffsetOf(a), CountOf(a)) \in Seq(T)
  <2>1. IsFiniteSet(ScoresAsked(a))
    <3>1. ScoresAsked(a) \subseteq store.scores  BY DEF ScoresAsked, Within
    <3>2. IsFiniteSet(store.scores)  BY RedisLinkAssumption
    <3> QED  BY <3>1, <3>2, FS_Subset
  <2>2. PICK T : all \in Seq(T)  BY <2>1, OrderedSeq
  <2> HIDE DEF all
  <2> QED  BY <1>4, <2>2, SliceSeq
<1>9. WithScores(Desc(a), asked) = AsksScores(a)
  <2>1. (Options(a).scores.word = "withscores") = AsksScores(a)
    BY <1>1, <1>2, ScoresOption
  <2>2. asked[Len(asked)] = Options(a).scores
    BY <1>5
  <2> HIDE DEF asked
  <2> QED  BY <1>7, <2>1, <2>2 DEF WithScores
<1> HIDE DEF asked, all
<1>10. LET reply == SendResp(Desc(a), asked, Ok(WithTheirScores(Slice(all, OffsetOf(a), CountOf(a)))))
       IN  /\ Framed(reply)
           /\ reply.vals = Elements(Slice(all, OffsetOf(a), CountOf(a)), WithScores(Desc(a), asked))
  <2>1. Desc(a) \in RankCommands \cup ScoreCommands  BY <1>7
  <2> QED  BY <1>8, <2>1, ScoredReply
<1> QED  BY <1>2, <1>6, <1>9, <1>10 DEF all, asked

\* LIMIT and the bounds are those asked for.
LEMMA LimitIsAsked ==
  ASSUME NEW a \in Seq(Tokens), Len(a) >= 4, ProperLimit(a)
  PROVE  IF Limits(a) = {} THEN OffsetOf(a) = 0 /\ CountOf(a) = AllOfThem.num
         ELSE LET i == CHOOSE i \in Limits(a) : TRUE
              IN  OffsetOf(a) = a[i + 1].num /\ CountOf(a) = a[i + 2].num
<1>1. CASE \A i \in 5 .. Len(a) : a[i].word # "limit"
  <2>1. Options(a).offset = Empty /\ Options(a).count = Empty
    BY <1>1, NoLimit
  <2>2. OffsetOf(a) = 0 /\ CountOf(a) = AllOfThem.num
    BY <2>1, NumType DEF OffsetOf, CountOf, Otherwise
  <2>3. Limits(a) = {}
    BY <1>1 DEF Limits
  <2> QED  BY <2>2, <2>3
<1>2. ASSUME NEW p \in 5 .. Len(a), a[p].word = "limit"
      PROVE  /\ Limits(a) = {p}
             /\ OffsetOf(a) = a[p + 1].num /\ CountOf(a) = a[p + 2].num
  <2>1. Limits(a) = {p} /\ a[p + 1].word = "number" /\ a[p + 2].word = "number"
    BY <1>2 DEF ProperLimit
  <2>2. p \in 5 .. Len(a) - 2
    BY <2>1 DEF Limits
  <2>3. \A i \in 5 .. Len(a) : a[i].word = "limit" => i = p
    BY <2>1 DEF ProperLimit
  <2>4. Options(a).offset = a[p + 1] /\ Options(a).count = a[p + 2]
    BY <1>2, <2>1, <2>2, <2>3, OneLimit
  <2>5. a[p + 1] # Empty /\ a[p + 2] # Empty
    BY <2>1, NumNotEmpty
  <2> QED  BY <2>1, <2>4, <2>5 DEF OffsetOf, CountOf, Otherwise
<1>3. ASSUME NEW p \in 5 .. Len(a), a[p].word = "limit"
      PROVE  LET i == CHOOSE i \in Limits(a) : TRUE
             IN  OffsetOf(a) = a[i + 1].num /\ CountOf(a) = a[i + 2].num
  <2>1. /\ Limits(a) = {p}
        /\ OffsetOf(a) = a[p + 1].num /\ CountOf(a) = a[p + 2].num
    BY <1>2, <1>3
  <2>2. (CHOOSE i \in Limits(a) : TRUE) = p
    BY <2>1
  <2> QED  BY <2>1, <2>2
<1>4. ASSUME NEW p \in 5 .. Len(a), a[p].word = "limit"
      PROVE  Limits(a) # {}
  BY <1>2, <1>4
<1> QED  BY <1>1, <1>3, <1>4
-----------------------------------------------------------------------------
(* mget, hmget.                                                            *)

\* Keys and values by turns.
Paired(s) == \E q \in Nat : Len(s) = 2 * q /\ \A i \in 1 .. q : s[2 * i - 1] \in store.found

\* Nothing is keys and values by turns.
LEMMA NothingPaired == Paired(<<>>)
<1> PICK q \in Nat : q = 0  OBVIOUS
<1>1. Len(<<>>) = 2 * q /\ \A i \in 1 .. q : <<>>[2 * i - 1] \in store.found
  OBVIOUS
<1> QED  BY <1>1 DEF Paired

\* Another key leaves the keys and values by turns.
LEMMA PairedMore ==
  ASSUME NEW U, NEW s \in Seq(U), NEW k, Entry(k) \in Seq(U), Paired(s)
  PROVE  Paired(s \o Entry(k))
<1>0. \A t \in Seq(U) :
        /\ s \o t \in Seq(U)
        /\ Len(s \o t) = Len(s) + Len(t)
        /\ \A i \in 1 .. Len(s) : (s \o t)[i] = s[i]
        /\ \A i \in 1 .. Len(t) : (s \o t)[Len(s) + i] = t[i]
  BY Appended
<1> PICK q \in Nat : Len(s) = 2 * q /\ \A i \in 1 .. q : s[2 * i - 1] \in store.found
  BY DEF Paired
<1>1. CASE k \notin store.found
  <2>1. Entry(k) = <<>>  BY <1>1 DEF Entry
  <2>2. s \o <<>> = s  OBVIOUS
  <2> QED  BY <2>1, <2>2
<1>2. CASE k \in store.found
  <2>1. PICK p \in Seq(U) : p = Entry(k)  OBVIOUS
  <2>2. Len(p) = 2 /\ p[1] = k
    <3>1. p = <<k, Value(k)>>  BY <1>2, <2>1 DEF Entry
    <3> QED  BY <3>1
  <2>3. PICK t \in Seq(U) :
          /\ t = s \o p
          /\ Len(t) = Len(s) + Len(p)
          /\ \A i \in 1 .. Len(s) : t[i] = s[i]
          /\ \A i \in 1 .. Len(p) : t[Len(s) + i] = p[i]
    BY <1>0, Zenon
  <2>4. Len(t) = 2 * (q + 1)  BY <2>2, <2>3
  <2>5. ASSUME NEW i \in 1 .. q + 1 PROVE t[2 * i - 1] \in store.found
    <3>1. CASE i = q + 1
      <4>1. 2 * i - 1 = Len(s) + 1 /\ 1 \in 1 .. Len(p)  BY <2>2, <3>1
      <4>2. t[Len(s) + 1] = k  BY <2>2, <2>3, <4>1
      <4> QED  BY <1>2, <4>1, <4>2
    <3>2. CASE i # q + 1
      <4>1. i \in 1 .. q /\ 2 * i - 1 \in 1 .. Len(s)  BY <3>2
      <4>2. t[2 * i - 1] = s[2 * i - 1]  BY <2>3, <4>1
      <4> QED  BY <4>1, <4>2
    <3> QED  BY <3>1, <3>2
  <2>6. q + 1 \in Nat  OBVIOUS
  <2>7. Paired(t)  BY <2>4, <2>5, <2>6 DEF Paired
  <2> QED  BY <2>1, <2>3, <2>7
<1> QED  BY <1>1, <1>2

\* Where each key's piece starts in what was found.
Lies(keys, pos) ==
  LET r == Found(keys)
  IN  /\ pos[0] = 0
      /\ \A j \in 1 .. Len(keys) :
           IF keys[j] \in store.found
             THEN /\ pos[j] = pos[j - 1] + 2 /\ pos[j] <= Len(r)
                  /\ r[pos[j - 1] + 1] = keys[j]
                  /\ r[pos[j - 1] + 2] = Value(keys[j])
             ELSE /\ pos[j] = pos[j - 1]
                  /\ pos[j] + 1 <= Len(r) => r[pos[j] + 1] \in store.found

\* What the server found: keys and values by turns, each key where it is looked for.
LEMMA FoundLies ==
  ASSUME NEW keys \in Seq(Tokens)
  PROVE  /\ \E U : Found(keys) \in Seq(U)
         /\ Paired(Found(keys))
         /\ \E pos \in [0 .. Len(keys) -> Nat] : Lies(keys, pos)
<1> DEFINE U == Tokens \cup { Value(t) : t \in Tokens }
           n == Len(keys)
           seqs == [ j \in 1 .. n |-> Entry(keys[j]) ]
           r == Found(keys)
<1>1. n \in Nat /\ \A j \in 1 .. n : keys[j] \in Tokens
  BY Element
<1>2. \A k \in Tokens : Entry(k) \in Seq(U)
  <2> SUFFICES ASSUME NEW k \in Tokens PROVE Entry(k) \in Seq(U)
    OBVIOUS
  <2>1. k \in U /\ Value(k) \in U
    <3> HIDE DEF Tokens
    <3> QED  OBVIOUS
  <2> HIDE DEF U
  <2>2. <<>> \in Seq(U) /\ <<k, Value(k)>> \in Seq(U)  BY <2>1
  <2> QED  BY <2>2 DEF Entry
<1>3. seqs \in Seq(Seq(U)) /\ Len(seqs) = n /\ \A j \in 1 .. n : seqs[j] = Entry(keys[j])
  <2> HIDE DEF U, n
  <2>1. \A j \in 1 .. n : Entry(keys[j]) \in Seq(U)  BY <1>1, <1>2
  <2> QED  BY <1>1, <2>1
<1>4. r = FlattenSeq(seqs)
  BY DEF Found
<1> HIDE DEF U, seqs, r, n
<1>5. r \in Seq(U)
  BY <1>3, <1>4, FlattenType
<1>6. CASE n = 0
  <2>1. r = <<>>
    BY <1>3, <1>4, <1>6 DEF FlattenSeq
  <2>2. Paired(r)
    BY <2>1, NothingPaired
  <2>3. [ j \in 0 .. n |-> 0 ] \in [0 .. n -> Nat] /\ Lies(keys, [ j \in 0 .. n |-> 0 ])
    BY <1>6 DEF Lies, n
  <2> QED  BY <1>5, <2>2, <2>3 DEF r, n
<1>7. CASE n # 0
  <2>1. seqs # <<>> /\ n \in 1 .. n /\ n >= 1
    BY <1>1, <1>3, <1>7
  <2>2. PICK f \in [1 .. n -> Seq(U)] : Flattens(f, seqs)
    BY <1>3, <2>1, FlattenSteps
  <2>3. /\ f[1] = Entry(keys[1])
        /\ \A i \in 2 .. n : f[i] = f[i - 1] \o Entry(keys[i])
        /\ r = f[n]
    <3>1. /\ f[1] = seqs[1] /\ FlattenSeq(seqs) = f[Len(seqs)]
          /\ \A i \in 2 .. Len(seqs) : f[i] = f[i - 1] \o seqs[i]
      BY <2>2 DEF Flattens
    <3>2. 1 \in 1 .. n /\ \A i \in 2 .. n : i \in 1 .. n  BY <1>1, <2>1
    <3>3. f[1] = Entry(keys[1]) /\ r = f[n]  BY <1>3, <1>4, <3>1, <3>2
    <3>4. ASSUME NEW i \in 2 .. n PROVE f[i] = f[i - 1] \o Entry(keys[i])
      <4>1. seqs[i] = Entry(keys[i])  BY <1>3, <3>2
      <4>2. f[i] = f[i - 1] \o seqs[i]  BY <1>3, <3>1
      <4> QED  BY <4>1, <4>2
    <3> QED  BY <3>3, <3>4
  <2>4. \A j \in 1 .. n : f[j] \in Seq(U) /\ Entry(keys[j]) \in Seq(U)
    BY <1>1, <1>2, <2>2
  <2> DEFINE S == { j \in 1 .. n : Paired(f[j]) }
  <2>5. \A j \in 1 .. n : j \in S
    <3> PICK m \in Int : m = 1  OBVIOUS
    <3>1. m \in S
      <4>1. <<>> \in Seq(U) /\ Paired(<<>>)
        <5>1. <<>> \in Seq(U)  OBVIOUS
        <5>2. Paired(<<>>)  BY NothingPaired
        <5> QED  BY <5>1, <5>2
      <4>2. PICK e \in Seq(U), k \in Tokens : k = keys[1] /\ e = Entry(k)
        BY <1>1, <2>1, <2>4
      <4>3. PICK s \in Seq(U) : s = <<>>  BY <4>1
      <4>4. Paired(s \o Entry(k))  BY <4>1, <4>2, <4>3, PairedMore
      <4>5. s \o e = e  BY <4>3
      <4> QED  BY <2>1, <2>3, <4>2, <4>4, <4>5
    <3>2. \A j \in m .. n - 1 : j \in S => j + 1 \in S
      <4> SUFFICES ASSUME NEW j \in m .. n - 1, j \in S PROVE j + 1 \in S
        OBVIOUS
      <4>1. j \in 1 .. n /\ j + 1 \in 1 .. n /\ j + 1 \in 2 .. n /\ (j + 1) - 1 = j
        BY <1>1
      <4>2. f[j + 1] = f[j] \o Entry(keys[j + 1])
        BY <2>3, <4>1
      <4>3. PICK s \in Seq(U), k \in Tokens : s = f[j] /\ k = keys[j + 1] /\ Entry(k) \in Seq(U)
        BY <1>1, <2>4, <4>1
      <4>4. Paired(s)  BY <4>3
      <4>5. Paired(s \o Entry(k))  BY <4>3, <4>4, PairedMore
      <4> QED  BY <4>1, <4>2, <4>3, <4>5
    <3>3. \A j \in m .. n : j \in S
      <4> HIDE DEF S
      <4>1. n \in Int  BY <1>1
      <4> QED  BY <3>1, <3>2, <4>1, IntervalInduction
    <3> QED  BY <3>3
  <2>6. Paired(r)
    BY <2>1, <2>3, <2>5
  <2> DEFINE pos == [ j \in 0 .. n |-> IF j = 0 THEN 0 ELSE Len(f[j]) ]
  <2>7. pos \in [0 .. n -> Nat] /\ pos[0] = 0 /\ \A j \in 1 .. n : pos[j] = Len(f[j])
    BY <1>1, <2>4
  <2> HIDE DEF pos, S
  \* The piece of key j ends what the first j made.
  <2>8. ASSUME NEW j \in 1 .. n
        PROVE  /\ pos[j - 1] \in Nat
               /\ pos[j] = pos[j - 1] + Len(Entry(keys[j]))
               /\ \A i \in 1 .. Len(Entry(keys[j])) : f[j][pos[j - 1] + i] = Entry(keys[j])[i]
    <3>1. CASE j = 1
      <4>1. pos[j - 1] = 0 /\ f[j] = Entry(keys[j])  BY <2>3, <2>7, <3>1
      <4> QED  BY <2>4, <2>7, <4>1
    <3>2. CASE j # 1
      <4>1. j - 1 \in 1 .. n /\ j \in 2 .. n  BY <1>1, <3>2
      <4>2. f[j] = f[j - 1] \o Entry(keys[j]) /\ pos[j - 1] = Len(f[j - 1])
        BY <2>3, <2>7, <4>1
      <4>3. PICK s \in Seq(U), e \in Seq(U) : s = f[j - 1] /\ e = Entry(keys[j])
        BY <2>4, <4>1
      <4>4. Len(s \o e) = Len(s) + Len(e) /\ \A i \in 1 .. Len(e) : (s \o e)[Len(s) + i] = e[i]
        BY Appended
      <4>5. pos[j - 1] = Len(s) /\ pos[j] = Len(s \o e) /\ f[j] = s \o e
        BY <2>7, <4>2, <4>3
      <4>6. Len(s) \in Nat  BY <4>3
      <4> QED  BY <4>3, <4>4, <4>5, <4>6
    <3> QED  BY <3>1, <3>2
  <2>9. ASSUME NEW j \in 1 .. n
        PROVE  Len(f[j]) <= Len(r) /\ \A p \in 1 .. Len(f[j]) : r[p] = f[j][p]
    BY <1>3, <1>4, <2>2, FlattenPrefix
  <2>10. ASSUME NEW j \in 1 .. n, keys[j] \in store.found
         PROVE  /\ pos[j] = pos[j - 1] + 2 /\ pos[j] <= Len(r)
                /\ r[pos[j - 1] + 1] = keys[j]
                /\ r[pos[j - 1] + 2] = Value(keys[j])
    <3>1. Entry(keys[j]) = <<keys[j], Value(keys[j])>>  BY <2>10 DEF Entry
    <3>2. /\ Len(Entry(keys[j])) = 2 /\ Entry(keys[j])[1] = keys[j]
          /\ Entry(keys[j])[2] = Value(keys[j])
      BY <3>1
    <3>3. /\ pos[j - 1] \in Nat /\ pos[j] = pos[j - 1] + 2
          /\ f[j][pos[j - 1] + 1] = keys[j] /\ f[j][pos[j - 1] + 2] = Value(keys[j])
      <4>1. PICK e : e = Entry(keys[j])  OBVIOUS
      <4>2. 1 \in 1 .. Len(e) /\ 2 \in 1 .. Len(e) /\ e[1] = keys[j] /\ e[2] = Value(keys[j])
        BY <3>2, <4>1
      <4>3. /\ pos[j - 1] \in Nat /\ pos[j] = pos[j - 1] + Len(e) /\ Len(e) = 2
            /\ \A i \in 1 .. Len(e) : f[j][pos[j - 1] + i] = e[i]
        BY <2>8, <3>2, <4>1
      <4> QED  BY <4>2, <4>3
    <3>4. pos[j] = Len(f[j]) /\ pos[j - 1] + 1 \in 1 .. Len(f[j]) /\ pos[j - 1] + 2 \in 1 .. Len(f[j])
      BY <2>7, <3>3
    <3> QED  BY <2>9, <3>3, <3>4
  <2>11. ASSUME NEW j \in 1 .. n, keys[j] \notin store.found
         PROVE  /\ pos[j] = pos[j - 1]
                /\ pos[j] + 1 <= Len(r) => r[pos[j] + 1] \in store.found
    <3>1. Entry(keys[j]) = <<>>  BY <2>11 DEF Entry
    <3>2. pos[j] = pos[j - 1] + 0 /\ pos[j - 1] \in Nat  BY <2>8, <3>1
    <3>3. PICK q \in Nat : pos[j] = 2 * q
      BY <2>5, <2>7 DEF S, Paired
    <3>4. PICK l \in Nat : Len(r) = 2 * l /\ \A i \in 1 .. l : r[2 * i - 1] \in store.found
      BY <2>6 DEF Paired
    <3>5. ASSUME pos[j] + 1 <= Len(r) PROVE r[pos[j] + 1] \in store.found
      <4>1. q + 1 \in 1 .. l /\ 2 * (q + 1) - 1 = pos[j] + 1  BY <3>3, <3>4, <3>5
      <4> QED  BY <3>4, <4>1
    <3> QED  BY <3>2, <3>5
  <2>12. Lies(keys, pos)
    BY <2>7, <2>10, <2>11 DEF Lies, r, n
  <2> QED  BY <1>5, <2>6, <2>7, <2>12 DEF r, n
<1> QED  BY <1>1, <1>6, <1>7

\* The walk through the response looks where the pieces are.
LEMMA MatchedLies ==
  ASSUME NEW keys \in Seq(Tokens), NEW pos \in [0 .. Len(keys) -> Nat], Lies(keys, pos),
         NEW resp, Len(Found(keys)) \in Nat,
         Len(resp) = Len(Found(keys)) + 1,
         \A i \in 1 .. Len(Found(keys)) : resp[i + 1] = Found(keys)[i]
  PROVE  \A j \in 0 .. Len(keys) : Matched(keys, resp)[j] = 2 + pos[j]
<1> PICK n \in Nat : n = Len(keys)  OBVIOUS
<1> PICK r : r = Found(keys)  OBVIOUS
<1> DEFINE Rec(at) == [ j \in 0 .. Len(keys) |->
                          IF j = 0 THEN 2
                          ELSE IF at[j - 1] <= Len(resp) /\ resp[at[j - 1]] = keys[j]
                                 THEN at[j - 1] + 2 ELSE at[j - 1] ]
           at == CHOOSE f : f = Rec(f)
           h == [ j \in 0 .. n |-> 2 + pos[j] ]
<1>1. ASSUME NEW j \in 1 .. n
      PROVE  2 + pos[j] = IF 2 + pos[j - 1] <= Len(resp) /\ resp[2 + pos[j - 1]] = keys[j]
                            THEN (2 + pos[j - 1]) + 2 ELSE 2 + pos[j - 1]
  <2>0. pos \in [0 .. n -> Nat] /\ j - 1 \in 0 .. n /\ j \in 0 .. n  OBVIOUS
  <2>1. pos[j - 1] \in Nat /\ pos[j] \in Nat /\ Len(r) \in Nat /\ Len(resp) = Len(r) + 1
    BY <2>0
  <2>2. CASE keys[j] \in store.found
    <3>1. /\ pos[j] = pos[j - 1] + 2 /\ pos[j] <= Len(r) /\ r[pos[j - 1] + 1] = keys[j]
      BY <2>2 DEF Lies
    <3>2. pos[j - 1] + 1 \in 1 .. Len(r)  BY <2>1, <3>1
    <3>3. resp[(pos[j - 1] + 1) + 1] = keys[j]  BY <3>1, <3>2
    <3>4. (pos[j - 1] + 1) + 1 = 2 + pos[j - 1]  BY <2>1
    <3> QED  BY <2>1, <3>1, <3>3, <3>4
  <2>3. CASE keys[j] \notin store.found
    <3>1. /\ pos[j] = pos[j - 1]
          /\ pos[j] + 1 <= Len(r) => r[pos[j] + 1] \in store.found
      BY <2>3 DEF Lies
    <3>2. ASSUME 2 + pos[j - 1] <= Len(resp) PROVE resp[2 + pos[j - 1]] # keys[j]
      <4>1. pos[j] + 1 \in 1 .. Len(r) /\ (pos[j] + 1) + 1 = 2 + pos[j - 1]
        BY <2>1, <3>1, <3>2
      <4>2. resp[(pos[j] + 1) + 1] \in store.found  BY <2>1, <3>1, <4>1
      <4> QED  BY <2>3, <4>1, <4>2
    <3> QED  BY <2>1, <3>1, <3>2
  <2> QED  BY <2>2, <2>3
<1>2. pos[0] = 0  BY DEF Lies
<1>3. h = Rec(h)
  <2>1. ASSUME NEW j \in 0 .. n
        PROVE  h[j] = Rec(h)[j]
    <3>1. CASE j = 0
      <4>1. h[j] = 2 /\ Rec(h)[j] = 2  BY <1>2, <3>1
      <4> QED  BY <4>1
    <3>2. CASE j # 0
      <4>1. j \in 1 .. n /\ j - 1 \in 0 .. n  BY <3>2
      <4>2. h[j] = 2 + pos[j] /\ h[j - 1] = 2 + pos[j - 1]  BY <4>1
      <4>3. Rec(h)[j] = IF h[j - 1] <= Len(resp) /\ resp[h[j - 1]] = keys[j]
                          THEN h[j - 1] + 2 ELSE h[j - 1]
        <5> HIDE DEF h
        <5> QED  BY <3>2
      <4> HIDE DEF h, Rec
      <4> QED  BY <1>1, <4>1, <4>2, <4>3
    <3> QED  BY <3>1, <3>2
  <2>2. h = [ j \in 0 .. n |-> h[j] ]  OBVIOUS
  <2>3. Rec(h) = [ j \in 0 .. n |-> Rec(h)[j] ]
    <3> HIDE DEF h
    <3> QED  OBVIOUS
  <2> HIDE DEF h, Rec
  <2> QED  BY <2>1, <2>2, <2>3
<1>4. at = Rec(at)
  <2> HIDE DEF Rec, h
  <2> QED  BY <1>3
<1>5. Matched(keys, resp) = at
  BY DEF Matched
<1> HIDE DEF at
<1>6. at[0] = 2 /\ \A j \in 1 .. n :
        at[j] = IF at[j - 1] <= Len(resp) /\ resp[at[j - 1]] = keys[j]
                  THEN at[j - 1] + 2 ELSE at[j - 1]
  <2> HIDE DEF h
  <2>1. \A j \in 0 .. n : at[j] = Rec(at)[j]
    <3> HIDE DEF Rec
    <3> QED  BY <1>4
  <2>2. 0 \in 0 .. n /\ Rec(at)[0] = 2  OBVIOUS
  <2>3. ASSUME NEW j \in 1 .. n
        PROVE  /\ j \in 0 .. n
               /\ Rec(at)[j] = IF at[j - 1] <= Len(resp) /\ resp[at[j - 1]] = keys[j]
                                 THEN at[j - 1] + 2 ELSE at[j - 1]
    OBVIOUS
  <2> HIDE DEF Rec
  <2> QED  BY <2>1, <2>2, <2>3
<1> HIDE DEF Rec
<1>7. \A j \in 0 .. n : at[j] = h[j]
  <2> DEFINE S == { i \in Nat : i <= n => at[i] = h[i] }
  <2>1. 0 \in S  BY <1>2, <1>6
  <2>2. ASSUME NEW i \in Nat, i \in S PROVE i + 1 \in S
    <3> SUFFICES ASSUME i + 1 <= n PROVE at[i + 1] = h[i + 1]
      OBVIOUS
    <3>1. i + 1 \in 1 .. n /\ (i + 1) - 1 = i /\ h[i + 1] = 2 + pos[i + 1] /\ h[i] = 2 + pos[i]
      OBVIOUS
    <3>2. at[i] = h[i]  BY <2>2
    <3> HIDE DEF h, S
    <3>3. at[i + 1] = IF at[i] <= Len(resp) /\ resp[at[i]] = keys[i + 1]
                        THEN at[i] + 2 ELSE at[i]
      BY <1>6, <3>1
    <3>4. 2 + pos[i + 1] = IF 2 + pos[i] <= Len(resp) /\ resp[2 + pos[i]] = keys[i + 1]
                             THEN (2 + pos[i]) + 2 ELSE 2 + pos[i]
      BY <1>1, <3>1
    <3> QED  BY <3>1, <3>2, <3>3, <3>4
  <2>3. \A i \in Nat : i \in S
    <3> HIDE DEF S
    <3> QED  BY <2>1, <2>2, NatSet
  <2> HIDE DEF h
  <2> QED  BY <2>3
<1> QED  BY <1>5, <1>7

\* One key: what the response holds where the walk stands.
LEMMA Looked ==
  ASSUME NEW p \in Nat, NEW l \in Nat, NEW r, NEW resp, NEW k, NEW F, NEW v,
         \A i \in 1 .. l : resp[i + 1] = r[i],
         IF k \in F THEN p + 2 <= l /\ r[p + 1] = k /\ r[p + 2] = v
                    ELSE p + 1 <= l => r[p + 1] \in F
  PROVE  /\ (p + 2 <= l + 1 /\ resp[p + 2] = k) <=> k \in F
         /\ k \in F => resp[p + 3] = v
<1>1. p + 1 \in 1 .. l => resp[p + 2] = r[p + 1]
  <2>1. (p + 1) + 1 = p + 2  OBVIOUS
  <2> QED  BY <2>1
<1>2. p + 2 \in 1 .. l => resp[p + 3] = r[p + 2]
  <2>1. (p + 2) + 1 = p + 3  OBVIOUS
  <2> QED  BY <2>1
<1> QED  BY <1>1, <1>2

\* What mget and hmget are answered.
LEMMA KeyedServed ==
  ASSUME NEW a \in Seq(Tokens), a # <<>>, a[1].word \in KeyedCommands,
         NEW resp \in Answers(Convert(a))
  PROVE  LET c     == a[1].word
             keys  == KeysAsked(c, a)
             reply == SendResp(c, Convert(a), resp)
         IN  /\ Framed(reply) /\ Len(reply.vals) = Len(keys)
             /\ \A j \in 1 .. Len(keys) :
                  reply.vals[j] = IF keys[j] \in store.found THEN Value(keys[j]) ELSE Nil
<1> PICK c \in KeyedCommands : c = a[1].word  OBVIOUS
<1>1. PICK keys \in Seq(Tokens) : keys = KeysAsked(c, a)
  <2>1. CASE c = "mget"
    <3>1. KeysAsked(c, a) = SubSeq(a, 2, Len(a))  BY <2>1 DEF KeysAsked
    <3> HIDE DEF Tokens
    <3>2. SubSeq(a, 2, Len(a)) \in Seq(Tokens)  OBVIOUS
    <3> QED  BY <3>1, <3>2
  <2>2. CASE c # "mget"
    <3>1. KeysAsked(c, a) = SubSeq(a, 3, Len(a))  BY <2>2 DEF KeysAsked
    <3> HIDE DEF Tokens
    <3>2. SubSeq(a, 3, Len(a)) \in Seq(Tokens)  OBVIOUS
    <3> QED  BY <3>1, <3>2
  <2> QED  BY <2>1, <2>2
<1>2. Convert(a) = a  BY ConvertKeyed
<1>3. resp = Ok(Found(keys))  BY <1>1, <1>2, AnswersKeyed
<1> PICK U : Found(keys) \in Seq(U)  BY FoundLies
<1>4. PICK r \in Seq(U) : r = Found(keys)  OBVIOUS
<1>5. Paired(r) /\ \E pos \in [0 .. Len(keys) -> Nat] : Lies(keys, pos)  BY <1>4, FoundLies
<1>6. resp[1].word = "ok" /\ Len(resp) = Len(r) + 1
  BY <1>3, <1>4, OkTail
<1> PICK l \in Nat : l = Len(r) /\ Len(resp) = l + 1  BY <1>6
<1>7. Len(resp) % 2 = 1
  <2>1. PICK q \in Nat : Len(r) = 2 * q  BY <1>5 DEF Paired
  <2> QED  BY <1>6, <2>1
<1>8. SendResp(c, a, resp) = Reply("multi", ValuesOf(keys, resp))
  BY <1>1, <1>6, <1>7, SendKeyed
<1>9. \A i \in 1 .. Len(r) : resp[i + 1] = r[i]
  <2> DEFINE W == U \cup {Word("ok")}
  <2>1. PICK w \in Seq(W) : w = r /\ <<Word("ok")>> \in Seq(W)
    OBVIOUS
  <2> HIDE DEF W
  <2>2. PICK o \in Seq(W) : o = <<Word("ok")>> /\ Len(o) = 1  BY <2>1
  <2>3. \A i \in 1 .. Len(w) : (o \o w)[Len(o) + i] = w[i]  BY Appended
  <2>4. resp = o \o w  BY <1>3, <1>4, <2>1, <2>2 DEF Ok
  <2>5. Len(w) \in Nat /\ \A i \in 1 .. Len(w) : Len(o) + i = i + 1  BY <2>2
  <2> QED  BY <2>1, <2>3, <2>4, <2>5
<1>10. PICK n \in Nat : n = Len(keys)  OBVIOUS
<1>11. PICK pos \in [0 .. n -> Nat] : Lies(keys, pos)  BY <1>5, <1>10
<1>12. PICK at : at = Matched(keys, resp)  OBVIOUS
<1>13. \A j \in 0 .. n : at[j] = 2 + pos[j]
  <2>1. Len(Found(keys)) \in Nat  OBVIOUS
  <2>2. Len(resp) = Len(Found(keys)) + 1 /\ \A i \in 1 .. Len(Found(keys)) : resp[i + 1] = Found(keys)[i]
    BY <1>4, <1>6, <1>9
  <2>3. pos \in [0 .. Len(keys) -> Nat] /\ Lies(keys, pos)  BY <1>10, <1>11
  <2>4. \A j \in 0 .. Len(keys) : Matched(keys, resp)[j] = 2 + pos[j]
    BY <2>1, <2>2, <2>3, MatchedLies, Zenon
  <2> QED  BY <1>10, <1>12, <2>4
<1>14. ValuesOf(keys, resp) =
         [ j \in 1 .. n |-> IF at[j - 1] <= Len(resp) /\ resp[at[j - 1]] = keys[j]
                              THEN resp[at[j - 1] + 1] ELSE Nil ]
  BY <1>10, <1>12 DEF ValuesOf
<1> HIDE DEF Tokens
<1>15. ASSUME NEW j \in 1 .. n
       PROVE  (IF at[j - 1] <= Len(resp) /\ resp[at[j - 1]] = keys[j]
                 THEN resp[at[j - 1] + 1] ELSE Nil)
                = IF keys[j] \in store.found THEN Value(keys[j]) ELSE Nil
  <2>1. j - 1 \in 0 .. n /\ j \in 0 .. n /\ j \in 1 .. Len(keys)  BY <1>10
  <2>2. PICK p \in Nat : p = pos[j - 1]  BY <2>1
  <2>3. at[j - 1] = p + 2  BY <1>13, <2>1, <2>2
  <2>4. IF keys[j] \in store.found
          THEN p + 2 <= l /\ r[p + 1] = keys[j] /\ r[p + 2] = Value(keys[j])
          ELSE p + 1 <= l => r[p + 1] \in store.found
    BY <1>4, <1>11, <2>1, <2>2 DEF Lies
  <2>5. /\ (p + 2 <= l + 1 /\ resp[p + 2] = keys[j]) <=> keys[j] \in store.found
        /\ keys[j] \in store.found => resp[p + 3] = Value(keys[j])
    BY <1>9, <2>4, Looked
  <2>6. (p + 2) + 1 = p + 3  OBVIOUS
  <2> QED  BY <2>3, <2>5, <2>6
<1>16. PICK v : v = ValuesOf(keys, resp)  OBVIOUS
<1>17. v = [ j \in 1 .. n |-> IF keys[j] \in store.found THEN Value(keys[j]) ELSE Nil ]
  BY <1>14, <1>15, <1>16
<1>18. Len(v) = n  BY <1>17
<1>19. SendResp(c, Convert(a), resp) = Reply("multi", v)
  BY <1>2, <1>8, <1>16
<1>20. Reply("multi", v).vals = v /\ Framed(Reply("multi", v))
  BY DEF Reply, Framed
<1> QED  BY <1>1, <1>10, <1>17, <1>18, <1>19, <1>20
-----------------------------------------------------------------------------
(* Framing.                                                                *)

\* A reply that counts its own elements can be delimited.
LEMMA ReplyFramed ==
  ASSUME NEW type, type # "cut", NEW vals
  PROVE  Framed(Reply(type, vals))
  BY DEF Framed, Reply

\* So can the reply to any status but "ok".
LEMMA SendFailed ==
  ASSUME NEW d, NEW s, NEW r, r[1].word # "ok"
  PROVE  Framed(SendResp(d, s, r))
<1>1. SendResp(d, s, r) \in { Reply("nil", <<>>), Reply("error", <<>>) }
  BY DEF SendResp
<1>2. Framed(Reply("nil", <<>>)) /\ Framed(Reply("error", <<>>))
  <2>1. \A v : Framed(Reply("nil", v))  BY ReplyFramed
  <2>2. \A v : Framed(Reply("error", v))  BY ReplyFramed
  <2> QED  BY <2>1, <2>2
<1> QED  BY <1>1, <1>2

Remaining == (cmd_table \cup {NoDesc}) \ (KeyedCommands \cup RankCommands \cup ScoreCommands)

\* ... and the replies of the other commands, if no value is missing.
LEMMA SendRemaining ==
  ASSUME NEW d \in Remaining, NEW s, NEW r, r[1].word = "ok"
  PROVE  \/ Framed(SendResp(d, s, r))
         \/ d \in BulkCommands \cup IntCommands /\ Tail(r) = <<>>
<1>0. r[1].word # "not_found"  OBVIOUS
<1>1. CASE d \in StatusCommands \cup {NoDesc}
  <2>1. SendResp(d, s, r) = Reply("status", <<>>)
    <3>1. /\ d \notin KeyedCommands /\ d \notin BulkCommands /\ d \notin IntCommands
          /\ d \notin ListCommands
      BY <1>1 DEF StatusCommands, NoDesc, KeyedCommands, BulkCommands, IntCommands,
                  ListCommands, RankCommands, ScoreCommands
    <3> QED  BY <1>0, <1>1, <3>1 DEF SendResp
  <2> PICK v : v = <<>>  OBVIOUS
  <2>2. Framed(Reply("status", v))  BY ReplyFramed
  <2> QED  BY <2>1, <2>2
<1>2. CASE d \in BulkCommands \cup IntCommands
  <2> SUFFICES ASSUME Tail(r) # <<>> PROVE Framed(SendResp(d, s, r))
    BY <1>2
  <2>1. /\ d \notin StatusCommands \cup {NoDesc} /\ d \notin KeyedCommands
        /\ d \notin ListCommands /\ ~(d \in BulkCommands /\ d \in IntCommands)
    BY <1>2 DEF StatusCommands, NoDesc, KeyedCommands, BulkCommands, IntCommands,
                ListCommands, RankCommands, ScoreCommands
  <2> PICK v : v = <<Tail(r)[1]>>  OBVIOUS
  <2>2. SendResp(d, s, r) \in { Reply("bulk", v), Reply("int", v) }
    BY <1>0, <1>2, <2>1 DEF SendResp
  <2>3. Framed(Reply("bulk", v)) /\ Framed(Reply("int", v))  BY ReplyFramed
  <2> QED  BY <2>2, <2>3
<1>3. CASE d \in ListCommands \ KeyedCommands
  <2>1. d \notin StatusCommands \cup {NoDesc} /\ d \notin BulkCommands /\ d \notin IntCommands
    BY <1>3 DEF StatusCommands, NoDesc, KeyedCommands, BulkCommands, IntCommands,
                ListCommands, RankCommands, ScoreCommands
  <2>2. WithScores(d, s)  BY DEF Remaining, WithScores
  <2> PICK v : v = Tail(r)  OBVIOUS
  <2>3. SendResp(d, s, r) = Reply("multi", v)
    BY <1>0, <1>3, <2>1, <2>2 DEF SendResp
  <2> QED  BY <2>3, ReplyFramed
<1> QED  BY <1>1, <1>2, <1>3 DEF Remaining, cmd_table

\* The commands whose value may be missing reach the server under their name.
LEMMA NameKept ==
  ASSUME NEW a \in Requests, a[1].word \in BulkCommands \cup IntCommands
  PROVE  Convert(a)[1] = a[1]
<1> PICK c : c = a[1].word  OBVIOUS
<1>1. /\ c \notin {"hkeys", "hvals"} /\ c \notin RankCommands /\ c \notin ScoreCommands
  BY DEF BulkCommands, IntCommands, RankCommands, ScoreCommands
<1>2. /\ a \in Seq(Tokens) /\ Len(a) \in Nat /\ Len(a) >= 1
  BY RequestType
<1>3. <<a[1]>>[1] = a[1]  OBVIOUS
<1>4. CASE c \in {"setex", "zincrby"}
  <2>1. Convert(a) = IF Len(a) = 4 THEN <<a[1], a[2], a[4], a[3]>> ELSE <<a[1]>>
    BY <1>1, <1>4, Zenon DEF Convert
  <2> QED  BY <2>1
<1>5. CASE c = "zadd"
  <2>1. c \notin {"setex", "zincrby"}  BY <1>5
  <2>2. Convert(a) = IF Len(a) >= 2 THEN <<a[1], a[2]>> \o SwappedPairs(a) ELSE <<a[1]>>
    BY <1>1, <1>5, <2>1, Zenon DEF Convert
  <2>3. CASE Len(a) >= 2
    <3> DEFINE k == 2 * ((Len(a) - 2) \div 2)
               pair(i) == IF i % 2 = 1 THEN a[i + 3] ELSE a[i + 1]
               T == Tokens \cup { pair(i) : i \in 1 .. k }
    <3>1. k \in Nat
      <4>1. Len(a) - 2 \in Nat  BY <1>2, <2>3
      <4>2. (Len(a) - 2) \div 2 \in Nat  BY <4>1
      <4> QED  BY <4>2
    <3>2. SwappedPairs(a) = [ i \in 1 .. k |-> pair(i) ]  BY DEF SwappedPairs
    <3> HIDE DEF k, pair
    <3>3. SwappedPairs(a) \in Seq(T)  BY <3>1, <3>2
    <3>4. a[1] \in T /\ a[2] \in T
      <4>1. a[1] \in Tokens /\ a[2] \in Tokens  BY <1>2, <2>3, Element
      <4> QED  BY <4>1
    <3> HIDE DEF T
    <3>9. PICK x \in T, y \in T : x = a[1] /\ y = a[2]  BY <3>4
    <3>10. <<x, y>> \in Seq(T) /\ Len(<<x, y>>) = 2 /\ <<x, y>>[1] = x  OBVIOUS
    <3>5. PICK h \in Seq(T) : h = <<a[1], a[2]>> /\ Len(h) = 2 /\ h[1] = a[1]
      BY <3>9, <3>10, Zenon
    <3>6. PICK t \in Seq(T) : t = SwappedPairs(a)  BY <3>3
    <3>7. \A p \in 1 .. Len(h) : (h \o t)[p] = h[p]  BY Appended
    <3>8. (h \o t)[1] = h[1]  BY <3>5, <3>7
    <3> QED  BY <2>2, <2>3, <3>5, <3>6, <3>8
  <2> QED  BY <1>3, <2>2, <2>3
<1>6. CASE c \in {"zremrangebyrank", "zremrangebyscore"}
  <2>1. c \notin {"setex", "zincrby"} /\ c # "zadd"  BY <1>6
  <2>2. Convert(a) = IF Len(a) >= 4 THEN SubSeq(a, 1, 4) ELSE <<a[1]>>
    BY <1>1, <1>6, <2>1, Zenon DEF Convert
  <2>3. Len(a) >= 4 => SubSeq(a, 1, 4)[1] = a[1]  BY <1>2
  <2> QED  BY <1>3, <2>2, <2>3
<1>7. CASE /\ c \notin {"setex", "zincrby"} /\ c # "zadd"
           /\ c \notin {"zremrangebyrank", "zremrangebyscore"}
  <2>1. Convert(a) = a  BY <1>1, <1>7, Zenon DEF Convert
  <2> QED  BY <2>1
<1> QED  BY <1>4, <1>5, <1>6, <1>7

\* A command with one value is answered with one, none or "not_found".
LEMMA AnswersOneValue ==
  ASSUME NEW x, x[1].word \in BulkCommands \cup IntCommands, NEW r \in Answers(x)
  PROVE  r \in { Ok(<<Num(7)>>), Ok(<<Num(1)>>), Ok(<<>>), <<Word("not_found")>> }
<1> PICK c : c = x[1].word  OBVIOUS
<1>1. /\ c \notin KeyedCommands /\ c \notin RankCommands /\ c \notin ScoreCommands
      /\ c # "hgetall" /\ c \notin {"keys", "lrange", "hkeys", "hvals"}
  BY DEF BulkCommands, IntCommands, KeyedCommands, RankCommands, ScoreCommands
<1>2. CASE c \in BulkCommands
  <2>1. c \notin IntCommands  BY <1>2 DEF BulkCommands, IntCommands
  <2>2. Answers(x) = { Ok(<<Num(7)>>), Ok(<<>>), <<Word("not_found")>> }
    BY <1>1, <1>2, <2>1, Zenon DEF Answers
  <2> QED  BY <2>2
<1>3. CASE c \notin BulkCommands
  <2>1. c \in IntCommands  BY <1>3
  <2>2. Answers(x) = { Ok(<<Num(1)>>), Ok(<<>>) }
    BY <1>1, <1>3, <2>1, Zenon DEF Answers
  <2> QED  BY <2>2
<1> QED  BY <1>2, <1>3

\* Every reply is framed, but for a value that is missing.
LEMMA FramedUnlessMissing ==
  ASSUME store \in Stores, NEW a \in Requests, NEW resp \in Answers(Convert(a))
  PROVE  \/ Framed(SendResp(Desc(a), Convert(a), resp))
         \/ resp = Ok(<<>>) /\ Desc(a) \in BulkCommands \cup IntCommands
<1>1. a \in Seq(Tokens) /\ a # <<>>  BY RedisLinkAssumption
<1>2. CASE resp[1].word # "ok"
  BY <1>2, SendFailed
<1>3. CASE resp[1].word = "ok"
  <2>1. CASE a[1].word \in KeyedCommands
    <3>1. Desc(a) = a[1].word  BY <2>1, KeyedKind DEF Desc
    <3>2. Framed(SendResp(a[1].word, Convert(a), resp))  BY <1>1, <2>1, KeyedServed
    <3> QED  BY <3>1, <3>2
  <2>2. CASE a[1].word \in RankCommands
    BY <1>3, <2>2, RankServed
  <2>3. CASE a[1].word \in ScoreCommands
    BY <1>3, <2>3, ScoreServed
  <2>4. CASE a[1].word \notin KeyedCommands \cup RankCommands \cup ScoreCommands
    <3>1. Desc(a) \in Remaining
      <4>1. NoDesc \notin KeyedCommands \cup RankCommands \cup ScoreCommands
        BY DEF NoDesc, KeyedCommands, RankCommands, ScoreCommands
      <4> QED  BY <2>4, <4>1 DEF Desc, Remaining
    <3> SUFFICES ASSUME Desc(a) \in BulkCommands \cup IntCommands, Tail(resp) = <<>>
                 PROVE  resp = Ok(<<>>)
      BY <1>3, <3>1, SendRemaining
    <3>2. Desc(a) = a[1].word
      <4>1. NoDesc \notin BulkCommands \cup IntCommands
        BY DEF NoDesc, BulkCommands, IntCommands
      <4> QED  BY <4>1 DEF Desc
    <3>3. resp \in { Ok(<<Num(7)>>), Ok(<<Num(1)>>), Ok(<<>>), <<Word("not_found")>> }
      <4>1. Convert(a)[1] = a[1]  BY <3>2, NameKept
      <4> QED  BY <3>2, <4>1, AnswersOneValue
    <3>4. <<Word("not_found")>>[1].word # "ok"  BY DEF Word
    <3>5. \A n : Tail(Ok(<<Num(n)>>)) # <<>>
      <4> TAKE n
      <4>1. PICK U, v : v \in Seq(U) /\ v = <<Num(n)>>
        <5>1. <<Num(n)>> \in Seq({Num(n)})  OBVIOUS
        <5> QED  BY <5>1
      <4>2. Tail(Ok(v)) = v  BY <4>1, OkTail
      <4>3. v # <<>>  BY <4>1
      <4> QED  BY <4>1, <4>2, <4>3
    <3> QED  BY <1>3, <3>3, <3>4, <3>5
  <2> QED  BY <2>1, <2>2, <2>3, <2>4
<1> QED  BY <1>2, <1>3
-----------------------------------------------------------------------------
(* The adaptor between its requests and its replies.                       *)

\* The descriptor and the arguments kept are those of the request received
\* last, if that one waits for its answer and is a Redis request.
Current(p) ==
  p.at = received /\ p.redis =>
    redis = TRUE /\ desc = Desc(p.args) /\ strings = Convert(p.args)

\* The server is asked what the client's arguments are converted to.
Asks(p) == p.redis => p.args \in Requests /\ p.asked = Convert(p.args)

PendingItems == [args : {Plain} \cup Requests, asked : {Plain} \cup { Convert(a) : a \in Requests },
                 redis : BOOLEAN, at : Nat]

Kept == /\ pending \in Seq(PendingItems)
        /\ \A i \in 1 .. Len(pending) : Current(pending[i]) /\ Asks(pending[i])

\* The history of a completed exchange tells the truth about its reply.
Told == last.alone =>
          IF last.redis
            THEN last.reply = SendResp(Desc(last.args), Convert(last.args), last.resp)
            ELSE \/ last.spoken
                 \/ last.reply = Reply("ssdb", last.resp)

\* ... and about its response, which the server gives to those arguments.
Responses(a) == Answers(Convert(a)) \cup { <<Word(f)>> : f \in Failures }

Exchanged == last.redis => /\ last.args \in Requests
                           /\ \A a \in Requests : last.args = a => last.resp \in Responses(a)

RInv == TypeOK /\ Kept /\ Told /\ Exchanged

\* The answers depend on the data alone, which no request here changes.
LEMMA AnswersKept ==
  ASSUME store' = store, NEW CONSTANT asked
  PROVE  Answers(asked)' = Answers(asked)
<1>1. ASSUME NEW CONSTANT keys PROVE Found(keys)' = Found(keys)
  BY DEF Found, Entry
<1>2. ASSUME NEW CONSTANT c, NEW CONSTANT x, NEW CONSTANT y PROVE Within(c, x, y)' = Within(c, x, y)
  BY DEF Within
<1> QED  BY <1>1, <1>2 DEF Answers

\* So the last exchange stays true of the data.
LEMMA ExchangedKept ==
  ASSUME Exchanged, store' = store, last' = last
  PROVE  Exchanged'
<1>1. ASSUME NEW CONSTANT a \in Requests PROVE Responses(a)' = Responses(a)
  BY AnswersKept DEF Responses
<1> QED  BY <1>1 DEF Exchanged

\* The invariant holds at the start.
LEMMA InitRInv == Init => RInv
<1> SUFFICES ASSUME Init PROVE RInv OBVIOUS
<1>1. TypeOK
  <2>1. MaxReceived \in Nat /\ MaxPending \in Nat  BY RedisLinkAssumption
  <2>2. pending = <<>> /\ Len(pending) = 0 /\ received \in 0 .. MaxReceived
    BY <2>1 DEF Init
  <2>3. 1 .. Len(pending) = {} /\ Len(pending) <= MaxPending  BY <2>1, <2>2
  <2>4. store \in Stores /\ redis \in BOOLEAN /\ desc = NoDesc  BY DEF Init
  <2> QED  BY <2>2, <2>3, <2>4 DEF TypeOK
<1>2. Kept  BY DEF Init, Kept
<1>3. Told /\ Exchanged  BY DEF Init, Told, Exchanged, NothingYet
<1> QED  BY <1>1, <1>2, <1>3 DEF RInv

\* A request received is the last one: the descriptor of every other waiting
\* request is gone, whatever it was.
LEMMA Received ==
  ASSUME TypeOK, Kept, NEW p \in PendingItems,
         received < MaxReceived, Len(pending) < MaxPending,
         p.at = received + 1, Asks(p), received' = received + 1,
         pending' = Append(pending, p), store' = store,
         IF p.redis THEN redis' = TRUE /\ desc' = Desc(p.args) /\ strings' = Convert(p.args)
                    ELSE UNCHANGED <<redis, desc, strings>>
  PROVE  TypeOK' /\ Kept'
<1>1. /\ received \in Nat /\ received' \in 0 .. MaxReceived
      /\ Len(pending) \in Nat /\ Len(pending') = Len(pending) + 1 /\ Len(pending') <= MaxPending
      /\ pending' \in Seq(PendingItems)
  BY RedisLinkAssumption DEF TypeOK, Kept
<1>2. ASSUME NEW i \in 1 .. Len(pending')
      PROVE  IF i = Len(pending) + 1 THEN pending'[i] = p
             ELSE /\ i \in 1 .. Len(pending)
                  /\ pending'[i] = pending[i] /\ pending[i] \in PendingItems
                  /\ pending[i].at = received - Len(pending) + i
  <2>1. CASE i = Len(pending) + 1  BY <2>1 DEF Kept
  <2>2. CASE i # Len(pending) + 1
    <3>1. i \in 1 .. Len(pending)  BY <1>1, <2>2
    <3>2. pending'[i] = pending[i]  BY <3>1 DEF Kept
    <3>3. pending[i] \in PendingItems  BY <3>1 DEF Kept
    <3> QED  BY <2>2, <3>1, <3>2, <3>3 DEF TypeOK
  <2> QED  BY <2>1, <2>2
<1>3. ASSUME NEW i \in 1 .. Len(pending')
      PROVE  /\ pending'[i].at = received' - Len(pending') + i
             /\ Current(pending[i])' /\ Asks(pending[i])'
             /\ (redis' = FALSE => ~pending'[i].redis)
  <2>1. CASE i = Len(pending) + 1
    <3>1. pending'[i] = p  BY <1>2, <2>1
    <3>2. p.redis \in BOOLEAN  BY DEF PendingItems
    <3> QED  BY <1>1, <2>1, <3>1, <3>2 DEF Current, Asks, TypeOK
  <2>2. CASE i # Len(pending) + 1
    <3>1. /\ i \in 1 .. Len(pending) /\ pending'[i] = pending[i]
          /\ pending[i] \in PendingItems /\ pending[i].at = received - Len(pending) + i
      BY <1>2, <2>2
    <3>2. pending'[i].at # received' /\ pending'[i].at = received' - Len(pending') + i
      BY <1>1, <3>1
    <3>3. Current(pending[i])'  BY <3>2 DEF Current
    <3>4. Asks(pending[i])'  BY <3>1 DEF Asks, Kept
    <3>5. redis' = FALSE => ~pending'[i].redis
      <4>1. redis' = FALSE => redis = FALSE  BY DEF PendingItems
      <4> QED  BY <3>1, <4>1 DEF TypeOK
    <3> QED  BY <3>2, <3>3, <3>4, <3>5
  <2> QED  BY <2>1, <2>2
<1>4. redis' \in BOOLEAN /\ desc' \in cmd_table \cup {NoDesc} /\ (redis' = FALSE => desc' = NoDesc)
  BY DEF TypeOK, Desc
<1>5. TypeOK'  BY <1>1, <1>3, <1>4 DEF TypeOK
<1>6. Kept'  BY <1>1, <1>3 DEF Kept
<1> QED  BY <1>5, <1>6

\* What a request received adds to those that wait.
LEMMA PendingMade ==
  ASSUME TypeOK, NEW args \in {Plain} \cup Requests,
         NEW asked \in {Plain} \cup { Convert(a) : a \in Requests }, NEW r \in BOOLEAN
  PROVE  /\ Pending(args, asked, r) \in PendingItems
         /\ Pending(args, asked, r).at = received + 1
         /\ Pending(args, asked, r).redis = r
         /\ Pending(args, asked, r).args = args
         /\ Pending(args, asked, r).asked = asked
<1>1. received + 1 \in Nat  BY RedisLinkAssumption DEF TypeOK
<1> QED  BY <1>1 DEF Pending, PendingItems

\* Every step keeps the invariant.
LEMMA NextRInv == RInv /\ [Next]_vars => RInv'
<1> SUFFICES ASSUME RInv, [Next]_vars PROVE RInv' OBVIOUS
<1> USE DEF RInv
<1>1. ASSUME NEW args \in Requests, RecvRedis(args) PROVE RInv'
  <2> PICK p : p = Pending(args, Convert(args), TRUE) OBVIOUS
  <2>1. p \in PendingItems /\ p.at = received + 1 /\ p.redis = TRUE /\ p.args = args
        /\ p.asked = Convert(args)
    <3>1. args \in {Plain} \cup Requests  OBVIOUS
    <3>2. Convert(args) \in {Plain} \cup { Convert(a) : a \in Requests }  OBVIOUS
    <3>3. TRUE \in BOOLEAN  OBVIOUS
    <3> QED  BY <3>1, <3>2, <3>3, PendingMade, Zenon
  <2>2. TypeOK' /\ Kept'
    <3>1. /\ received < MaxReceived /\ Len(pending) < MaxPending
          /\ pending' = Append(pending, p) /\ received' = received + 1 /\ store' = store
          /\ redis' = TRUE /\ desc' = Desc(p.args) /\ strings' = Convert(p.args)
      BY <1>1, <2>1 DEF RecvRedis
    <3>2. Asks(p)  BY <2>1 DEF Asks
    <3> QED  BY <2>1, <3>1, <3>2, Received
  <2>3. Told'  BY <1>1 DEF RecvRedis, Told
  <2>4. Exchanged'  BY <1>1, ExchangedKept DEF RecvRedis
  <2> QED  BY <2>2, <2>3, <2>4
<1>2. ASSUME RecvSsdb PROVE RInv'
  <2> PICK p : p = Pending(Plain, Plain, FALSE) OBVIOUS
  <2>1. p \in PendingItems /\ p.at = received + 1 /\ p.redis = FALSE
    <3>1. Plain \in {Plain} \cup Requests  OBVIOUS
    <3>2. Plain \in {Plain} \cup { Convert(a) : a \in Requests }  OBVIOUS
    <3>3. FALSE \in BOOLEAN  OBVIOUS
    <3> QED  BY <3>1, <3>2, <3>3, PendingMade, Zenon
  <2>2. TypeOK' /\ Kept'
    <3>1. /\ received < MaxReceived /\ Len(pending) < MaxPending
          /\ pending' = Append(pending, p) /\ received' = received + 1 /\ store' = store
          /\ UNCHANGED <<redis, desc, strings>>
      BY <1>2, <2>1 DEF RecvSsdb
    <3>2. Asks(p)  BY <2>1 DEF Asks
    <3> QED  BY <2>1, <3>1, <3>2, Received
  <2>3. Told'  BY <1>2 DEF RecvSsdb, Told
  <2>4. Exchanged'  BY <1>2, ExchangedKept DEF RecvSsdb
  <2> QED  BY <2>2, <2>3, <2>4
<1>3. ASSUME pending # <<>>,
             NEW resp \in Answers(Head(pending).asked) \cup { <<Word(f)>> : f \in Failures },
             Answer(resp)
      PROVE RInv'
  <2>1. /\ pending' = Tail(pending)
        /\ UNCHANGED <<store, redis, desc, strings, received>>
    BY <1>3 DEF Answer
  <2>2. /\ pending \in Seq(PendingItems) /\ pending' \in Seq(PendingItems)
        /\ Len(pending) \in Nat /\ Len(pending') = Len(pending) - 1
        /\ \A i \in 1 .. Len(pending') : pending'[i] = pending[i + 1] /\ i + 1 \in 1 .. Len(pending)
    BY <1>3, <2>1 DEF Kept
  <2>3. TypeOK'
    <3>1. \A i \in 1 .. Len(pending') : pending'[i].at = received - Len(pending') + i
      <4>1. received \in Int  BY RedisLinkAssumption DEF TypeOK
      <4> SUFFICES ASSUME NEW i \in 1 .. Len(pending')
                   PROVE  pending'[i].at = received - Len(pending') + i
        OBVIOUS
      <4>2. pending'[i] = pending[i + 1] /\ i + 1 \in 1 .. Len(pending)  BY <2>2
      <4>3. pending[i + 1].at = received - Len(pending) + (i + 1)  BY <4>2 DEF TypeOK
      <4> QED  BY <2>2, <4>1, <4>2, <4>3
    <3>2. Len(pending') <= MaxPending  BY <2>2, RedisLinkAssumption DEF TypeOK
    <3> QED  BY <2>1, <2>2, <3>1, <3>2 DEF TypeOK
  <2>4. Kept'
    BY <2>1, <2>2 DEF Kept, Current, Asks
  <2> DEFINE p == Head(pending)
  <2>5. p = pending[1] /\ 1 \in 1 .. Len(pending)  BY <1>3 DEF Kept
  <2>6. Current(p) /\ Asks(p)  BY <2>5 DEF Kept
  <2>7. /\ last'.args = p.args /\ last'.redis = p.redis /\ last'.resp = resp
        /\ last'.reply = Send(resp) /\ last'.alone = (p.at = received)
        /\ last'.spoken = redis
    BY <1>3 DEF Answer
  <2>8. resp \in Answers(p.asked) \cup { <<Word(f)>> : f \in Failures }  OBVIOUS
  <2> HIDE DEF p
  <2>9. Told'
    <3>1. ASSUME last'.alone, last'.redis
          PROVE  last'.reply = SendResp(Desc(p.args), Convert(p.args), resp)
      BY <2>6, <2>7, <3>1 DEF Current, Send
    <3>2. ASSUME ~last'.redis
          PROVE  last'.spoken \/ last'.reply = Reply("ssdb", resp)
      BY <2>7, <3>2 DEF Send
    <3> QED  BY <2>7, <3>1, <3>2 DEF Told
  <2>10. Exchanged'
    <3>1. ASSUME last'.redis PROVE last'.args \in Requests /\ p.args = last'.args /\ p.asked = Convert(p.args)
      BY <2>6, <2>7, <3>1 DEF Asks
    <3>2. ASSUME last'.redis, NEW CONSTANT a \in Requests, last'.args = a
          PROVE  last'.resp \in Responses(a)'
      <4>1. p.asked = Convert(a)  BY <3>1, <3>2
      <4>2. Answers(Convert(a))' = Answers(Convert(a))  BY <2>1, AnswersKept
      <4> QED  BY <2>7, <2>8, <4>1, <4>2 DEF Responses
    <3> QED  BY <3>1, <3>2 DEF Exchanged
  <2> QED  BY <2>3, <2>4, <2>9, <2>10
<1>4. ASSUME UNCHANGED vars PROVE RInv'
  <2>1. TypeOK'  BY <1>4 DEF vars, TypeOK
  <2>2. Kept'  BY <1>4 DEF vars, Kept, Current, Asks
  <2>3. Told'  BY <1>4 DEF vars, Told
  <2>4. Exchanged'  BY <1>4, ExchangedKept DEF vars
  <2> QED  BY <2>1, <2>2, <2>3, <2>4
<1> QED  BY <1>1, <1>2, <1>3, <1>4 DEF Next, Respond

\* What an exchange is when the request was answered before the next one.
LEMMA AloneExchange ==
  ASSUME RInv, last.alone, last.redis
  PROVE  /\ store \in Stores /\ last.args \in Requests
         /\ last.resp \in Responses(last.args)
         /\ last.reply = SendResp(Desc(last.args), Convert(last.args), last.resp)
  BY DEF RInv, TypeOK, Told, Exchanged

\* ... and when the response is "ok" it is one of the server's.
LEMMA OkAnswered ==
  ASSUME RInv, Served
  PROVE  /\ store \in Stores /\ last.args \in Requests /\ last.resp[1].word = "ok"
         /\ last.resp \in Answers(Convert(last.args))
         /\ last.reply = SendResp(Desc(last.args), Convert(last.args), last.resp)
<1>1. /\ store \in Stores /\ last.args \in Requests /\ last.resp[1].word = "ok"
      /\ last.resp \in Responses(last.args)
      /\ last.reply = SendResp(Desc(last.args), Convert(last.args), last.resp)
  BY AloneExchange DEF Served
<1>2. ASSUME NEW f \in Failures, last.resp = <<Word(f)>> PROVE FALSE
  <2>1. Word(f).word = f  BY DEF Word
  <2>2. f # "ok"  BY RedisLinkAssumption
  <2> QED  BY <1>1, <1>2, <2>1, <2>2
<1> QED  BY <1>1, <1>2 DEF Responses

(* The adaptor's state stays in its types; the requests that wait are the  *)
(* last ones received, in their order; before the first Redis request      *)
(* there is neither an adaptor nor a Redis request that waits              *)
(* (link.cpp:256-283, link_redis.cpp:316-346).                             *)
THEOREM RedisTypeCorrect == Spec => []TypeOK
<1>1. RInv => TypeOK  BY DEF RInv
<1> QED  BY <1>1, InitRInv, NextRInv, PTL DEF Spec

(* An application that answers a request before it takes the next one      *)
(* gives every reply the shape and the arguments of its own request        *)
(* (link.cpp:374, link_redis.cpp:346), and speaks SSDB until the first     *)
(* Redis request.                                                          *)
THEOREM RepliesOfTheirRequests == Spec => []ReplyOfItsRequest
<1>1. RInv => ReplyOfItsRequest  BY DEF RInv, Told, ReplyOfItsRequest
<1> QED  BY <1>1, InitRInv, NextRInv, PTL DEF Spec

(* Whatever was asked and answered, the reply announces as many elements   *)
(* as it has and ends where the client expects the next one to begin,      *)
(* unless a single value is missing (link_redis.cpp:349-477).              *)
THEOREM RepliesKeepTheirFraming == Spec => []RepliesFramed
<1>1. RInv => RepliesFramed
  <2> SUFFICES ASSUME RInv, last.alone, last.redis
               PROVE  \/ Framed(last.reply)
                      \/ last.resp = Ok(<<>>) /\ Desc(last.args) \in BulkCommands \cup IntCommands
    BY DEF RepliesFramed
  <2>1. /\ store \in Stores /\ last.args \in Requests
        /\ last.resp \in Responses(last.args)
        /\ last.reply = SendResp(Desc(last.args), Convert(last.args), last.resp)
    BY AloneExchange
  <2>2. CASE last.resp \in Answers(Convert(last.args))
    BY <2>1, <2>2, FramedUnlessMissing
  <2>3. CASE last.resp \in { <<Word(f)>> : f \in Failures }
    <3>1. PICK f \in Failures : last.resp = <<Word(f)>>  BY <2>3
    <3>2. last.resp[1].word # "ok"
      <4>1. Word(f).word = f  BY DEF Word
      <4>2. f # "ok"  BY RedisLinkAssumption
      <4> QED  BY <3>1, <4>1, <4>2
    <3> QED  BY <2>1, <3>2, SendFailed
  <2> QED  BY <2>1, <2>2, <2>3 DEF Responses
<1> QED  BY <1>1, InitRInv, NextRInv, PTL DEF Spec

(* mget and hmget reply with one element for each key in the order asked,  *)
(* however many keys are missing or repeated, although the loop walks the  *)
(* keys and the server's shorter list side by side                         *)
(* (link_redis.cpp:398-443).                                               *)
THEOREM ValuesAreInRequestOrder == Spec => []ValuesInRequestOrder
<1>1. RInv => ValuesInRequestOrder
  <2> SUFFICES ASSUME RInv, Served, last.args[1].word \in KeyedCommands
               PROVE  LET keys == KeysAsked(last.args[1].word, last.args)
                      IN  /\ Len(last.reply.vals) = Len(keys)
                          /\ \A j \in 1 .. Len(keys) :
                               last.reply.vals[j] = IF keys[j] \in store.found
                                                      THEN Value(keys[j]) ELSE Nil
    BY DEF ValuesInRequestOrder
  <2>1. /\ last.args \in Requests /\ last.resp \in Answers(Convert(last.args))
        /\ last.reply = SendResp(Desc(last.args), Convert(last.args), last.resp)
    BY OkAnswered
  <2>2. last.args \in Seq(Tokens) /\ last.args # <<>>  BY <2>1, RedisLinkAssumption
  <2>3. Desc(last.args) = last.args[1].word  BY KeyedKind DEF Desc
  <2> QED  BY <2>1, <2>2, <2>3, KeyedServed
<1> QED  BY <1>1, InitRInv, NextRInv, PTL DEF Spec

(* zrange and zrevrange reply with the members between the two positions   *)
(* asked for, although the server is asked for a start and a size          *)
(* (link_redis.cpp:201-230), for any number of members.                    *)
THEOREM WindowsAreAsAsked == Spec => []WindowAsAsked
<1>1. RInv => WindowAsAsked
  <2> SUFFICES ASSUME RInv, Served, last.args[1].word \in RankCommands, Len(last.args) <= 5
               PROVE  LET start == last.args[3].num  end == last.args[4].num
                          all   == Ordered(last.args[1].word, store.scores)
                      IN  \/ start < 0 \/ Backwards(start, end)
                          \/ last.reply.vals =
                               Elements(SubSeq(all, start + 1,
                                               IF end = -1 \/ end >= Len(all)
                                                 THEN Len(all) ELSE end + 1),
                                        AsksScores(last.args))
    BY DEF WindowAsAsked
  <2> PICK a : a = last.args  OBVIOUS
  <2>1. /\ store \in Stores /\ a \in Requests /\ last.resp \in Answers(Convert(a))
        /\ last.resp[1].word = "ok"
        /\ last.reply = SendResp(Desc(a), Convert(a), last.resp)
    BY OkAnswered
  <2>2. PICK start \in Int, end \in Int : start = a[3].num /\ end = a[4].num
    BY <2>1, RankServed
  <2>3. PICK all : all = Ordered(a[1].word, store.scores)  OBVIOUS
  <2>4. last.reply.vals = Elements(Slice(all, start, WindowSize(start, end)),
                                   Len(a) > 4 /\ a[5].word = "withscores")
    BY <2>1, <2>2, <2>3, RankServed
  <2>5. (Len(a) > 4 /\ a[5].word = "withscores") = AsksScores(a)
    <3>1. Len(a) \in Nat /\ Len(a) <= 5  BY <2>1, RequestType
    <3>2. \A i \in 5 .. Len(a) : i = 5 /\ Len(a) > 4  BY <3>1
    <3>3. Len(a) > 4 => 5 \in 5 .. Len(a)  BY <3>1
    <3> QED  BY <3>2, <3>3 DEF AsksScores
  <2> SUFFICES ASSUME ~(start < 0), ~Backwards(start, end)
               PROVE  last.reply.vals =
                        Elements(SubSeq(all, start + 1,
                                        IF end = -1 \/ end >= Len(all)
                                          THEN Len(all) ELSE end + 1),
                                 AsksScores(a))
    BY <2>2, <2>3
  <2>6. PICK T : all \in Seq(T)  BY <2>1, <2>3, StoreType
  <2>7. start \in Nat  OBVIOUS
  <2>8. Slice(all, start, WindowSize(start, end))
          = SubSeq(all, start + 1, IF end = -1 \/ end >= Len(all) THEN Len(all) ELSE end + 1)
    BY <2>6, <2>7, WindowIsAsked
  <2> QED  BY <2>4, <2>5, <2>8
<1> QED  BY <1>1, InitRInv, NextRInv, PTL DEF Spec

(* zrangebyscore and zrevrangebyscore reply with the members between the   *)
(* bounds, cut by LIMIT, for any options in any order, any number of       *)
(* members and any int (link_redis.cpp:232-311).                           *)
THEOREM ScoresAreBetween == Spec => []ScoresBetween
<1>1. RInv => ScoresBetween
  <2> SUFFICES ASSUME RInv, Served, last.args[1].word \in ScoreCommands
               PROVE  ScoresBetween
    BY DEF ScoresBetween
  <2> PICK a : a = last.args  OBVIOUS
  <2>1. /\ store \in Stores /\ a \in Requests /\ last.resp \in Answers(Convert(a))
        /\ last.resp[1].word = "ok"
        /\ last.reply = SendResp(Desc(a), Convert(a), last.resp)
    BY OkAnswered
  <2>2. /\ Len(a) >= 4
        /\ last.reply.vals = Elements(Slice(Ordered(a[1].word, ScoresAsked(a)),
                                            OffsetOf(a), CountOf(a)), AsksScores(a))
    BY <2>1, ScoreServed
  <2>3. a \in Seq(Tokens) /\ a[3] \in Tokens /\ a[4] \in Tokens
    <3>1. a \in Seq(Tokens) /\ Len(a) \in Nat /\ \A i \in 1 .. Len(a) : a[i] \in Tokens
      BY <2>1, RequestType
    <3>2. 3 \in 1 .. Len(a) /\ 4 \in 1 .. Len(a)  BY <2>2, <3>1
    <3> QED  BY <3>1, <3>2
  <2> DEFINE lo == IF a[1].word = "zrangebyscore" THEN a[3] ELSE a[4]
             hi == IF a[1].word = "zrangebyscore" THEN a[4] ELSE a[3]
             between == { s \in store.scores : NotBelow(s, lo) /\ NotAbove(s, hi) }
             all == Ordered(a[1].word, between)
             cut == IF Limits(a) = {} THEN Slice(all, 0, AllOfThem.num)
                    ELSE LET i == CHOOSE i \in Limits(a) : TRUE
                         IN  Slice(all, a[i + 1].num, a[i + 2].num)
  <2>4. ASSUME Exact(lo, "-inf"), Exact(hi, "+inf"), ProperLimit(a)
        PROVE  last.reply.vals = Elements(cut, AsksScores(a))
    <3>1. ScoresAsked(a) = between
      <4> PICK c \in ScoreCommands : c = a[1].word  OBVIOUS
      <4> PICK x \in Tokens, y \in Tokens : x = a[3] /\ y = a[4]  BY <2>3
      <4>1. Within(c, Bound(x, IF c = "zrangebyscore" THEN 1 ELSE -1),
                      Bound(y, IF c = "zrangebyscore" THEN -1 ELSE 1))
              = { s \in store.scores :
                    /\ NotBelow(s, IF c = "zrangebyscore" THEN x ELSE y)
                    /\ NotAbove(s, IF c = "zrangebyscore" THEN y ELSE x) }
        BY <2>1, <2>4, WithinBounds
      <4> QED  BY <4>1 DEF ScoresAsked
    <3>2. IF Limits(a) = {} THEN OffsetOf(a) = 0 /\ CountOf(a) = AllOfThem.num
          ELSE LET i == CHOOSE i \in Limits(a) : TRUE
               IN  OffsetOf(a) = a[i + 1].num /\ CountOf(a) = a[i + 2].num
      BY <2>2, <2>3, <2>4, LimitIsAsked
    <3> HIDE DEF between, lo, hi
    <3>3. Slice(all, OffsetOf(a), CountOf(a)) = cut  BY <3>2
    <3> QED  BY <2>2, <3>1, <3>3
  <2> QED  BY <2>4 DEF ScoresBetween
<1> QED  BY <1>1, InitRInv, NextRInv, PTL DEF Spec
=============================================================================
