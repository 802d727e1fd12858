# A TLA+ model of DBSS

DBSS is a LuaJIT client for the SSDB key-value server: `DB.lua` calls, through
the FFI, a C API (`src/DBSS.cc`) over a C++ client (`src/SSDB_impl.cpp`) over
one TCP connection (`src/net/link.cpp`, `src/util/bytes.cpp`). This directory
holds TLA+ modules of that code, TLC configurations that check them on small
instances, and TLAPS proofs of what matters most for every instance.

## 1. Inventory of the system

| Component | State it keeps | Operations | Calls | What makes it correct |
|---|---|---|---|---|
| `Buffer` (`util/bytes.{h,cpp}`) | block `buf`, run `data_`/`size_`, `total_` | `space incr decr nice grow append append_record` | `malloc realloc` | the run stays in the block; `nice` never overlaps; growth is bounded |
| `Link` (`net/link.{h,cpp}`) | socket, `input`, `output`, `recv_data`, `redis`, `noblock_`, `error_` | `connect send write flush recv read response request` and, for servers, `listen accept` | `Buffer`, sockets, `RedisLink` | packets come out as they went in; replies stay in step with requests; every call returns |
| `ClientImpl` (`SSDB_impl.{h,cpp}`) | `link`, `resp_` | `connect request` and a method per command | `Link` | the `Status` and the values returned come from the reply to this request |
| class `DBSS` and C API (`DBSS.cc`) | `client`, the last status `s` | a method and a C function per command | `ClientImpl` | the int returned and the output parameters say what happened |
| `DB.lua` | the `DBSS*` | a method per command | C API | a Lua caller can tell a failure from a value |
| `RedisLink` (`net/link_redis.{h,cpp}`) | `cmd`, `req_desc`, `recv_bytes`, `recv_string`, and `errno` | `recv_req parse_req convert_req send_resp` | `Buffer`, `strings.h` | a request in pieces is parsed once and whole; it asks what was asked; a response has the shape of its request |
| `util/strings.h` | `errno` | `str_to_int str_to_int64 str` (the rest has no caller in the library) | | a number that is none is told from one |
| `Decoder`, `Buffer::read_record` | | | | dead code |
| `Util.lua helper.lua config.lua` | none | printing, paths, settings | | no part in the client |
| `demo.cpp net/test*.cpp luatest.lua` | | callers of the library | all of the above | |

The components are stacked and synchronous: one thread calls down from Lua to
the socket and waits. Concurrency is between that thread and the far end: the
kernel takes and delivers any part of the bytes at any time, the server
answers when it likes, the connection closes or is reset between any two
system calls, and `realloc` may fail. State that outlives a call (the two
buffers, the member `s`, the caller's output parameters, the adaptor's
descriptor, `errno`) carries the effects of one call, failed or not, into the
next. That, with the cutting of the
streams, is what is hard here; `PROJECT.json` lists each hazard at its line.

## 2. Modules

| Module | Models | Composes |
|---|---|---|
| `Buffer` | `class Buffer`: offset, size and capacity; the bytes are left out | |
| `Link` | one `ClientImpl::request` after another over a `Link`, with the socket and the server as the code sees them | extends `Buffer` |
| `Channel` | abstract: what a caller of `request` may rely on | implemented by `Link` |
| `Framing` | the SSDB wire format byte by byte, as operators: `append_record`, `send`, the parser of `recv` | |
| `Dbss` | the commands of `ClientImpl`, class `DBSS` and the C API | its connection is an instance of `Channel` |
| `LuaClient` | the wrappers of `DB.lua` | extends `Dbss` |
| `LinkNoBlock` | the same calls over a non-blocking socket: the loops of `read()` and `write()` | extends `Link` |
| `Views` | the cells of the input buffer's block, and the `Bytes` that point into them | extends `Buffer` |
| `RedisFraming` | a stream of packets of either protocol, `read` and `recv` in pieces, with `parse_req` and `errno` | extends `Framing` |
| `RedisCommands` | `convert_req` and `send_resp` as operators | |
| `RedisLink` | the serving end: requests taken and answered through the adaptor | extends `RedisCommands` |
| `Numbers` | a number on its way from Lua to the server and back | |
| `Recursion` | lemmas on functions defined by recursion over numbers or along any descent, on sequences, and on `FlattenSeq` | |
| `LinkProofs`, `ViewsProofs`, `FramingProofs`, `RedisFramingProofs`, `RedisLinkProofs`, `LuaClientProofs`, `NumbersProofs` | theorems | extend the modules they are named after; `LinkProofs` also `LinkNoBlock`, `RedisFramingProofs` also `FramingProofs`, and it, `FramingProofs` and `RedisLinkProofs` also `Recursion` |
| `MCLink`, `MCNoBlock`, `MCViews`, `MCRedisFraming`, `MCRedisLink`, `MCDbss`, `MCLuaClient`, `MCNumbers` | the small instances | |

`Link`, `Framing` and `Views` are three views of the same `recv()`. `Link`
counts bytes and knows where packets end; `Framing` knows what the bytes are,
and `RedisFraming` shows that `recv()` finds those ends, wherever the stream is cut and
whatever the records hold; `Views` knows which cell of the block holds which
byte and shows that moving them about loses none. `Channel` is the seam between layers: `Link` is proved to implement
it, and every request of `Dbss` is an action of it.

### Link and the code

| Code | Model |
|---|---|
| `ClientImpl::request`: `send`, `flush`, `response` | `pc`: `"append"`, `"flush"`, then `"recv"` and `"read"` in turn; `"idle"` between calls |
| `send`: one `append_record` per record, then `append('\n')` | `AppendPiece`; `AppendGrow` is one turn of its `while(size > space()) grow()`; `AppendFails` the ignored `-1` |
| `flush`/`write` | `Write(k)`: the kernel takes `k` bytes; `WriteFails`; `Flushed` |
| `recv` | by what it finds: `RecvEmpty`, `RecvReady`, `RecvOversized`, `RecvPartial` (with `nice` and `grow`), `RecvNoRoom` |
| `read` | `ReadData(k)`; `ReadFails` for `-1`, end of stream and no space, which `response` treats alike |
| `input`, `output` | `in`, `out`: records of module `Buffer` |
| the far end | `ServerExecute`, `Disconnect`: external |

The streams are positions: `sent` lists where packets end in the output,
`replies` where replies end in the input, `flushed`, `avail` and `rcvd` how
far each stream has come. `held`, `intact` and `sent[i].req`, `sent[i].whole`
are history: which call a packet belongs to and whether a record is missing.
A reply has a length and, if it is one `recv` refuses, the position at which
`recv` notices; `RedisFraming` shows that position is a function of the
bytes alone (`RefusedForAReason`). A server that has an incomplete packet
waits; one that sees a line with no record before it ignores it.

Assumed of the environment: the socket blocks, as every user of the client
has it (`EINTR` is retried by the loops of `read` and `write`); the kernel's
buffers have no limit, so a write is never refused for long; the server
answers each packet once, in order, with a packet `recv` can parse. The first
byte of a reply is never `'*'`, so `recv` never enters the Redis branch.
`SIGPIPE` is ignored (`SSDB_impl.cpp:60`), so a write to a reset connection is
an error and no more.

### LinkNoBlock and the code

After `noblock(true)` the two loops go round. `NbWriteBegins`, `NbWrite(k)`,
`NbWriteReturns` and `NbWriteFails` are `write()`: `nice()` comes after the
loop, and not at all when it fails. `NbReadBegins`, `NbRead(k)` and its three
ways out are `read()`: `NbReadReturns` with bytes, `NbReadNothing` for
`EWOULDBLOCK` at once, `NbReadEnds` for the end of the stream, which overrides
what was read before it. `got` is the local `ret`. `flush()` calls `write()`
again until the buffer is empty; `response()` takes a 0 from `read()` for a
failure. All the other steps are those of `Link`.

### Views and the code

`mem` maps each cell of the input buffer's block to the number of the stream
byte it holds; `NiceMem`, `GrowMem` and `ReadMem` are the `memcpy`, `realloc`
and `::read`. `realloc` may return another block (`block'`) or the same. A
view is what a `Bytes` is: block, position and length, with the bytes it was
made of. `RecvReady`, `RecvNice`, `RecvGrow` are `recv()`; `Read(k)` is
`read()`. The caller calls them in any order and keeps every view.

### RedisFraming, RedisCommands, RedisLink and the code

`RedisFraming!Recv` is `Link::recv` with its test for `'*'`, `ParseReq` is
`parse_req`, which starts again from the first byte at every call. `errno` is
state: `strtol` leaves it alone when all is well, and `parse_req` reads it.
`convert_req` (`AfterConvert`) calls `str_to_int64` for the bounds of a window
(`HasWindow`) and `str_to_int` for each exclusive score of a range by score
(`HasScores`, `AfterScore`). Either clears `errno` when the whole text is a number
and otherwise leaves in it the `ERANGE` of digits beyond a `long` (`LongMax`), what
was there, or `EINVAL` (`AfterNumber`). A read may leave `EAGAIN` in it. A loop of
the code that turns an unknown number of times is a recursive function over what it has
passed: `Turn` is one turn of the loop of `recv` and `Argument` one of the loop
of `parse_req`. Lengths are not cut to the width of an int: bodies are taken to be
shorter than 2 GB.

`RedisCommands` has `cmds_raw` as sets of command names by reply type, one
operator per strategy of `convert_req` (`SwappedPairs`, `Window`,
`ScoreRange`) and the branches of `send_resp`. Strings are tokens: a word, or
a number, perhaps with the `(` of an exclusive score. Letter case and the SSDB
names of commands are left out.

In `RedisLink` an application takes requests (`RecvRedis`, `RecvSsdb`) and
answers them in turn (`Respond`, `Answer`). `desc` and `strings` are the two
members that `recv_req` overwrites and `send_resp` reads.
Two corners are simpler than the code: window positions are unbounded integers,
where `end - start + 1` overflows an `int64_t` if the end is `INT64_MAX`
(`WindowSize`), and an `hmget` without arguments, for which the code steps past
the end of a vector (link_redis.cpp:410), is taken to ask for no keys
(`KeysAsked`). The server's answers
(`Answers`) are external: what the adaptor relies on SSDB to answer, over a set
of keys with values and a sorted set known by its scores.

### Dbss and the code

`KvCommands`, `HashCommands`, `ZsetCommands` and `QueueCommands` give the
reader (`Status`, `_read_int64`, `_read_str`, `_read_list`) of each command.
`Call` starts a method, `Return` ends it: it reads the reply, assigns `s`,
writes the output parameter and computes the int. `Throws` is a method whose
`std::string(NULL)` throws inside its `try` block. `CallUnconnected` is a
method on a `DBSS` whose `connect` failed: the NULL `link` is dereferenced and
the process ends. A value is represented by the number of the call whose reply
it came in, so "this is the answer to my question" is a statement about the
model's data. A `NULL` passed to a method without a `try` block is not
modelled: the exception leaves an `extern "C"` function.

### LuaClient and the code

A wrapper of `DB.lua` makes fresh output parameters with `ffi.new` (`Begin`),
calls one C function (`Invoke`, then `Complete` when it returns) and builds its
result (`Convert`). `KvWrappers` to `QueueWrappers` say what each makes of the
call: most drop the int and return what the parameter holds. `Target` is the
wrapper for one key, which `multi_get` and its like fall back on; `Optional`
are the wrappers that pass NULL for a bound left out, or for a nil name where they
do not check it first, so that `Throws` may happen. `SlotsRead` is how many slots of the vector are read: the count for
most, `#keys * 2` for the three `multi_` ones, whatever the count. A slot that
was never written yields some string or ends the process. Assumed of the
server: a list of pairs has pairs, a `multi_` answer no more of them than keys.
`Dbss` shares its parameters between calls and `LuaClient` does not: the first
is what a C caller may do, the second what `DB.lua` does.

### Numbers and the code

A Lua number is a double, counted in halves so that there are fractions. `set`
passes it as an `int` (`ToInt`), `hset` and the `multi_` wrappers as text of 14
significant digits (`Text`), `zset` and the `incr` wrappers as an `int64_t` (`ToLong`); a
conversion out of range may give any value of the type. `Text` is `"%.14g"`: a whole
number of up to 14 digits and a half of up to 13 before the point are kept
(`Carries`); a half with 14 digits before the point goes up or down (which, the
model leaves open), so that 12345678901234.5 is stored as a whole number; anything
larger is written with an exponent, which the server takes for no integer
(`Exponent`). What comes back goes
through `tonumber()` (`ToNumber`), the nearest double. `given` and `exact` are
history: the number the program has put there, as long as each call was given
one that its own conversion carries. The server's `incr` is external: it counts
in `int64_t` and refuses what is no integer or would overflow.

## 3. Properties

| Property | Says |
|---|---|
| `Link!TypeOK` | runs stay inside their blocks, positions stay consistent |
| `ReplyMatches` | the reply a call returns is the reply to its own packet |
| `AnswersWholeRequest` | ... and that packet carried every record of the request, on a connection whose output block was reused by earlier calls |
| `FailStop` | after a NULL no call ever succeeds |
| `Quiescent` | between calls both buffers are empty and the server has executed exactly the calls that returned |
| `NoSpuriousEof` | `read()` is never entered with a full buffer, whose 0 would pass for the end of the stream |
| `GrowsOnlyWhenHalfFull` | a buffer grows only when what it holds fills half of it |
| `ImplementsChannel` | the connection implements `Channel` |
| `Returns` | every call returns |
| `ReadyIsReturned` | no call returns NULL with its whole reply in the input buffer (on a blocking socket) |
| `NbReadHasRoom` | a non-blocking `read()` that has read nothing yet has room |
| `NbReturns` | every call on a non-blocking socket returns, though the server may never answer |
| `NbInStep` | on a non-blocking socket a connection none of whose calls has come back with NULL is in step |
| `InputIsTheStream` | the unconsumed input is the bytes received, each in its place |
| `TakingKeeps` | the `Bytes` of a packet are good when returned, and taking packets spoils none |
| `SecondHalfKept` | making room leaves the `Bytes` in the second half of the block as they were |
| `InOrder` | packets, of one protocol or two, come out unaltered and in order |
| `ReadyWhenComplete` | `recv()` never says "not ready" of a complete packet |
| `RefusedForAReason` | the three ways a well-formed stream of both protocols is refused, and no fourth; what is over the limit is refused |
| `ReplyOfItsRequest` | the answer to the latest request is encoded for that request |
| `RepliesFramed` | a Redis client can find the end of each reply |
| `ValuesInRequestOrder` | `mget`: an element per key in the order asked, nil for the missing, repeated keys included |
| `WindowAsAsked`, `ScoresBetween` | `zrange` and `zrangebyscore` return the members asked for, their scores only if asked |
| `SuccessIsReal` | success means this request was executed, answered ok, and its values delivered |
| `NothingStale` | no earlier call's string or list is ever left in the output |
| `BrokenIsTold` | after a connection failure nothing reports success, not even from an old status |
| `LuaResultIsReal` | a Lua result other than 0, -1, "" or {} comes whole from the answer to this call |
| `UnwrittenOnlyWhenMissing` | a `multi_` wrapper reads unwritten slots only if the answer is incomplete or missing |
| `OkHasARequest` | (violated) a method that reports success has made a request |
| `KeptAsGiven` | the server holds the sum of the numbers given, while each call can carry its own: a text those of at most 14 significant digits |
| `AnswerIsTheNumber` | an answer below 2^53 is the server's number |
| `AnswersFollow` | rounding hides a counter's progress only beyond 2^53, and never shows it going back |

## 4. Runs and bounds

The literal sizes are scaled: a block of 1 byte for the 8 of `ZERO_BUFFER_SIZE`, a
packet limit of 12, and `grow()` through blocks of 1, 3, 6, 12 and 24 bytes in `link`,
1, 2, 16 and 32 in `link_memory`, which has the eightfold step, and 1, 4, 8, 16 and 32
in the others, for 8 bytes, 8 KB, 64 KB, 512 KB, 1 MB and so on to what an int counts.
What matters is their order, and that a reply can be shorter than a block, longer
than one, over the packet limit and over the largest block: `MCReplies` has one of
each. In `link` three requests on end do not fit in the largest block, so that
`AnswersWholeRequest` stands or falls with the `nice()` that reclaims what was
sent.

| Run | Question | Bounds | Result |
|---|---|---|---|
| `link` | with memory: safety, refinement, liveness | 3 calls of two records: enough for a buffer to be reused, to grow with an offset and to be reused again; largest block 24 bytes for requests of 9 and replies of 5, 16 and 34 | holds, 275 000 states |
| `link_memory` | what survives memory failure | 2 calls, one failing `realloc` anywhere, a request larger than the largest block, every reply | holds, 757 000 states |
| `link_oom` | does `ReplyMatches` survive it | 2 calls, one failure | violated |
| `link_dropped` | does `AnswersWholeRequest` survive it | 2 calls, one failure | violated |
| `noblock` | what a non-blocking socket keeps | 2 calls, one failing `realloc` | holds, 276 000 states |
| `views` | is the input the stream, and how long are `Bytes` good | streams of up to 11 bytes in up to 4 packets, through blocks of 1, 4, 8 and 16 bytes, so that every block is filled, reused and outgrown | holds, 45 000 states |
| `framing` | are packets of both protocols found in any pieces | every stream of 2 packets of 59 kinds: bodies empty, with line ends, like framing, of a two-digit length; both line ends, blank lines; a limit of 17 bytes that packets fall short of, meet and pass; and every stream of 3 packets, two of the kinds that set, clear or pass by `errno` (windows and exclusive scores with good, bad and too long numbers) and one plain packet that meets it | holds, 688 000 states |
| `redis_link` | does the adaptor ask and answer what was asked | 2 requests of 108, the second taken before or after the first is answered, so that each follows each other one; data of 0 to 3 scores and 0 to 2 values; an int that counts to 7, with a score of 12 | holds, 779 000 states |
| `dbss` | do the methods tell the truth | all 43 methods, 3 requests, answers of 0 to 2 values, NULL strings | holds, 109 000 states |
| `dbss_stale` | does success mean a request | 1 request | violated |
| `lua` | does a Lua result mean what it says | all 42 wrappers, 2 requests, up to 2 keys, answers of up to 4 values | holds, 286 000 states |
| `numbers` | do numbers survive the three conversions | an int up to 3, 14 digits up to 9, 2^53 as 16, an `int64_t` up to 31; whole numbers, halves and numbers beyond each limit | holds, 6 800 states |

Deadlock is not checked: every model stops when the caller has made its calls
or the process has ended.

**Fairness** (`FairSpec`): weak fairness of the client's steps, because the
thread runs and the kernel delivers what has arrived and accepts what is
written, and of the server's, because a server that stays connected answers
what it was sent. Nobody has to call, and nobody has to disconnect.
`response()` has no timeout, so without the server's fairness a call may wait
for ever.

`NbFairSpec` assumes less of the server, nothing at all, and more of the
kernel: `flush()` may be told `EWOULDBLOCK` any number of times, so weak
fairness would let it spin for ever; strong fairness of `NbWrite` says that a
kernel asked again and again takes some bytes in the end.

### What the violated runs show

- `link_oom`: with half a reply in the input buffer `recv()` fails to grow it
  and returns NULL (link.cpp:356). The bytes stay, the connection stays open;
  when the next call's `recv()` succeeds in growing, it completes the old reply
  and returns it as the new one. All later replies are off by one. `link.h:94`
  promises of `request` a response to the request sent, or `NULL: error`.
- `link_dropped`: `send()` ignores what `append_record()` returns
  (link.cpp:379), so a record is missing and the packet is sent anyway.
- `dbss_stale`: `keys(NULL, ...)` throws before the request, and `return
  s.ok()` returns the previous call's success (DBSS.cc:126). `DB.lua` passes
  NULL for a bound that is left out.

### What a reader of the code may not expect

No run is about these; the steps are in the models, and the properties say how
far they reach.

- A non-blocking `read()` returns 0 both for `EWOULDBLOCK` and for the end of
  the stream, and `response()` returns NULL for it (link.cpp:439) though
  `link.h:78` has it wait (`NbReadNothing`). The reply stays owed, and the next
  call gets it. `NbInStep` says that a connection without such a call, and without
one for which `recv()` had no room, is in step, and nothing of the calls after
one.
- The end of the stream overrides what the same non-blocking `read()` read
  before it (link.cpp:201, `NbReadEnds`): the reply is in the buffer and NULL is
  returned.
- `nice()` promises to keep the second half of the block "so that the `Bytes`
  already generated stay valid" (`bytes.cpp:20`). It keeps that half
  (`SecondHalfKept`); a packet that begins in the first half is overwritten.
  Nothing in the repository keeps `Bytes` that long.
- A window whose last bound is no number leaves `EINVAL` in `errno`, unless
  another error is there already, and so does an exclusive score that is no
  integer, such as that of `ZRANGEBYSCORE z (1.5 +inf` (link_redis.cpp:273-290);
  the next Redis request on the connection is refused (link_redis.cpp:533), its
  sender having done nothing wrong. It is one of the reasons of `RefusedForAReason`.
- `hset` of a number with more than 14 significant digits stores another number,
  or a text like `1e+15` that `hincr` refuses (DB.lua:322); `KeptAsGiven` stops at
  such a call.
- `set(k, 2^31)` stores some int and returns 1 (DBSS.cc:636), where
  `luatest.lua:23` expects it to fail; `KeptAsGiven` stops at such a call.

## 5. Proofs

Checked by TLAPS for every set of requests and replies, all block sizes that
satisfy `BufferAssumption`, and connections of any length:

- `ViewsProofs`: `ViewsTypeCorrect`, `InputKeepsTheStream`, `TakenViewsStay` and
  `SecondHalfIsKept`, for any packets. The invariant `VInv` says that the run is
  the stream from the end of the last packet taken to `rcvd` (`Holds`); one
  lemma per operation of the buffer shows that it keeps that.
- `LinkProofs`, of `Buffer`: `nice()`'s `memcpy` never overlaps; `nice()` and
  `grow()` make the room the callers count on.
- `LinkProofs`, of `Link`: `TypeCorrect`, `ReadHasRoom`, `BoundedGrowth`, whatever
  `realloc` does; `NbTypeCorrect` and `NbRoomToRead` for the non-blocking socket.
- `LinkProofs` too, in its second part: `RepliesMatch`, `WholeRequestsAnswered`,
  `FailuresAreFinal`, `NothingLeftBehind`, `ReadyRepliesReturned` and
  `Refinement`, assuming `EnoughMemory`: no `realloc` fails for want of memory,
  and requests are small enough (below about 512 MB) that the int in `grow()`
  does not overflow while one is appended. Replies may be of any size. The runs `link_oom` and
  `link_dropped` show the assumption is needed.

The invariant has two layers. `Streams` places the two buffers in the two
streams: the input buffer holds exactly the bytes from the end of the last
packet taken to `rcvd`, `read()` is entered only with room and with no complete
packet waiting. `OutputNear` adds that the output's run never starts past the
middle of its block, which makes an append succeed after growing; it needs the
`nice()` at the end of `write()`, and so does not hold on a non-blocking socket
after a failed write. There the streams are `Placed` as ever, and `NbStreams`
adds what a loop in progress may rely on. `Calls` says which call the
streams serve. It is a case split on whether a call has failed. If none has
(`InStep`), as many packets were sent as calls were made and as many replies
taken as calls returned. If one has (`Stuck`), the connection is in one of four
conditions: reset with output left to write; closed with the next reply not
going to arrive; an oversized reply at the head of the input; or one that no
block can hold. None of the four can be left, and none lets a call succeed:
that is why this client is safe without ever resynchronising, and why memory
failure, which gives a fifth condition that *can* be left, breaks it.

`ReadyRepliesReturned` adds `Resting`: outside `recv()` there is no whole reply
in the input, unless an oversized one stands at its head. A reply that
completes there was counted as owed, and `Calls` says that it is this call's.

`OutOfStepOnlyUnanswered` (also in `LinkProofs`, but of `NbSpec` and without
`EnoughMemory`) needs only bounds (`NbCalls`): packet `j` is of call `j` or a
later one, no call takes a reply that is not there, and nothing is left in the
output once `flush()` has ended. A reply whose number is that of the call then
closes all the gaps at once.

- `RedisLinkProofs`: `RedisTypeCorrect`, `RepliesOfTheirRequests`,
  `RepliesKeepTheirFraming`, `ValuesAreInRequestOrder`, `WindowsAreAsAsked` and
  `ScoresAreBetween`, for any requests, data, failures and int width
  (`RedisLinkAssumption`: a request has at least its name, the data are finite,
  a failure is not called "ok"). See below.
- `LuaClientProofs`, of `Dbss`: `DbssTypeCorrect`, `SuccessesAreReal`, `OutputsAreFresh` and
  `FailuresAreTold`, for any set of methods, any answers and any number of
  calls. The three properties are inductive together with the types: between
  calls only `Throws` touches the outputs; it makes no request, empties the
  vector, and cannot make a 1 of a status that is not "ok".
- `LuaClientProofs`, of `LuaClient`: `LuaTypeCorrect`, `LuaResultsAreReal` and
  `UnwrittenSlotsAreMissing`, for any numbers of keys and values
  (`LuaAssumption`: every wrapper's C function is one of `Methods`). For the second the invariant is that the
  parameters are empty until the C function writes them, and that what it wrote
  is either nothing or this call's answer; the third (`SlotsInv`) adds that an
  answer that can be taken suits the wrapper in progress, and that a vector is
  filled with all of it.
- `NumbersProofs`: `NumbersTypeCorrect`, `NumbersKept`, `AnswersExact` and
  `AnswersInOrder`, for all widths in the order of the real ones (`NumbersAssumption`: 2^53 is even,
  and an `int64_t` ends below 1024 times it, so that the spacings of `Ulps` are
  enough). Two lemmas are the heart of it: a rounded answer never falls below
  2^53, and `tonumber()` never turns two numbers round, whether they round to
  one spacing (`RoundedInOrder`) or lie between different powers of two
  (`Spaced`). The first gives `AnswersExact`; both give `AnswersInOrder`, with
  the invariant that an answer is the double nearest to what the server still
  keeps (`Answered`).

- `FramingProofs` and `RedisFramingProofs`: `RequestsComeOutInOrder`,
  `NoRequestLeftWaiting`, `OnlyRefusedForAReason` and `FramingTypeCorrect`, for
  any streams of requests of both protocols (`StreamsAssumption`: each has a
  name and its bodies are bytes, whatever bytes; the line ends and blank lines
  are those `recv` accepts), any names of the commands that read bounds or scores
  (`NamesAssumption`: none reads both), cut anywhere by `read()`, and any limit below 10^9
  (`FramingAssumption`: a length line of 18 characters can tell it).

The byte level is proved in two halves. The first is about functions. A buffer
that holds some first part of a request (`Holds`) is read line by line:
`atoi` reads what `sprintf` wrote (`DecimalValue`, `AtoiReads`), a number within
the limit has few enough digits for the length line (`FewDigits`), a body of any bytes is
skipped by its length and never searched for line ends, and one turn of each
parser's loop takes one record whole or says why not. `SsdbReads` puts the turns
together for SSDB packets, `RecvReads` for both protocols: of what has arrived
`recv()` makes the request it was, or "not ready" exactly while some byte is to
come, or a refusal for one of the reasons of `RefusedForAReason`. That `recv()`
starts again from the first byte each time is what makes this enough. The second
half is the invariant `FInv`: the buffer and the wire together are the stream
without the requests taken (`TypeOK`), so that `RecvReads` applies to every call;
those taken are the first of those sent (`Prefixed`); a wait was preceded by a
"not ready" about less than the next request (`WaitsForMore`); and an `EINVAL` in
`errno` was left by the last number converted (`ErrnoExplained`), without which
the third reason could not be given when `recv()` later refuses.

The adaptor's proof has two halves. The first is about the operators and has a
lemma for each kind of command: what `convert_req` makes of the request, what
the server answers to that, what `send_resp` makes of the answer. A window and
a range come down to one slice of one ordering (`RankServed`, `ScoreServed`);
the options after a range are consumed one by one by a function that the lemmas
follow step by step (`OptionsAreSteps`), so that they may come in any order;
and for `mget`, `Looked` shows that walking down the answer and the list of keys together
finds for each key its own value: the answer holds the keys found, in order and as often
as asked (`FoundLies`), and the walk stands at the next of them (`MatchedLies`). These are
inductions, over the keys, the options or the members. `Recursion` does them
with sets: the numbers for which a fact holds contain 0 and each next one,
and so, by `WFMin` of the library, all. The second half is the invariant `RInv`:
the descriptor and the arguments kept belong to the latest request, if that one
still waits and is Redis (`Current`); what waits was asked for as `convert_req`
has it (`Asks`); and the last response is one that the server gives to the
arguments converted (`Exchanged`). The properties then follow from the lemmas.
They speak of requests that mean one thing: `WindowAsAsked` of a window with at
most one argument after it, whose start is not counted from the end and whose
end is not before its start; `ScoresBetween` of bounds that the code turns into what they say
(`Exact`) and of one proper `LIMIT` (`ProperLimit`). Outside of
these the code does as the model says, and no document says what it should do.

The seven of `LuaClientProofs` rest on `DbssAssumption` (the
bounds are naturals) and on the actions of `Channel`, which `Refinement` shows
the connection implements, with enough memory. Every safety property of the
passing runs is proved.

Only model-checked: liveness (`Returns`, `NbReturns`),
which is out of the prover's reach, and what holds under failing memory beyond the theorems of `LinkProofs` and
`OutOfStepOnlyUnanswered`.

## 6. Not modelled, and the plan

The plan was carried out in this order: `Buffer`, `Link` with `Channel`,
`Framing`; `Dbss`, `LuaClient`; the Redis adaptor; the non-blocking socket and
the `Bytes`; numbers; and the theorems of each after its runs. What is left:

1. The arrays that the `multi_` wrappers fill from Lua tables, and the sizes of
   the `char` arrays that `DB.lua` and C callers pass: `DB.lua` passes fixed
   sizes, and the bytes that `strcpy` and `snprintf` move are not represented.
2. `Link` with bounded kernel buffers. A request and a reply that both exceed
   them could block each other only if the server answered before it had read
   the whole request; the model has it answer only then.
3. Refinement of `Link` by `LinkNoBlock` up to its first `EWOULDBLOCK`.

Left out for good:

- `listen`, `accept` and the socket options: system calls without state of
  ours. `mark_error` is never called; switching `noblock()` during a call has no
  caller.
- `Decoder` and `Buffer::read_record`, and the trimming, hex, base64, slice and
  byte-order helpers of `strings.h`: no caller in the library.
- The SSDB server, seen only as far as the code relies on its answers.
- `NULL` strings in methods without a `try` block (the exception leaves an
  `extern "C"` function), the `DBSS` whose `connect` failed beyond its first
  call (the process ends), and memory that is never freed.
- `Util.lua`, `helper.lua`, `config.lua`, `demo.cpp` and `luatest.lua`: printing,
  settings and callers. `net/test.cpp` and `net/test2.cpp` need a `server.h`
  that is not in the repository.
