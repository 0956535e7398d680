# HeraProxy: TLA+ models and proofs

This directory specifies HeraProxy in TLA+, checks it with TLC on small
instances and proves the safety properties for all instances with TLAPS.
Paths below are relative to the repository root; line numbers are in
`PROJECT.json`.

## The system

HeraProxy accepts HTTP, SOCKS5 and Shadowsocks connections and relays each one
through an exit ip.

- **Manager** (`server/manager.go`) starts and stops everything. It keeps two
  shared maps: connections per exit ip, and one `connContext` per user (cancel
  function, reference count, flow limiter).
- **Task consumer manager** (`utils/taskConsumerManager`) keeps each background
  task running in a fixed number of slots until the context is cancelled.
- **TCP server** (`server/tcp_server.go`) accepts connections and waits for
  their handlers.
- **Handlers** (`http_proxy_handler.go`, `socks_proxy_handler.go`,
  `shadowsocks_handler.go`) authenticate, count the connection against its exit
  ip, dial, register with the user's `connContext`, relay, and undo all of this.
- **Tunnel**: inside a relay, two copy goroutines, a sniffer that looks for the
  domain in the client's first bytes (`sniffing/`), and a loop that waits for an
  end, for the user's `connContext` and for the blacklist.
- **Authentication** (`auth.go`) checks users against Redis behind a ttl cache
  and assigns addresses to dynamic IPv6 sessions.
- **Flow limit** (`flow_limit.go`) shares a byte budget per second among all
  readers of a user.
- **Dial failure tracker** (`utils/tracker`) blacklists a pair of exit ip and
  target after too many dial timeouts.
- **Event consumers** (`rabbitmq_consume.go`) handle auth, ban and disconnect
  events; **Nacos** (`nacos_config.go`) delivers configuration changes.
- **Producer** (`rabbitmq_product.go`) queues access logs in `utils/Queue` and
  sends them through the RabbitMQ pool.
- **RabbitMQ pool** (`utils/rabbitMQ`) keeps connections and channels to the
  broker, starts consumers and reconnects.

`PROJECT.json` lists every part, modelled or not, and the hazards each one has.

## Modules

| Module | Models | Kind |
|---|---|---|
| `ClosableFifo` | what the `Queue` interface promises | abstract specification |
| `MQueue` | `utils/Queue/mqueue.go` | refines `ClosableFifo` |
| `ConnRegistry` | the manager's maps, the handlers' stages, disconnect and ban events, configuration updates | composition around shared maps |
| `Tunnel` | the inside of one tunnel, `sniffing/conn.go`, the blacklist ticker | goroutines of one handler |
| `Auth` | `auth.go`, what the events of `rabbitmq_consume.go` write | caches, Redis, concurrent events |
| `FlowLimit` | `flow_limit.go` | several readers, one action |
| `DialFailTracker` | `utils/tracker/dial_fail_tracker.go` | lock-free algorithm |
| `Lifecycle` | tasks, accept loops, connections, send queues and `Stop` | composition |
| `RabbitConsumer` | the consumer side of `rabbitMQPool.go` | reconnection, faults |
| `RabbitProducer` | the producer side of `rabbitMQPool.go` | connection and channel pool |
| `Socks5` | first read, SOCKS5 handshake (`utils/socks5/func.go`) | byte stream protocol |
| `ClientHello` | `sniffing/tls/client_hello.go`, the fallback to plain text | parser |
| `SocksSession` | a SOCKS5 connection from first byte to sniffed name | composes the last two |
| `...Proofs` | | theorems about the module of that name (`MQueueProofs` also about `Lifecycle`, `AuthProofs` about `RabbitConsumer`, `TunnelProofs` about `DialFailTracker`) |
| `MC*` | | constants for TLC |

A definition named `X_Y` (`Link_NextLost`, `Fail_NoRelease`, ...) is a
deliberately wrong variant of `X`. No specification uses it: putting it in the
place of `X` must make a property fail, which shows that the property depends on
that piece of code.

### MQueue

State: `head`, `tail`, the `next` and `value` of every node, the node pool,
`count`, `status`, and a program counter per thread. Everything under
`recvLock` is one step, so the steps of a consumer are `Dequeue`, `Process` (the
callback) and `CheckWait`. `Enqueue` and `Close` wake all sleepers. `sync.Pool`
may hand out any recycled node. `order`, `accepted` and `taken` are history
variables.

### ConnRegistry

One process per connection goes through the stages of the three handlers, which
take the same steps in the same order:
`idle -> accepted -> admitted -> (inserting) -> relay -> leaving -> release`.
`Reject` and `Fail` are their early returns, before and after
`AddIpConnCount`. A map callback runs under the lock of its shard and is one
step, with one exception: the creation of a `connContext` reads the
configuration inside the callback, so `ReadConf` and `Insert` are two steps and
the shard stays locked between them. `Iter` takes a snapshot per shard before it
delivers anything. Events work through their keys with `Pop` and `Cancel` as
separate steps, in several goroutines. Addresses of `connContext`s are reused,
so comparing pointers (`valueInMap != ctx`) has its real strength.

Distinct keys are in distinct shards. The inside of the tunnel is one stage
here; `Tunnel` opens it up.

### Tunnel

The three handlers share this code almost literally. The handler goes through
`main`: forward a plain request, set up, loop, then the deferred calls in their
order (`CloseDone`, `ReadWriterNotice.Close`, close both sockets, `wg.Wait`,
report, close the channels). The goroutines are `up` and `down` (the copies),
`sniffer` and, for plain requests, `helper`. `ReadWriterNotice` is split at its
atomics and its lock: `Read` tests, then appends; the first `Write` swaps
`isNotice`, takes the buffer and sends it. Client data is a sequence of numbered
chunks, so a gap or repetition is visible. Every socket operation may fail at any
time; `Cancel` ends the user's context; `SetBlackMap` replaces the blacklist.
What a buffer names is any domain or none.

### Auth

A call of `Valid` or `ValidShadowSocks` is cache look-up, `Get` from Redis, and
check with `Set` in the cache. Events write while calls are between these steps.
Every Redis command is one step and may fail. `AddUserData` is `Get` and `Set`;
the batch events write record by record. A record is its password, ips and ban;
parsing user names is left out. A random IPv6 address is any address from the
segment's base on (`Reach`): the offset is added to an unmasked base, so the sum
need not lie within the segment. `quiet`, `raced` and `promise` are history.

### RabbitConsumer, RabbitProducer

`RunConsume` is the loop: connect, start a generation of consumers, wait for an
error, reconnect. A `consumeTask` gets a connection round robin, creates a
channel, declares, consumes, and reports the error that ends it. `statusLock`
and the unbuffered `errorChanel` are modelled as they are used: the sender keeps
the lock until it is heard. `failCount++` is a load and a store. Messages are
acknowledged before they are handled. The broker may drop a connection or all of
them, be unreachable, or close a channel with an exception. Where the code calls
a method of a nil error the model sets `panicked` and stops.

`RabbitProducer` has the steps of `rPush`: under `channelLock` the next
connection, `tryConn` and the channel from the pool; after it `Publish`.

### Socks5, ClientHello, SocksSession

The client's bytes are one stream of which any prefix may have arrived. A client
waits for each answer or sends ahead. `handlerTcpConn` decides by the size of its
first read; every later read takes exactly as many bytes as the code asks for.
Clients ask for CONNECT; the handler skips the command byte, so any other command
would be served as if it were CONNECT.
`ClientHello` parses real bytes; a `cryptobyte.String` is the string of bytes not
yet read. It keeps the order of the checks, since a name found before an error is
used in spite of the error. Lists are walked by recursive functions.

The clients' side of `SocksSession` is RFC 8446 and RFC 6066: `HelloBytes` lays a
hello out, with any extensions and any server names. `HelloAssumption` says that
a client whose data begin as a TLS record does sends such a hello, well-formed or
not, in one record. `host` is the first host name of its first server_name
extension.

### FlowLimit

`Read` is split where another goroutine can interfere: choice of the share, its
lock, the refill under `wMutex`, the charge, the reload of `readRate`, the wait,
the copy. Bytes are numbered, and the buffer is modelled as memory with an offset,
so that bytes of an earlier fill are visible as such and a slice beyond its
capacity panics.

`readRate` is read without the lock under which it is written. A data race is
modelled by what a build can do: the comparisons see one load; `return
l.readRate` comes after a store through a pointer and loads it again.

### DialFailTracker

One pair of exit ip and target. Every atomic operation is a step. The caches are
modelled from how the code uses ttlcache: one step per operation, expired means
absent, a hit prolongs the life of a failure record and not that of a blacklist
entry. `total`, `when` (the time of each failure) and `overlapped` are history.

### Lifecycle

Supervisors with slots (`Select`, `StartTask`, `EndTask`), accept loops,
connections that may report one log each, the send queues as abstract FIFOs
(justified by `MQueue`'s refinement), and `Stop` as the sequence of its steps.
A queue handler calls `Push` once per log. `Push` delivers the log or returns an
error, which is only written to the program's own log; the history variables
`sent` and `dropped` keep the two apart. That `Push` returns is an assumption of
the fairness; while the broker is down `tryConn` keeps it waiting.
`runRabbitmqConsume` never returns, which is how `RunConsume` behaves.

## What the runs check

| Run | Result | What it shows |
|---|---|---|
| `mqueue` | holds | exactly-once in-order delivery, no lost wake-up, `Close` drains and ends everybody, refinement of `ClosableFifo` |
| `registry` | holds | counts per context and per exit ip are exact, the limit is kept, no connection becomes unreachable, events miss nobody, the end of one connection never cuts another, no entry keeps old limits after an update |
| `registry_live` | holds | events take effect, `Stop` empties both maps |
| `flow` | holds | at most two bursts per second plus one per update (weaker than documented, see below); bytes are delivered in order and once, nobody stalls, a cancel ends everybody |
| `dial_concurrent` | holds | never blacklisted with too few failures in total; exact windows while calls do not overlap |
| `lifecycle_stop` | holds | nothing can report once queues close, every log is pushed exactly once, the last ones before `Stop` returns; `Stop` ends the serving of clients |
| `tunnel` | holds | no send on a closed or full channel, the sniffer sees a prefix that covers the request, the report comes last, every end ends the tunnel, the blacklist cuts it |
| `auth` | holds | a stale record is used for at most one ttl, `AddUserData` keeps the record, a session keeps its address |
| `rabbit_consumer` | holds | errors are heard and lead to new consumers, messages are handled |
| `socks_session` | holds | a client is served as it asked or not at all, whatever TCP does to its bytes; the sniffed name is exact |
| `rabbit_channels` | violated | the pool keeps channels of a lost connection |
| `lifecycle_consumer` | violated | with the tasks `StartIpv6` adds, `Stop` never returns |

Properties with an exception name it: `JustifiedOneByOne` (overlapping calls),
`AddKeepsRecord` (another event for the user between `Get` and `Set`),
`SessionSticky` (a session that has no address yet), `EventuallyHandled` (a panic
or a lost increment of `failCount`). In the excepted cases the code does not give
the guarantee. `LogsPushedOnce` does not say that a log arrives: a failed `Push`
loses it. `lifecycle_stop` leaves out the consumer task, with which `Stop` never
gets to the queues (`lifecycle_consumer`): what it shows of the closing of the
queues is what `Stop` guarantees once that task listens to its context.
`StopEndsServing` holds with the consumer task and the Shadowsocks listener, too.

### Known divergences

In these places the code does not do what its comments or messages say. Each has
a configuration for TLC, which ends with a counterexample.

- `RabbitProducer.cfg`, `ChannelsOfConn` (run `rabbit_channels`).
  `rabbitMQPool.go:415` says "3.每个连接池中连接维护一组信道": every connection keeps
  its own channels. `tryConn` (lines 853-874) dials a lost connection again and
  deletes the channel of one queue only. It reports no retry, so
  `getChannelQueueReset` does not reset either. Pushes to the other queue fail on
  the old channel; when all connections are affected they fail for good.
- `ConnRegistry_ips.cfg`, `IpDisconnectMissesNobody`. A disconnect event with ips
  closes the keys `username:ip` (`rabbitmq_consume.go:225`) and logs
  "根据用户ip关闭连接失败" (line 228) when there is none. HTTP and SOCKS5 connections
  are registered under the user name alone (`http_proxy_handler.go:165`), so the
  event closes nothing.
- `FlowLimit_reload.cfg`, `CopyWithinData`. `flow_limit.go:205` says
  "限制读取大小不超过缓冲区剩余数据和请求长度": a read stays within the data of the buffer.
  `GetReadSize` returns a second load of `readRate`, which `UpdateParameter` may
  have raised since the comparison.
- `FlowLimit_burst.cfg`, `BurstPerSecond`. `flow_limit.go:23` documents
  `readBurst` as "每秒最大突发读取量（字节）", the largest burst per second. A new action
  fills its shares with one burst and has another one left
  (`residReadueBurst`), and a new second resets the burst while shares may still
  be full, so two bursts are granted in one second; every `UpdateParameter` adds
  one. `RateBound` is the bound the code keeps. `readRate`, "每秒最大持续读取速率"
  (line 22), limits a single read and not the reads of a second.
- `DialFailTracker_race.cfg`, `BlacklistJustified`. `dial_fail_tracker.go:17`
  documents the threshold as "1分钟内最大连接数", the maximum within one minute. The
  window is moved (line 102) before the count is reset (line 104); a failure in
  between is added to the count of the old window.
- `Lifecycle_consumer.cfg`, `StopReturns` (run `lifecycle_consumer`). `manager.go:114` says of `tcm.Stop`
  "停止任务消费者管理器，会触发所有任务的优雅关闭". `runRabbitmqConsume` blocks in
  `RunConsume`, which is not given the context, so `tcm.Stop` waits for ever and
  the queues are not closed; `main.go` ends the process after 3 s. The
  Shadowsocks listener, which nobody closes, has the same effect.
- `SocksSessionPlain.cfg`, `ReportedUnderHost`. `socks_proxy_handler.go:233` says
  "从 HTTP 请求头中获取 Host 字段作为 ServerName". `http.ReadRequest` moves `Host` out of
  the header map, so `Header.Get("Host")` is always empty and the first thing in
  the request that looks like a domain is reported, a file name in the path for
  example.

### Bounds

- `mqueue`: three values pass through the list states empty, one element (tail
  nil) and more, with recycling. Two workers and a waiter compete.
- `registry*`: two connections suffice for one to leave while another joins, for
  both to compete for the last place on an exit ip (limits 1 and 2), and for an
  entry to be created during an update. One event handler runs beside them; that
  several handlers, Shadowsocks keys and more connections change nothing is
  proved. There are enough addresses that `Insert` never waits.
- `flow`: two readers on one share of two bytes and a rate of one, so that every
  branch of the charge is taken; one second boundary, one
  update per second; four bytes per reader, which is more than the readers may be
  granted in a second with or without an update. `FlowLimit_budget.cfg` checks the
  invariants with two shares and a changing burst (shares of size one and zero),
  `FlowLimit_live.cfg` all but the budget, and `CopyWithinData`, with a rate above
  and one below the share. Both hold.
- `dial_concurrent`: threshold 2, window 2, six failures over six ticks; a record
  that lives shorter than the window, as in the code. One attempt, so that giving
  up happens; the code allows ten.
- `lifecycle_stop`: one listener, one slot per task, two shares with two
  handlers each, so that one may end while the other still sends; two connections.
- `tunnel`: two chunks each way, so that the target can answer before the second
  part of a request, and answer twice.
- `auth`: two users, one Shadowsocks ip, one session, two calls, one worker, two
  writes, three instants and a ttl of one: a call can straddle a write and a tick.
- `rabbit_consumer`: two channels on one shared connection (an even and an odd
  one), one fault, a second generation. `Routed` is false, as for auth events.
- `socks_session`: greetings of 3, 8 and 9 bytes around the limit of 8; known,
  unknown and short accounts; all address types and an unknown one; hellos with
  every extension the parser knows before and after the name, and malformed ones.

The clock, the number of calls, values, bytes and updates are bounded by the
constants `Max...`. Symmetry is used only in runs without liveness properties.
`LiveState`, the view of the registry runs, forgets fields of objects nobody
points to. Deadlock is not checked for the tracker, whose clock and calls run
out, and in the runs whose system really ends: the life cycle, a tunnel, a
session, the bounded clock of `Auth` and the bounded generations of consumers.

### Fairness

- Goroutines run: weak fairness of a thread's steps (`MQueue`, `Lifecycle`).
- Go's mutexes hand the lock to a waiter after 1 ms, so steps that need a lock
  are strongly fair (`ConnRegistry`, `FlowLimit`).
- Dials and reads have timeouts, so `Fail`, and the end of a read, may be relied
  on. The relay ends on its own only when its context is done.
- `Accept` is only sure to return when its listener is closed.
- A tunnel's goroutines run and its blocking reads and writes have deadlines
  (`server/io.go`), so each of them is weakly fair. Arrival of data, cancels and
  blacklist changes are not.
- A broker that is down comes back and delivers what it has; consumers and
  listeners run. Faults, retries and expiry are not relied on.
- Nobody is obliged to connect, enqueue, send an event, update or stop.

## What is proved

Every theorem holds for all values of the constants that satisfy the `ASSUME` of
its module: sets of connections and callers are finite, sentinels like `nil` are
not members of the sets beside them, bounds are natural numbers.

| Module | Theorem | Statement |
|---|---|---|
| `MQueueProofs` | `TypeCorrect`, `ListShapeCorrect` | `Spec => []TypeOK`, `[]ListShape` |
| | `Delivery` | `Spec => []ExactlyOnceInOrder` |
| | `NoLostWakeup` | `Spec => []SleepsOnlyWhenIdle` |
| | `CloseDrains` | `Spec => []DrainedBeforeExit` |
| | `Refinement` | `Spec => ImplementsFifo` |
| | `QuietStop` | `SpecServer => []QuietBeforeClose` |
| | `EachLogPushedOnce` | `SpecServer => []LogsPushedOnce` |
| `ConnRegistryProofs` | `AlwaysReachable` | `Spec => []ReachableOrCancelled` |
| | `NobodyMissed` | `Spec => []DisconnectMissesNobody` |
| | `UpdateReachesAll` | `Spec => []ParamsCurrent` |
| | `ContextCounts` | `Spec => []CtxCountExact` |
| | `OnlyEventsCancel` | `Spec => NoForeignCancel` |
| | `IpCounts` | `Spec => []IpCountExact` |
| | `LimitHolds` | `Spec => AdmissionWithinLimit` |
| `TunnelProofs` | `ChannelSafety` | `Spec => []SendsAreSafe` |
| | `FinalReport` | `Spec => []ReportIsFinal` |
| | `SniffPrefix` | `Spec => []SniffCoversRequest` |
| | `NoneCountedTwice` | `SpecTracker => []NeverWithoutFailures` |
| | `ExactWindows` | `SpecTracker => []JustifiedOneByOne` |
| `AuthProofs` | `StaleTtl` | `Spec => []StaleBounded` |
| | `StickySessions` | `Spec => []SessionSticky` |
| | `AddOnlyAdds` | `Spec => AddKeepsRecord` |
| | `ErrorsHeard` | `SpecConsumer => []ErrorsAreHeard` |
| `Socks5Proofs` | `InStepForGood` | `Spec5 => []MisreadWithReason` |
| | `ServedInStep` | `Spec5 => [](whole \/ stage # "relay" => ServedAsAsked)` |
| | `ServedAlways` | `Unambiguous` implies `Spec5 => []ServedAsAsked` |
| `ClientHelloProofs` | `ListExtensionsAccepted` | lists of any length, laid out as their RFCs prescribe, satisfy `ExtensionOk` |
| `SocksSessionProofs` | `NameAlwaysExact` | `Unambiguous` implies `Spec => []NameIsExact` |
| `FlowLimitProofs` | `TypeCorrect` | `Spec => []TypeOK` |
| | `WithinData` | `RateKept` implies `Spec => []CopyWithinData` |
| | `InOrder` | `RateKept` implies `Spec => []DeliveredIsPrefix` |
| | `GrantsBounded` | `Spec => []RateBound` |

None of these properties is inductive alone. The strengthenings, module by
module:

- **MQueue.** A dequeue returns the oldest value because of the list's shape, the
  shape survives an enqueue because pool nodes are not in the list, and sleepers
  are right because `count` is the length of the list. `IInv` puts these
  together. The refinement uses it to show that `Enqueue` is `Put`, a successful
  `Dequeue` is `Take`, `Close` is `Shut` and every other step stutters.
- **ConnRegistry.** `Shape` says what a stage implies about session, lock and
  context; `Mapping` that a context is under one key, the key of those who hold
  it. On top of them, `Distribution` (an entry with old limits is on the list of
  a walk in progress), `CtxExact` and `IpExact` (the counts, through cardinality
  lemmas for joining and leaving).
- **Lifecycle.** A chain of waiting, `Waiting`: a connection keeps its loop, a
  loop its slot, a slot its supervisor, and `Stop` waits for all supervisors.
  `Closing` says that a closed queue gets no more logs and that a handler leaves
  an empty one behind, `Storing` that a reported log is somewhere on its way to
  `Push`, `Once` that it is there only once: no two places of the queues and no
  two handlers have the same log.
- **Tunnel.** `Control` relates the stage of the handler to goroutines, sockets
  and channels. `Results` counts what can still be sent on `errCh`; `OneNotice`
  says that the swap of `isNotice` lets one notice through. `Collected` says that
  the buffer is what `Read` has appended, in order, and covers what was written
  to the target.
- **Auth.** `Staleness` dates every cached record and every record in the hands
  of a call; `Promises` follows the address of a session through a call;
  `Merging` says what a worker read from Redis is still there unless it was raced.
- **Socks5.** `InStep` says at every stage what has
  been parsed and that what is left of the stream begins with the field read
  next. One lemma per reader moves it from a field to the following one. The bytes
  themselves do not matter: `TakeStep` needs only that the stream is a
  concatenation (`Layout`), and `Ports` that a port survives its two bytes.
  `SocksAssumption` is what fits into the messages of RFC 1928 and RFC 1929.
  A client whose greeting was cut or glued to what follows (`whole` is false) is
  read out of step: the handler takes the bytes behind its first read for an
  authentication message. `CutInv` says that the bytes read since are that
  message so far, as parsed. Such a client gets to the request only if these
  bytes spell an account that is accepted. `Unambiguous` excludes this: no stream
  spells an account behind a first read that was not its greeting. The code does
  not enforce it (it never looks at what the first read returned); TLC evaluates
  it for the clients of the run.
- **SocksSession.** `SniffInv` says at each step of `unmarshal` where in the
  hello it stands. Past the fixed part it has the whole hello: a hello that is cut
  anywhere fails a length check before that (`HelloCut`), a whole one passes them
  (`HelloWhole`). From then on it is before some extension (`AtExt`) or before some
  name of the first server_name (`AtName`). `seenExts` holds the ids of the
  extensions before, and the name kept is the host if server_name, or a host name,
  was among them, and otherwise empty. That the bytes ahead are those of the
  remaining extensions or names is a fact about `Last`, a recursive function over
  a list of any length. Its defining equation (`Lasts`) follows from the existence
  of a solution, shown by the least number for which there would be none (`Least`).
  `ReportInv` adds that the plain-text fallback runs only without a name.
  `Unambiguous` is needed because the sniffer's bytes are the client's data only
  if the handshake was read in step.
- **FlowLimit.** `Buffered`: the window `buf` lies in `tempbuf` and holds the next
  bytes of the source. `Busy`: between a fill and a copy it is not empty. They
  need `RateKept`, that no update changes the rate: an update between the two
  loads of `readRate` breaks both (known divergences).
  The budget needs no such assumption. `Budgeted` is a balance: what was granted
  in this second, what the shares hold, what reads on their way may still get and
  what is left of the burst stay together below the bound of `RateBound`. Every
  step moves an amount from one of these to another; only a tick and an update add
  to them. The sum over the shares is not defined by recursion, which would need
  an induction: the invariant says that there is a function `f` of partial sums
  with `f[s + 1] = f[s] + Held[s]`, and `SumStep` shows how `f` changes when one
  share does. `LockedShares` says that a share has one user at a time.
- **DialFailTracker.** `NoneTwice`: a count and the calls on their way to it are
  together at most the failures recorded. `Windows`: while calls come one by one,
  the count of an entry is at most the number of failures since its start, which
  `EntryCounted` relates to their times through cardinality lemmas; a new entry
  starts with the call that makes it.
- **RabbitConsumer.** `Hearing`: the loop reconnects with `status` set, and the
  lock is held only while it is not.

`WellFormed` asks for extensions that `ExtensionOk` accepts. For most of them this
is a comparison of lengths that can be read off. The lists of parts are not as
simple, and `ListExtensionsAccepted` says what is accepted there: any list of
application protocols, key shares, identities or binders with the layout of the
RFCs. `IsList` is a recursive function that goes down by the length of an item.
That it has a value (`WalkExists`, `Descends`) and that the value is true for
every tail of such a list (`ListAccepted`) is again shown by a least number.

Only model-checked: the liveness properties (TLAPS 1.4.5 has no `ENABLED`), and
that what `IsList` refuses is not a list. `ReportedUnderHost` is a known
divergence.

## Not modelled

- `main.go`'s exit after 3 s, loading of the configuration, opening of
  listeners, logging and alarms: I/O around the modelled parts.
- Parsing of HTTP requests, ciphers, Redis, RabbitMQ, ttlcache and cmap are
  libraries or services. The models contain what the code relies on.
- Substring matching of the blacklist and parsing of dynamic user names: pure
  functions of strings.
- `retryClient` and `RetryTool` of the RabbitMQ pool: no callback uses them.
- Not used by the server: the older per-queue consumers, the gRPC server, the Lua
  scripts, `taskRunManager`, `concurrentMap` and the dialers under `proto/`.
- Generated code (`protobuf/`).
