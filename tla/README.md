# A TLA+ verification of the mining core of xmrigCC-MOD

This directory models the miner in `src/src`. The concurrent and reactive core
comes first: the connections to pools, what passes over them, the choice of the
pool that is mined for, the donation that shares the workers with it, the worker
threads and the measurement of their speed. Around it are the way from the command
line to the running threads, and the hash kernels with their digests. TLC checks
the models on small instances, and TLAPS proves their safety properties for every
value of the constants: pool selection, the donation, the worker threads, the
messages of a connection, the measurement of the hash rate, and the way from
arguments and files to threads and memory.

## Scope

The repository is a fork of the XMRig CPU miner. Besides the miner it holds code
that installs, hides and removes the program (`xmrig.cpp`), a thread that stops
mining while a process viewer is open (`Check` in `App.cpp`), and a remote control
channel (`cc/`). Those parts serve concealment. They are left out on purpose and
listed as not modelled; this project is about the correctness of the mining core
that the fork inherits. What the thread of `Check` does to that core is in the model:
it calls `Workers::setEnabled()` at any moment, without a lock (`Workers.tla`).

## Inventory

| Component | State | Operations | Interacts through | Hard because |
|---|---|---|---|---|
| `net/Client` | socket state, failure count, deadline, resolver, socket, keepalive timer, last job, waiting shares, receive buffer | connect, disconnect, tick, submit; callbacks of lookup, connect, read, close, keepalive | libuv callbacks; `IClientListener` | a disconnect cannot stop a lookup; lines are parsed after a close; deadlines are armed and disarmed from many places; lines are cut by reads; answers come late or twice |
| `FailoverStrategy` | clients, `m_active`, `m_index` | connect, tick, submit, resume, stop; onClose, onLoginSuccess, onJobReceived | `IStrategyListener` | several pools connect at once; two indices assigned apart |
| `SinglePoolStrategy` | client, `m_active` | the same, one pool | the same | a closed client still parses lines |
| `DonateStrategy` | client, `m_active`, timer | timer, login, suspend | the same | the timer and the client's callbacks race |
| `Network` | the two strategies, statistics | onActive, onJob, onPause, onJobResult | calls `Workers` | two strategies share the workers |
| `Workers` | job, sequence, paused, enabled, active, result queue | setJob, pause, setEnabled, submit, stop | atomics, a lock, `uv_async`, two plain bools | published in several writes; `setEnabled()` also from the thread of `Check` |
| `MultiWorker` | current and paused state, own sequence | start, consumeJob, save, resume | reads of `Workers` | reads one at a time what was published together |
| `Hashrate` | ring buffers | add, calc, updateHighest | `Workers::onTick`, `Worker::storeStats` | uninitialised cells, wrap around, torn pairs |
| `Job`, `JobId`, `Url` | data | decoding of hex, targets, urls | used by `Client` | edge cases |
| `Options`, `Cpu`, `Mem` | configuration | parse, adjust, optimise, lay out memory | read by all | zero and limits |
| `NetworkState` | counters, best shares | add, setPool, stop | `Network` | counts what answers say |
| `crypto/CryptoNight*` | dispatch table, contexts | self-test, kernels of 1 to 5 and n lanes, two architectures | `MultiWorker` | hand-unrolled, interleaved lanes over one block of memory |
| `crypto/c_*.c`, `soft_aes.h` | digest contexts | init, update, final; round functions | the kernels | padding at block boundaries, work in place |
| `App`, `Console` | options, handles | start, stop, commands | starts all | order of `stop()` |

What makes each part correct, and the line where it could go wrong, is the list
of hazards in `PROJECT.json`.

## Modules

### Client

`Client.tla` has no variables. A client is a record of the members of class
`Client` that decide control: `state` is `m_state`, `failures` is `m_failures`
(−1 after `disconnect()`), `expire` says that `m_expire` is not zero, `resolving`
that libuv owns `m_resolver`, `socket` is what `m_socket` points to, `ping` that
the keepalive timer runs, `job` is `m_job`. Every method is an operator from a
record to a record with the method's name. Time is abstracted: the owner of the
client decides when an armed deadline is due. A url is reduced to what the code
does with it: keepalive or not, whether `uv_getaddrinfo` accepts the host at once
and the size of the login request. `login()` compares that with the size of `m_buf`
(2048 bytes) but copies the request to `m_sendBuf` (768): a login between the two
`"overruns"` `m_sendBuf`, which is undefined behaviour. `NoJob` stands for a job that `setId`,
`setBlob` or `setTarget` refuse.

`connect()` does not look at the result of `uv_tcp_connect` (`Client.cpp:305`). Where
the system refuses at once (no route, no file descriptor) no callback follows, and
`resolve()` has cleared the deadline: the socket is `"idle"`. So it is when
`uv_getaddrinfo` refuses the host at once (`Client.cpp:240`). Nothing calls such a
client back, and its pool is lost for good. `Stranded` names these two cases;
`KeepsTrying` and the liveness properties exclude them, and say that there are no
others.

### FailoverStrategy

`FailoverStrategy.tla` owns `N` clients, `m_active` and `m_index`, and what
`Network` and `Workers` keep of its callbacks (`job`, `paused`, the queue of
shares). The libuv loop is single threaded, so an action is one callback run to
its end:

| Action | Code |
|---|---|
| `Connect`, `Stop`, `Tick` | the methods of `FailoverStrategy` |
| `ResolveFails`, `Resolved` | `Client::onResolved` |
| `Connected`, `ConnectFails` | `Client::onConnect` |
| `ReadFails` | the early returns of `Client::onRead` |
| `ParseLogin`, `ParseJob`, `ParseError`, `ParseOther` | one line of `Client::onRead`, by what `parse` makes of it |
| `OnClose` | `Client::onClose`, `reconnect` and the strategy's `onClose` |
| `Ping` | the keepalive timer |
| `Found`, `OnJobResult` | `Workers::submit`, `Workers::onResult`, `Network::onJobResult` |

The one thing that is not a callback run to its end is a read with several
lines: `reading` names the pool whose buffer has more lines, and nothing else
runs until it is done. So a line that follows one that closed the connection is
in the model, as it is in the code.

Undefined behaviour ends a behaviour: `status` becomes `"resolver"` (a resolver
that libuv owns is used again), `"socket"` (a handle that libuv owns is freed),
`"sendbuf"` (`login()` writes past `m_sendBuf`) or `"nopool"` (`m_pools[-1]`). The first
two can be reached only through a backup
that was disconnected during a lookup and then started again; for the primary
`PrimaryOneAttempt` excludes them.

`PoolSelection.tla` is the abstract specification: what `Network` may rely on. A
pool is kept until it is lost or the primary is back, and the work is always a job
of that pool. `SelectsPools` says that `FailoverStrategy` implements it, with
`m_active` as the pool and the workers' job, while they are not paused, as the
work.

`FailoverLiveness.tla` puts the same actions in an environment in which one pool serves
from some moment on. A pool that serves may still repeat, at a login, the job that the
client kept from the connection before (`m_job` survives a reconnect): the client then
closes and tries again. Both properties are about behaviours in which no connect that
matters is refused at once (`Started`). `FailsOver` is stated for the primary and the
last backup, because of a backup between them it is not true: the login of a later
backup disconnects it, and while that later one, at which `m_index` stays, and the
primary are down, nothing connects it again.

### Network

`Network.tla` composes a `SinglePoolStrategy`, a `DonateStrategy` and `Network` over
two clients: `clients` and `active` are indexed by the owner, `"pool"` or
`"donate"`, `timer` says that `DonateStrategy::m_timer` runs, and `work` is the
workers' job with the owner its `poolId()` names. As before an action is one
callback with everything it calls:

| Action | Code |
|---|---|
| `Connect`, `Stop`, `Tick` | the methods of `Network` |
| `ResolveFails`, `Resolved`, `Connected`, `Breaks`, `OnClose` | the callbacks of `Client`, with `onClose` of the two strategies (`OnClosed`) |
| `ParseLogin`, `ParseJob`, `ParseOther` | one line of `Client::onRead`, with `onLoginSuccess`, `onJobReceived` and `Network::onJob` |
| `OnTimer` | `DonateStrategy::onTimer`: connect, or `suspend()` with `Network::onPause` and `resume()` |
| `Found`, `OnJobResult` | `Workers::submit`, `Network::onJobResult` |

The donation is switched on; with a level of 0, which `donate.h` makes the default
although the help text says 5%, there is no `DonateStrategy`. `stray` is a history
variable: the workers' job came from a strategy that was not active.
`SinglePoolStrategy::onJobReceived` and `DonateStrategy::onJobReceived` pass such a job
on, so `MinesInTurn` is stated for the rest, and a stray job may outlive its pool's
connection. A donation can begin without the idle time: `suspend()` cannot stop a
lookup, and the client that results from it logs in while the timer of `idle()` runs.
The model has these donations, and the properties hold of them too. After `Stop` only
the close callbacks run: `uv_stop()` ends the loop.

### Workers

`Workers.tla` models `Workers` and `MultiWorker` access by access. The loop thread
publishes a job with `m_job` (under its lock) and `m_active`, the test of `m_enabled`,
`m_sequence` and `m_paused`, a pause with two writes; a worker thread reads them one at
a time. An action is one access to a shared variable with the private work up to the
next one; the control points of the loop thread are `main`, those of a thread are `pc`.
`setEnabled()` has a caller `c`, the loop thread (console) or the detached thread of
`Check` (`App.cpp:109`), and each caller is somewhere in a call of its own (`setter`):
test, write of `m_enabled`, test of `m_active`, the two writes after it. The
application's quit is a pause by the strategy and then `Workers::stop()` (`Quit`), or
`Workers::stop()` alone, because `SinglePoolStrategy::stop()` pauses nothing
(`QuitSinglePool`). The accesses are interleaved, so the model is sequentially
consistent; the additional reorderings of `memory_order_relaxed` loads are not modelled.

A thread's `blob` is the job whose bytes are in the buffer it hashes. There is one
buffer because `State` has no copy assignment of its own: from the first `save()`
on, both states point to the same memory.

Two history variables name the races that the code has, so that the properties can say
that there are no others. `overlap` records, for each worker, what was published while
it was between two reads that belong together. `raced` says that a call of `Check`'s
thread began beside a call of the loop thread that writes the flags: then `setJob()` may
clear `m_paused` after the other thread disabled mining, and the workers hash while
disabled. It is over when a call that runs alone has written `m_paused`. Beside or after
`Workers::stop()` such a call advances the sequence from 0, or pauses again, and `stop()`
may wait for ever. `MinesCurrentJob`, `PauseStopsHashing` and `NoShareForgotten` hold
through these overlaps too.

### Session and Job

`Session.tla` is one client seen from the wire: the number of the next request
(`m_sequence`, which is static, so that `OtherSends` of other clients move it),
`m_results`, the bytes of `m_buf` with `m_recvBufPos`, and `NetworkState`.
`uv_try_write` may write a part of a request, which `send()` takes for success
(`Client.cpp:261`): `asked` are the requests that the pool has read, `spoilt` those of
which it has a part, or that came behind one. A line is two tokens, a text and its
newline, so that a read can end inside a line. What a line says is chosen when it is
parsed, among the answers to what the pool was asked: a pool answers late, twice, or
never.

| Action | Code |
|---|---|
| `login`, `submit`, `ping` | the methods of `Client`, with `send` and its failures |
| `onRead`, `onRead_TooLong` | `Client::onAllocBuffer` and `onRead` up to the first line |
| `parse`, `parse_Fails` | one line: notification, error, answer to the login or to a share, with `Network::onResultAccepted` and `NetworkState::add` |
| `ReadDone`, `Lost`, `onClose` | the end of a read and of a connection |

`Job.tla` has no variables: which ids, blobs and targets are taken and what they
become. A conversion is modelled by what it does; a short target is decoded from
characters that were never written, so it may become any number. The 64-bit ranges
are scaled down (`HalfMax`, `WordMax`).

How the code behaves, where a reader may expect otherwise:

- A line cut by a read is lost: `onRead` searches from the new bytes only
  (`Client.cpp:572`). `WholeLinesParsed` says so, and that nothing else is lost.
- But the search takes the length of all that is in `m_buf`, so that it may go on behind
  it: `m_ip`, `m_rpcId`, and `m_sendBuf`, where the last request ends with a newline. A
  cut line is then handed to `parse()` with the bytes up to there, and becomes a message
  if a zero follows its text. Which cells behind `m_buf` are newlines is chosen for every
  read (`Behind`); the zero that `parse()` writes there is not remembered.
  `WholeLinesParsed` allows one such line in a read.
- A share whose request was written in part waits until the next login;
  `WaitingWasSent` says of which shares that is so.
- A read that is too long leaves its newlines in the buffer, and a cut line of the
  next connection may end at one. `WholeLinesParsed` excludes that case.
- The bytes that are kept are moved with `memcpy`, also where they overlap.
- `Job::operator==` compares all 84 bytes of the blob, the unused ones too.

### Hashrate

`Hashrate.tla` has the worker threads, which count batches and publish the count and
the time in two stores, the timer, which loads them in two loads, and the rings. A
fresh cell holds `Garbage`, unless the constructor cleared it: it clears the rings of
thread 0 only, once per thread. `WindowRate` compares the backwards walk of `calc()`
with a definition over the samples that were added, for every thread that cannot
reach such a cell. A thread publishes when the low bits of its counter are zero; with three or
five lanes that is sixteen batches, and the rate of the short interval is "n/a" on a
slow machine. `Hashrate::stop()` stops the report's timer even if it was never initialised
(`--print-time=0`); output is not modelled.

### Options and Startup

`Options.tla` has no variables: the options are a function from names to values,
`parseArg` and `parseConfig` map options to options, `optimizeParameters` chooses
threads and lanes. `Startup.tla` is the program's life: one action per argument, the
end of the constructor (`construct`), `App::start` with the allocation, and the two
ways to the exit. `Mem::create` and the nonces of `MultiWorker` are operators of the
running program's options.

Numbers go the way they go in the code: `strtol` or `strtoull` with their limits,
`uint64_t`, the test against an option's limits, and then the cut to `int`
(`Options.cpp:476`, `639`); masks keep 64 bits, ports 16. `IntMax` and `LongMax` are
the largest numbers of the two widths, and `MaskBits` the bits of the wider one.

A lane's nonces are `Nonce(job, lane, r)` for round `r`: it starts at the beginning of
its slice and counts up in 32 bits (`MultiWorker.cpp:95`). `ThreadsDisjoint` compares the
slices as a whole, from the first nonce to the last, for every kind of job: all nonces,
or a nicehash job with the byte that must stay. It is about as many rounds as a slice
has nonces, because the code has no end there.

What the code is given is assumed by name: `StringsAssumption` and `InputsAssumption`
say that an option's argument and a file's values are of the types that getopt and the
JSON library give them; `StartupAssumption` that a machine has a thread, that the nonces
are at least as many as the lanes, and that the mask has the bits of the wider integer;
`UsersAssumption`, for `OwnUser` alone, that a user tells which entry it was given in.

What the model shows of the code, besides the properties:

- Three starts end in the phase `"crashed"`: `"safe": true` with automatic threads divides
  by zero (`Cpu.cpp:61`); a thread mask with more than 64 threads asks a bitset for a bit
  that it does not have, which throws; and an allocation that fails is not noticed
  (`Mem_unix.cpp:32`, `47`) until a thread writes to its context. The properties are about
  the starts that go on.
- A configuration file's refused values are skipped, a command line's refuse the start.
- The user of a pool whose url is refused goes to the pool before it.
- A port of a file that is 0 in 16 bits (65536) makes a url that is not valid but leaves
  its port in the first pool. An entry without a port then names a host that is still not
  valid, and the next url replaces that host but not the user: `OwnUser` is promised for
  files without such a port. The proof failed there first; a file with such an entry is
  among those of the run.
- `--cc-update-interval-s` has no upper limit: −5 is stored as −5, 2^32 as 0 and 2^31 as a
  negative number. Ports may be 65536.
- A url `":80"` has a host that is empty but not null, and counts as valid.
- At the end of `App::start` and again in `App::~App` memory, options and network are
  released. `mem.frees` counts it.

### CryptoNight

`CryptoNight.tla` has the dispatch table, the self-test and the kernels. A kernel is a
sequence of steps of lanes; `Unrolled` is the order of the kernels for one to five
lanes, `Looped` that of the general one. The state is what the code has: the Keccak
state of every lane, the registers, one memory for all scratchpads and the output. A
64-bit word is two limbs of 16 values, a scratchpad has 16 cells (lite: 8). The AES
round permutation, Keccak and the final hashes are constants: any functions. The AES
key schedule, the order of key addition on ARM (`vaes`, in the loops of the kernels for
one to five lanes), the multiplication from
32-bit halves and its carries are translated. `CnHash` is the reference: one lane, the
key expansion of FIPS 197, and the loop on whole blocks.

`test_input` repeats two blobs, so the self-test would not notice two lanes of the same
parity being exchanged; `LanesAgree` uses a nonce for each lane. The test for missing
kernels looks at index 2 twice (`CryptoNight.cpp:81`); the tables are filled at compile
time, and `OnlyWorkingKernels` rests on the comparison of the results.

### Digests, Primitives and Hashing

`Digests.tla` has what the five digests do with bytes: buffering, counters, padding,
flags. A byte is a symbol, and a digest is the sequence of the blocks it compresses
with the counters and flags it compresses them with. `Primitives.tla` has their round
functions on symbolic words or on bits: in place, bit-sliced, by table or by renaming,
as in the code. `Hashing.tla` calls them, and states what the standards say: padding on
the whole message, rounds without any of these devices.

Left out of `DigestsAgree`: `hmac_blake224_init` hashes a long key with BLAKE-256 and
keeps 28 bytes; nothing calls it. `blake256_update` and `jh`'s `Update` are checked for
the one call with the whole message that the program makes.

## Runs

| Run | Instance | What it shows |
|---|---|---|
| `failover` | 3 pools, keepalive for the primary, 1 retry, 2 jobs, 1 share | types; `m_index` is the active pool; mined work follows it; it has a socket; the primary runs one attempt at a time; silence is noticed; no lost wakeup; the primary's return stops every backup; `PoolSelection` is implemented |
| `failover_live` | 2 pools, 2 retries, either recovers, 2 jobs that may be repeated, 1 share | some pool is active again and again; a primary that recovers is taken back and kept |
| `workers` | 1 worker, the loop thread and `Check`, 2 pool jobs, 1 donation job, 2 shares, sequence up to 4 | pause flag, stale jobs, missed pauses, missed stop, forgotten shares, blobs |
| `workers_live` | 1 worker, the loop thread and `Check`, 1 + 1 jobs, sequence up to 3 | `stop()` returns, jobs arrive, shares are delivered |
| `network` | pool and donation, 2 jobs, 1 share each | types; the workers have the job of whose turn it is; an active donation has its end scheduled; no lost wakeup; a pool that stays active gets the workers again and again |
| `session` | buffer of 4 tokens, reads up to 3, 4 requests, 2 shares, good, short-target and oversized jobs | whole lines are parsed once; a waiting share was sent, in whole or in part, and not under the login's number; a share is counted once and as decided; sound jobs |
| `hashrate` | 2 threads of 2 and 3 lanes, ring of 4, clock up to 6, a late timer | `calc()` is the rate of its interval, never negative, with torn pairs and uninitialised cells |
| `startup` | pairs of arguments at their limits, 6 files, 4 machines | options within limits; scratchpads fit; own users; disjoint memory; disjoint slices of nonces |
| `cryptonight` | 4 architectures, both AES, both variants, 1 to 6 lanes | every lane computes the hash of its own input; empty kernels never mine |
| `hashing` | all lengths up to 200 bytes and partial bytes, 4 key lengths | padding, counters and flags of the five digests; round functions |

Two runs refute something the program says of itself. `failover_nopool`: after
"no active pools, stop mining" a queued share is submitted to `m_pools[-1]`.
`workers_resume`: after "dev donate finished" a thread hashes the donation's blob for
the pool's job. The findings in `PROJECT.json` quote the lines.

Six more behaviours are in the models and named by the properties that exclude them.
`--retries` counts the first attempt, so the switch to a backup comes after
`retries - 1` retries. A thread that left its sleep loop just before a pause hashes on
through it (`overlap` in `PauseStopsHashing`). A thread that reads the sequence after
`stop()` cleared it never ends, and `stop()` waits for it (`StopReachesThreads`). The
single pool's strategy passes on a job of a pool that refused the login and is being
closed (`stray` in `MinesInTurn`). A pool whose connect libuv refuses at once is never
tried again (`Stranded` in `KeepsTrying`). `Check` beside `setJob()` can leave the workers
hashing while disabled, and beside `stop()` keep it waiting (`raced` in `PausedIffIdle` and
`StopReachesThreads`).

### Bounds

- `N`: two pools are enough for a primary and a backup; three are needed for
  backups that compete and for an advance from backup to backup.
- `Retries`: 1 in `failover`, where every failure may advance; 2, so that the primary
  retries before the switch, in `failover_live` and `failover_nopool`. The
  proofs are for every value.
- `MaxFailures`: `m_failures` stays at the bound. It is compared with `Retries`
  and −1 only, so any bound that is at least `Retries` loses nothing.
- `Jobs`: two, so that a job can be new, or the one the client has; they are
  symmetric.
- `MaxFound`, `MaxQueue`: one share is enough to be late, two to share one signal.
- `MaxSequence`: publications are made while the sequence is below it. Four allow
  a job, a pause or donation, and a further job, and a stop; the races need at
  most three publications. The real counter has 64 bits.
- In `Network` `m_failures` is only compared with −1, so `MaxFailures` is 1.
- `Threads`: no worker reads or waits for what another writes, and the properties are
  about one worker, or about a worker and the queue, so one is enough beside the two
  threads that publish. Two shares of one worker merge their signals too. Two threads
  that take part in one `stop()` or share one queue are covered by the proofs, which are
  for any number.
- `Session`: a buffer of 4 tokens with one kept free holds a line and part of a
  second, so that lines are cut at every place, and two reads reach behind it; four
  requests are a login, two shares
  and one more login or share after a reconnect. `TopSize` 2 stands for ten entries.
- `Hashrate`: the ring, the intervals and the masks are scaled down together; six
  periods let a ring of four come around. `Unit`, the time that a rate is per, is
  divisible by every difference of two times, so that rates are whole numbers.
- `Startup`: each number takes the values at and beyond its limits, and those that the
  cut to `int` or to 64 bits changes; two arguments set every pair of options. `IntMax`
  is 2^17 − 1 and `LongMax` 2^18 − 1: more than a port, and one more bit than an `int`.
  `MaskBits` is 19 accordingly, so that 20 threads are too many; 1024 threads are left
  out. A nonce has two values of its first byte and 2^16 of the rest.
- `CryptoNight`: two iterations (lite: one) let an iteration read what the one before
  wrote. Six lanes reach the general kernel.
- `Hashing`: `CounterRange` 1024 lets the low half of a bit counter wrap within the
  lengths; 200 bytes is what CryptoNight digests, and more than one block of each.

Deadlock is checked in `session` only: elsewhere the program may stop, a call ends, or
undefined behaviour ends a behaviour of the model.

### Fairness

`FailoverLiveness`: libuv completes every lookup, connect and close request and its tick
timer repeats (weak fairness for each pool); a healthy pool that is asked again and
again answers a login some time with a job that is not the one the client kept (strong
fairness: before that it may repeat that job, and be closed, any number of times). That
libuv starts the connects is the premise `Started`. Nothing is assumed of shares,
keepalive and unhealthy pools. A pool that has not logged in sends nothing but answers
to the login: any other line would disarm the response deadline
(`Client::startTimeout`), and the client would wait for ever. That is how the code
behaves, so it is an assumption about pools and not about the client.

`Network`: a buffer has finitely many lines, and the donation's timer, which is
enabled again and again between callbacks, is called (strong fairness: a read
with several lines disables it for a moment). Nothing is assumed of the servers.

`Workers`: a function that was begun is ended, by the loop thread and by `Check`, a
signalled `onResult()` is called, and every worker runs. libuv serves every ready handle
in a turn of the loop, so jobs that keep coming cannot keep a signal waiting: strong
fairness, because between two turns the loop thread is inside a call. Nothing makes jobs,
pauses, other programs or shares come.

## Proofs

Every theorem holds for all values of the constants that satisfy the assumptions
which the modules name (`ClientAssumption`, `FailoverAssumption`, ...); TLC evaluates
them in every run. Most invariants are not inductive by themselves. Each proof module
states the stronger one that is, and that one was checked by TLC on the run's instance
before it was proved.

| Module | Proves of | Properties |
|---|---|---|
| `FailoverProofs` | `FailoverStrategy`, any number of pools | `TypeOK`, `ActiveIsIndex`, `MinesForActive`, `KeepsTrying`, `ActiveHasSocket`, `PrimaryOneAttempt`, `SilenceNoticed`, the step property `PrimaryStopsBackups`, and `SelectsPools`, the implementation of `PoolSelection` |
| `NetworkProofs` | `Network`, any jobs, urls and queue | `TypeOK`, `MinesInTurn`, `DonationEnds`, `KeepsTrying` |
| `WorkersProofs` | `Workers`, any number of threads | `TypeOK`, `PausedIffIdle`, `MinesCurrentJob`, `PauseStopsHashing`, `StopReachesThreads`, `NoShareForgotten`, `HashesOwnBlob` |
| `SessionProofs` | `Session`, any buffer, widths, requests and shares | `WholeLinesParsed`, `WaitingWasSent`, `CountedAsDecided`, `JobSound` |
| `HashrateProofs` | `Hashrate`, any number of threads, ring, intervals and clock | `WindowRate` |
| `StartupProofs` | `Startup` and `Options`, any arguments, files, machines, threads and lanes | `TypeOK`, `FitsCache`, `OwnUser`, `ThreadsDisjoint` |
| `CryptoNightProofs` | `CryptoNight`, any number of lanes, blocks, iterations and any ciphers | `LanesAgree`, `OnlyWorkingKernels` with its first half `WorkingKernel`; and that the two multiplications agree |

`ClientProofs` has the lemmas about the operators of `Client` that two of these cite.

**Clients.** Each operator of `Client` maps a client to a client, keeps its url and its
job where the code does, and, for the operators that go on, leaves a client that waits
for a callback or a deadline unless it is stranded (`TriesOn`). A second group says the
same of the socket: `ClientInv` ties the state to the socket and the deadline to the
keepalive.

**Pool selection.** `TypeInv` is `TypeOK` with two facts: a client keeps its url, and a
pool whose buffer is being read has a socket (a line can close it, not free it). The
three invariants are not inductive one by one, but their conjunction `Inv` is:
`MinesForActive` needs that the active pool is the pool `m_index` and that this pool has
not been disconnected, otherwise its close would not be reported; that is
`ActiveIsIndex` with `KeepsTrying`. `NextInv` has one step for each action;
`StrategyOnCloseInv` and `OnePoolInv` are the two shapes that most actions share.
`SocketInv` adds the sockets of all clients; it needs `Inv`, because a failure may only
start a pool that is not the primary. The refinement uses `TypeInv /\ Inv` in the state
before a step: a step that changes the work is a login or a job of the active pool, a
step that loses the pool is a close.

**Donation.** `Inv` is the conjunction of the three invariants: that the timer is left
alone while a donation is active is what keeps the next donation scheduled.
`OnClosedInv`, `OneClientInv` and `OnJobInv` are the shapes that the actions share.

**Workers.** The properties speak of the time between calls and of threads that have
settled. `IInv` says what holds within a call and on a thread's way: how large the
sequence is at each point of the loop thread (`SequenceInv`), what the pause flag is
while `setJob()` has still to clear it (`PauseInv`), and for each thread that its number
is not ahead of `m_sequence`, that the job it has read is current unless one was
published since, and which publication it can have missed (`ThreadInv`).
`MainStepIInv` has one step for each action of the loop thread, `SetterStepIInv` for each
access of `setEnabled()` by either caller, `WorkerStepIInv` for each of a thread.

**Session.** `IInv` has eight parts. Those that no property states: a number is asked
once and never beyond the counter (`AskedInv`), no two numbers wait with the same share
(`ResultsInv`), what was counted does not wait any more (`CountedInv`), and no text of an
old read looks like one of the next (`BufferInv`). Three arguments need arithmetic or
order:

- *Targets.* A 32-bit target is scaled to 64 bits by division, and the difficulty by
  another: `ScaledBack` shows that the roundings cancel, because 2^64 − 1 is more than
  the square of 2^32 − 1.
- *Best shares.* `BestFirst` depends on the place of an entry and is hard to carry
  through a sort. `TopInv` counts by thresholds: as many entries reach `v` as accepted
  shares do, or all of them. Sorting keeps that, one replacement changes it by one, and
  with descending entries it implies `BestFirst`.
- *Lines.* The ends of the lines are the newlines of what is searched, in order. A line
  that is whole begins after a newline or at the read's first token, and contains no
  other; `CleanLines` makes of this a bijection between the whole lines of a read and the
  lines that are parsed. `BehindLines` says of the lines that end behind `m_buf`, wherever
  newlines are there, that none is whole and only the first can have a text.

`CountedAsDecided` is the conjunction of `CountedOnce` and `BestFirst`. Where the code
sorts, the model chooses an ordering permutation; `OrderExists` and `OrderedSet` prove
that there is one, by a smallest counterexample.

**Hash rate.** `RingInv` says that the ring behind `m_top` holds the added samples, the
newest first, and for the cleared ring zeros behind them. `SamplesInv` and `LoadedInv`
say that the samples are in order: what a tick has loaded lies between the last sample
and what is published, so either order of the two loads gives a pair that is not before
the last one, although it may mix two publications. From these `WalkIsWindow` shows,
for any moment, that the first bucket at which the walk stops is just before the window.
The rate is never negative because counts and times both ascend.

**Options and start.** A section of a file is parsed by a recursive function, and so is
the sum of what the threads need. `Iteration` shows that such a function exists and where
its last value is: the induction is on the numbers that have been reached, a set of
which a least missing one would have a predecessor. With it every argument maps
`OptionSet` to itself (`TextTyped`, `ConfigTyped`), which is the invariant behind `TypeOK`.
`FitsCache` is about one step, the end of the constructor: `Optimal` says what
`optimizeParameters` chooses (`Optimized`), and that the options keep that afterwards is
in `IInv`. For `ThreadsDisjoint` the sum of sizes grows by what a thread needs
(`TotalGrows`), lanes have different numbers (`LanesDiffer`), and with them slices that do
not meet (`SlicesApart`) and end before the largest nonce (`SliceEnds`). A number that is
cut is in the range of its width, whatever that is (`SignedFacts`).

`OwnUser` needs an invariant of its own. Between two settings of an entry a pool may have
the user of one entry and the host of another, so the invariant cannot be `OwnUser`
itself. `Kept` says of each pool that its user may see its host, and that the user of a
pool that is not valid yet may see any host; the next url can only replace such a host.
A url that makes a pool, or gives the only pool its host, leaves pools that are kept
(`UrlKept`); the rest of the entry then finds its own pool last (`After`, `EntryRest`).

**Kernels.** `LanesAgree` says that a kernel that has returned computed `CnHash`, the
standard, in every lane. The invariant behind it is about kernels that run.

- *Primitives.* Each operation of a build is shown to be the standard's. `MultiplicationsAgree`
  takes the half of a word as a parameter: for two limbs of any size the product from
  halves, with its two carries, is the product, because a comparison finds exactly the sums
  that wrapped (`CarryIsOverflow`). `KeysAgree`: `aes_genkey`, which xors a block with its
  own shifts, has the key expansion of FIPS 197. `x86Encrypts` and `armEncrypts`: the ten
  rounds are the encryption, with the key added last or first. `ExplodeFills` and
  `ImplodeFolds`: eight blocks at a time, the passes over a scratchpad are the standard's.
- *Lanes.* `LaneAt(d, ...)` says what the state, registers, scratchpad and output of a lane
  are after `d` of its own operations: a stage of the standard, and within an iteration of
  the loop a part of it (`LoopAt`). `LaneStep` is the step from `d` to `d + 1`; it needs no
  other lane.
- *Interleaving.* `IsCount` counts the operations of every lane before each step of a
  kernel. `TakesAll`, `TakesEach`, `TakesThen` and `TakesTimes` follow the ways in which
  kernels are built, so that both the kernels unrolled by hand and the general one take every
  lane through all its operations in their order (`KernelTakes`).
- *Memory.* The scratchpads are parts of one block: `Places`, `PadStore` and `PadFill` show
  that a lane's address, masked or running, stays inside its own part, so that every other
  lane keeps what it has (`LaneMoves`, `LaneStays`).

`LanesRun` puts these together: each lane of the running kernel satisfies `LaneAt` for its
count. In the instance that TLC checked, a lane's count is the number of its steps before
`pc`. Nothing is said of what a context held before, so it holds after other kernels too.
The induction over iterations, rounds and limbs of a key is on the set of the numbers
reached (`Steps`, `Iteration`), as for options.

`OnlyWorkingKernels` has two halves. A build with an empty function leaves the buffer as it
was; no published hash is what an untouched buffer holds (`DigestAssumption`), so the first
comparison fails, and `passed` is never set again. For every other build `LanesRun` gives the
published hashes at each of the five comparisons, so it never fails. `PrimitivesAssumption`
says that the ciphers map blocks to blocks; a limb has 16 values, a word two limbs.

Model-checked only, and why:

- Liveness (`FailsOver`, `StopJoins` and the others of `failover_live`, `workers_live` and
  `network`) is beyond the prover.
- `DigestsAgree` and `RoundsAgree` of `Hashing`: each is a comparison of two closed
  computations on chosen inputs (a length of a message, a nibble, a table), which the run
  makes for every input in its range. For all lengths they would be inductions over five
  buffers, each with its own counter; they are not attempted.

## Not modelled

- The parts named under Scope: `xmrig.cpp`, what `Check` looks for, `cc/`.
- `SSE2NEON.h`, a vendored translation of intrinsics; logging, platform and HTTP code.
- The texts of requests and JSON: a message is what the code reads of it.
- Memory on Windows, detection of the machine, the build of the CC server.
- The values of full digests: the rounds and the padding are modelled apart, and the
  vectors of `CryptoNight_test.h` are the program's own test of the whole.
- The donation together with several pools (`FailoverStrategy::resume`).
- Reorderings of relaxed atomics beyond those that a pair of loads in either order
  gives (`Hashrate`).

## Plan

1. The abstract contract of one connection, which `FailoverStrategy` and `Network` both
   rely on, with a refinement of each.
2. `FailoverStrategy::resume` and the donation over an abstract `PoolSelection`.
