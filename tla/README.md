# spotlib: a TLA+ model of the client

spotlib connects a program to the Spot messaging network: it keeps websocket
connections to several servers, authenticates with a signed ID card, routes
queries and their answers, and encrypts what is addressed to a peer by key.
This directory models the client: its concurrent core in both builds (threads
and browser), what runs on top of it, its key store and its wire formats. TLC
checks the models, and TLAPS proves the safety of every stateful component, and
that writer and reader of the wire formats agree, for all values of the constants.

Line numbers refer to `src/spotlib/src/` unless a path is given.

## 1. Inventory

| Component | State | Operations | Interacts with |
|---|---|---|---|
| Online-state cell, `client.rs` 118-154, 278-301, 1135-1147, 1205-1227 | `online_cnt` (mutex), `online_cv`, `min_conn`, `closed` | `online_incr`, `online_decr`, threshold store, `close`, `wait_online` | connection threads write it, application threads park on it, events leave it |
| Connection manager, `conn.rs` 49-187, 306-314 | `hosts`, `conn_cnt`, tick, per-thread failure counter | `main_thread`, `run_connect`, `conn_thread`, `handle` | host list API, cell, transport |
| Outgoing queue and sessions, `client.rs` 76-116, `conn.rs` 189-231, 279-304 | `wrq`, each session's socket, `dead` flag and popped message | `push`, `push_front`, `pop_timeout`, writer thread, `read_loop` | callers push, writers pop, `close` wakes |
| Query router and card cache, `client.rs` 198-248, 303-335, 415-494, 538-549 | `in_q`, one channel per query, `id_cache` | `query`, `get_idcard`, `route_message`, `idcard_update` | readers hand answers to callers |
| Handler dispatch, `client.rs` 340-408, 1050-1101, 1180-1193 | `handlers` | `run_handler`, `set_handler`, the default handlers | router, queue, cache |
| Handshake and identity, `conn.rs` 235-276, `client.rs` 183-190, `identity.rs`, `spotproto/src/handshake.rs` | the ID card and its signed bytes | `respond_handshake`, `handle_groups`, `update_groups` | every connection thread, one card |
| PacketConn, `packetconn.rs` | an inbox and its lock | `listen_packet`, `recv`, `send_to`, drop | handlers, router |
| Browser client, `client.rs` 555-901, `conn_wasm.rs` | the same, plus `sink`, `outq`, `online_waiters` | as above, as tasks of one event loop | one sink for all connections |
| DiskStore, `store.rs` | key files | `add_key`, `load_keys` | other processes, crashes |
| Wire formats, `spotproto/src/` | none | varints, messages, packets, client ids | reader, writer |
| Event hub, `events.rs` | the senders of its subscribers | `subscribe`, `emit` | the cell emits, applications listen |
| Host list API, `api.rs`; `resolver.rs` | none | `parse_hosts`; `lookup_host` | manager, transport |
| Transport, errors, utilities, high-level calls, browser bindings | none of their own | I/O, formatting, forwarding | |

What is hard, and what makes each component correct:

* **Cell.** Callers of `wait_online` park on a condition variable while
  connections, `run_connect` and `close()` change what they wait for. No caller
  may sleep through its condition, each returns by its deadline, and the events
  a subscriber sees must agree with the counter.
* **Manager.** A thread leaves the host set, then the counter; its successor may
  start between the two. Counters must be exact on every path, no host may have
  two threads or be lost, `close()` must end everything, too few connections
  must lead to a new host list, and a useless host must be given up.
* **Queue.** A write may fail after the message was popped, on one of several
  connections, while the client is closed. No message may be lost or doubled,
  and nobody may stay parked.
* **Router.** The answer races with the registration, with the deadline and with
  its own duplicates. Each query gets at most one answer, can get one from the
  moment its request is visible, leaves nothing behind, and returns in time.
  Cards in the cache go stale.
* **Dispatch.** All clients run the same code, so the answer of one is a message
  to an endpoint of another: nobody may answer an answer, and an answer goes to
  the endpoint the question named, as confidential as the question was.
* **PacketConn.** Registration by name outlives its registrant; receivers share
  one lock. A receiver must learn that its handler is gone, and keep its timeout.
* **Identity.** Several threads change, sign and send one card. What is signed
  must be what the card says, and each server must see what it just added.
* **Browser client.** Interleaving happens at every `await`, and all connections
  share a sink. No message may be lost in a task that awaits its send.
* **DiskStore.** Two processes and crashes, without a lock. A key that was stored
  must come back.
* **Wire.** Width and boundaries: both sides must read the same from the bytes.

PROJECT.json lists the hazards with their lines.

## 2. Modules

| Module | What it is |
|---|---|
| `OnlineState` | the cell, with the connections as environment |
| `EventHub`, `OnlineEvents` | the hub of subscribers; cell and hub composed |
| `ConnManager` | extends `OnlineState` with the threads that drive the cell |
| `Outbox` | abstract: pending messages, each written once |
| `WriteQueue` | queue, readers and writers; implements `Outbox` |
| `QueryRouter` | callers, readers, peers, the card cache |
| `Endpoints` | handler maps of several clients, `run_handler`, `PacketConn` |
| `BrowserClient` | the browser build as tasks of one event loop; implements `Outbox` |
| `DiskStore` | processes that load and add key files in one directory |
| `Identity` | extends `DiskStore` with clients, their card and its connections |
| `Encodings`, `Wire` | pure: text encodings and replies; packets and messages |
| `OnlineStateProofs`, `ConnManagerProofs` | theorems about the cell and the hub; about the manager |
| `WriteQueueProofs`, `QueryRouterProofs`, `EndpointsProofs` | theorems about the queue, the router, the endpoints |
| `BrowserClientProofs`, `IdentityProofs` | theorems about the browser client; about stores and cards |
| `CodecProofs` | theorems about `Wire` and `Encodings`, with the lemmas on folds and sequences they need |
| `MC*` | symmetry sets and input sets for TLC; `MCCodec` feeds inputs to the pure modules |

Each module has a type invariant. The runs check that of the cell and that of
the manager, where it says that counters stay in range; the others are the first
conjunct of the inductive invariants and are proved with them (section 4).
A definition whose comment begins with "Mutant" is a plausible error of the code
next to the definition it distorts; PROJECT.json pairs each with the property
that finds it.

### OnlineState, EventHub, OnlineEvents

Variables carry the field names of `Inner`. `announcing` and `closing` stand
between a store and its `notify_all`; `lock` is the mutex when it is held across
steps, which only a waiter does between its checks and its park; other critical
sections are one step. `reported` is the count in the last `Status` event. A
park ends by notification, by timeout or spuriously. `close()` takes no mutex,
so `CloseStore` and `CloseNotify` may fall anywhere. Concurrent calls of
`close()` are two steps in turn, since they write the same value.
`OnlineEvents` conjoins a step of the cell that changes `reported` with
`Emit`, because both happen under the mutex; subscribers come and hang up at any
other time. `heard[u]` is the last event in the channel of a subscriber.

### ConnManager

`mpc` is the main thread's place, `pc[t]` that of the connection thread in slot
`t`; slots are reused, so the model covers any number of threads over time.
A host is registered when `run_connect` inserts it and spawns the thread
("start"), the thread counts itself when it runs, leaves `hosts` in
`Unregister` and the counter in `ThreadExit`. `handle()` up to `online_incr` is
one step that fails or succeeds; `SessionEnd` is the drop of the guard and the
accounting after it. `age` is `start.elapsed()`, which counts from the end of the
dial; `lasted` is history, the time of a session from the end of its handshake:
no step depends on it, one property does. Sleeps (`CONN_RETRY_DELAY`, the
pause between dials) are stutters: any interleaving they could prevent is
allowed.

### WriteQueue and Outbox

`sess[c]` and `wpc[c]` are the reader and the writer of connection thread `c`,
`held[c]` the message its writer popped. `ReadEnds`, `ReadRejects` and
`ReadPoll` are the three ways out of `read_loop`; the third exists only for a
transport without shutdown handle, the only case with a read deadline. A write
on a broken socket may still succeed. `tried`, `pushed`, `wire` and `breaks` are
bookkeeping of the model. Messages always encode (`Message::to_bytes` cannot
fail), so the branch that drops one that does not is dead and left out. The
refinement maps `pending` to the queue and the writers' hands, `delivered` to
what was written.

### QueryRouter

A caller looks up the card of a key-based target, if need be queries the server
for it, registers a fresh id, pushes, looks at its deadline and waits; `expired`
is the one deadline of the whole call. An answer is a form (no bottle, signed,
or encrypted and signed), the card version its signer's key is on, and the error
flag. A reader takes the sender out of `in_q` in one step and sends in another.
Ids are random UUIDs: `Keys` is a pool from which an id is taken that nobody
holds any more, which is what freshness means. An answer to a query that has
returned is discarded, which changes nothing, and needs no action. A body that
cannot be sealed (client.rs:429) makes `query` return before it registers
anything, and has no action either. `version` is
the peer's newest card; the server may know any older one.

### Endpoints

`handlers[a]` is the map of client `a`, `net` the messages under way, `running`
the threads of `run_handler` with the handler each cloned out of the map. A
message says whether it asks and whether its body is a bottle; the contents of
bodies are left out. `Route` takes the handler there is at that moment;
`RunHandler` calls it later and pushes the answer, or `RunHandlerFails` drops a
bottle that does not open or whose sender has no card (the query for that card is
`QueryRouter`'s). A user's handler may return any result. `Listen` takes the
name over, `DropConn` removes the handler of its name whoever owns it, as the
code does. A receiver first gets the lock of the inbox, then a packet, the end of
the channel, or its timeout. The channel has ended when the handler that owns
the sender is neither in the map nor in a running thread. `net` is a set: messages
are reordered and lost, not repeated.

### BrowserClient

One action is what a task does between two awaits. `main` and `task[h]` say what
the main loop and the connection task of a host await; `flight[f]` is the message
of which task or call `f` awaits the send. `sink` is only whether a sink is
installed: the code replaces and drops it without asking whose it is, which is
the source of the hazards here. `FlushRound` is one turn of the loop of
`flush_out`, from looking for a sink to the next await. A query pushes and
flushes in the same task, then waits under a timer of its own. `DialNext` looks
each host of the list up when the loop comes to it, since tasks come and go
between two awaited dials.

### DiskStore and Identity

A process lists the directory, reads the entries in any order, and without a key
makes one: it looks for a free name (`Pick`), creates the file (`Create`, from
then on `Partial`) and fills it (`Write`); it may stop between any two steps.
`listed`, `stored` and `raced` are history: what was on disk when it listed,
which calls of `add_key` returned, and which keys shared a name because two
processes found it free. `Identity` builds a client from a store, with the first
key as its identity. `Apply` is one record of `update_groups`, `UpdateGroups`
the loop that stops at the first error, `HandleGroups` the critical section that
applies and signs, `Answer` the second visit to the mutex that reads what is
sent. A card is a set of memberships: nothing depends on their order.
`signed.no` counts signatures, so `late` can say that an answer was older
than the one made for it. Files whose names differ from `id_*.key` are not there;
signatures of records verify or not ("forged").

### Encodings and Wire

Parsers return a set that is empty on failure. Widths are scaled (a varint
group has 4 values, a u64 32, a 32-bit usize 4) so that inputs of six symbols
reach each boundary: a length beyond usize, a flag word with its top bit
set, a varint that is not minimal, a last base64 group of 1, 2 or 3 characters.
CBOR is a sequence of typed entries, a signature is what it covers. Properties
compare with a reference: arithmetic for times and addresses, the identity for
what is encoded and parsed.

## 3. Runs

| Run | Checks | Bounds | Distinct states |
|---|---|---|---|
| online | `OnlineTypeOK`, `NoMissedThreshold`, `PresenceReported`, `SubscriberAgrees`, `WaitReturns` | 2 waiters, 2 subscribers, 2 connections | 123,904 |
| conn | `TypeOK`, `CountersExact`, `OneThreadPerHost`, `HostsExact`, `CloseTerminates`, `RefillHappens`, `ShortConnectionsGiveUp`, `OnlineSpec` | 1 host, 2 thread slots, lists up to 2, 1 waiter | 108,016 |
| queue | `FirstTriesInOrder`, `ImplementsOutbox`, `Delivered`, `CloseEnds` | 3 messages, 2 connections, one with shutdown handle, 2 faults | 131,452 |
| query | `NoLeak`, `Answerable`, `AtMostOneAnswer`, `QueryReturns`, `HealsAfterRotation` | 1 caller, 2 readers, 1 peer with 2 cards, 2 ids, 1 `idcard_update` | 316,758 |
| endpoints | `AnswersMatch`, `ConversationEnds`, `ClosedRecvReturns`, `TimedRecvReturns` | 2 clients and the server, 2 PacketConns of one name, 2 receivers, one with timeout, 2 questions | 101,528 |
| identity | `LostOnlyByRace`, `ReloadKeepsKeys`, `AnswerCarriesUpdate`, `StaleOnlyAfterFailure`, `LastRecordDecides` | 2 processes, 3 file names, 2 keys, 2 connections, 2 requests of 3 shapes | 998,108 |
| wasm | `NoIdleQueue`, `ImplementsOutbox`, `ParkedMeansBelow`, `CloseEnds` | 2 hosts, 2 queries, 1 waiter, sends that fail | 138,248 |
| codec | `TextsOk`, `RepliesOk`, `PacketsOk`, `FormsOk`, `HandshakeOk` | every input of up to 6 symbols from 6 | 55,987 |
| online_close | `CloseWakesWaiters` is violated | 1 waiter | |
| conn_idle | `KeepsTrying` is violated | 1 host | |
| conn_flap | `FlappersGiveUp` is violated | 1 host | |
| wasm_sink | `OnlineFlushes` is violated | 2 hosts, no send fails | |

What the passing runs show.

* **online**: no caller of `wait_online` sleeps through a connection or a change
  of the threshold, each returns by its deadline, and a subscriber can rely on
  the last event it received.
* **conn**: counters, host set and threads stay consistent while a thread and its
  successor overlap; `close()` ends everything; too few connections lead to a
  new fetch; a host whose connections fail, or end within CONN_HEALTHY_AFTER of
  the dial, is given up; and the manager implements the cell, so
  what `online` shows with an arbitrary environment holds with this one.
* **queue**: no message is lost or written twice, messages are first tried in
  the order of their push, they are written once faults end, `close()` ends all.
* **query**: the answer of a query is in exactly one
  place; entries go with their query; every call returns; a caller recovers from
  a stale card.
* **endpoints**: an answer goes back where the question said and is encrypted if
  the question was; no exchange keeps itself alive, even between handlers that
  reply to everything; receivers learn that their handler is gone.
* **identity**: a stored key is lost by the race in `add_key` only, and reloading
  finds all others beside partial files (as a set: with several keys
  the order of the directory decides which is the first, hence the identity, and
  no property speaks of it); the card that answers a request has what
  the request added; the signed card differs from the card only after a failed
  update; of several records about a group the last decides.
* **wasm**: the shared sink loses and repeats nothing, no message waits beside an
  installed sink, no waker is forgotten, `close()` ends every task.
* **codec**: ids, host names, times, thresholds, packets, messages and handshakes
  mean the same to the writer and the reader.

Why the bounds suffice. Two waiters give one that holds the mutex while the other
is parked or between its steps; two subscribers give one that hung up before one
that did not. Two thread slots for one host give a leaving thread and its
successor; lists of length 2 over one host contain the empty list, the repeat,
and, with `MaxHosts` and `MaxReported`, a threshold above the number of hosts.
The safety properties of every run are also proved for all sizes. `MaxFail = 1` makes a thread
fail, retry and give up; `HealthyAfter = 1` separates a connection or a session that
lasted from one that did not; `TickPeriod` 2 has a tick that looks and one that does not.
`MaxOnline` bounds the environment of `OnlineState` only, and `BoundAssumption`
says that the manager stays within it. Two connections of the queue give the
race for a message and a writer that requeues while another pops, one with and
one without shutdown handle; faults are counted so that they end. Two readers
give duplicates that race on two connections and a timeout that races a reader;
an answer that a reader holds while its query returns meets the next query of the
same call (the main one after the card's) or of a later call. A second caller
would add other owners of ids and a cache filled by others: `NoLeak`,
`Answerable` and `AtMostOneAnswer` are proved for any number of callers, readers
and ids; `QueryReturns` and `HealsAfterRotation` are checked for one caller. One
rotation and one `idcard_update` give a stale card in the cache, in a caller's hands and in a
handler. In `endpoints` both
PacketConns have one name, so each may take over and remove the other's handler,
and a receiver with a timeout can stand behind one without. In `identity` one
process is also a client and the other a rival in the directory; the requests
join two groups, one for a stranger's key; renew and leave; and fail after a
record that was applied. A third file name lets a rival meet a partial file and
an occupied name. Hosts and queries of `wasm` are two, so that a connection that
ends meets another's sink with a message in the hands of each. `MaxFail = 0`
makes every failed attempt the last, since retries touch neither sink nor queue;
a healthy session pauses and dials again.

### Fairness

* `OnlineState`: a thread inside `wait_online` gets the mutex if it asks for it
  again and again (strong fairness: others may take it in between), its
  deadline passes, its park ends at the deadline, a started notification is
  sent. Nobody is obliged to connect, or to call.
* `ConnManager`: running threads run; a dial ends within `DIAL_TIMEOUT`; each
  read of a handshake has a deadline, so a handshake ends if the server does not
  send other packets for ever, which is assumed; a session ends after `close()`
  because its writer shuts the socket down or its reader polls. That assumption
  is the conclusion of `CloseEnds` in `WriteQueue`. Strong fairness is used where
  a step needs the mutex of the cell.
* `WriteQueue`: running threads run, an attempt to connect ends, a broken socket
  is noticed by its reader, a read deadline passes where there is one. Faults
  are never due, and finitely many.
* `QueryRouter`: threads inside a call run, deadlines pass, readers finish what
  they began. The network owes no answer. `HealsAfterRotation` states its
  assumptions about others itself (`Cooperation`, `Settled`).
* `Endpoints`: a message arrives or is lost, handlers return, a timeout passes,
  and a receiver that asks for the lock again and again gets it (strong, since
  others take it in between). Nobody is obliged to send, to listen or to drop.
* `BrowserClient`: timers fire and awaited sends, dials and handshakes end; the
  event loop runs each task that can go on. That a stream ends or that an answer
  comes is never due; a read deadline is.
* `Identity`, `DiskStore` and the pure modules have no liveness properties.

### What the violated runs say

Four runs show behaviours that contradict comments of the code; PROJECT.json
quotes the lines. `conn_idle`: an empty host list makes `min_conn` 0 and the
refill test `conn_cnt < 0`, so the client never fetches again. `conn_flap`: the
clock of CONN_HEALTHY_AFTER starts before the handshake (conn.rs:131), not past it
(conn.rs:37), so a host that is slow in the handshake and then drops each session
at once is retried for ever and keeps `conn_cnt` up; a read of the handshake may
take 300 s, the clock needs 30. `ShortConnectionsGiveUp` is what the code does
ensure: the same with the time that it measures. `online_close`: a
`close()` between check and park leaves a caller of `wait_online` asleep until
its timeout. `wasm_sink`: a browser connection that ends drops the sink of one
that is still online, and messages wait although the client is online.

Three more behaviours go against a comment; the models contain them, and no run is
about them:

* a list that names a host twice counts it twice in the threshold and dials it
  once (conn.rs:79, 95): the threshold is then out of reach until another list
  comes, which conn.rs:77-78 means to prevent ("never require more connections
  than there are hosts to dial");
* `Status`, documented as "Connection status changed: (online connections, total
  connections)" (events.rs:13), is emitted on the first and the last online
  connection only;
* in the browser the card query, the push and the wait of a query each have
  their own time (client.rs:778), so they add up, where client.rs:763 says "for up
  to `timeout`".

Other limits showed while modelling, about which no document says otherwise:

* `get_idcard` stores a fetched card without the overfill test of
  `set_idcard_cache` (client.rs:489);
* dropping a PacketConn removes the handler of its name, also a newer
  PacketConn's (packetconn.rs:132);
* a `recv` with a timeout waits without bound behind one without
  (packetconn.rs:74); `TimedRecvReturns` states that exception;
* base64 and base32 text that is not canonical is accepted, a name that is no
  UTF-8 grows when it is parsed (message.rs:86), and a server's time out of range
  panics (client.rs:1486).

## 4. Proofs

`OnlineStateProofs` proves, for every set of waiters and every bound, type
correctness, `NoMissedThreshold` and `PresenceReported`. The inductive invariant
`OnlineInv` adds to them

* `MutexHeldToPark`: the mutex is held exactly by the waiter about to park, so
  nothing that needs it happens between a check and a park, and
* `ParkingJustified`: what that waiter saw still holds. Without it the step from
  "about to park" to "parked" would have nothing to preserve.

`ConnManagerProofs` proves, for all hosts, thread slots, host lists and limits,
`TypeOK`, `CountersExact`, `OneThreadPerHost`, `HostsExact` and
`Spec => OnlineSpec`. `ConnInv` is `OnlineInv` and these with

* `AnnouncedBySpawn`: a threshold that is stored and not announced means that the
  main thread is in `run_connect`, so the cell's guard on the next store holds,
  and
* `AttemptsLeft`: a thread that goes on has not used up its attempts, which
  bounds the failure counter.

Each step of the manager is a step of the cell or leaves it alone; with
`CountersExact` an `OnlineDecr` finds a positive counter and an `OnlineIncr` one
below the number of slots, so the guards of the cell's environment hold
(`BoundAssumption`). The proofs use the named assumptions on constants only; the
finiteness of `Threads` is needed for cardinalities, with the library's theorems
on finite sets.

`OnlineStateProofs` carries `OnlineInv` through the hub and proves
`SubscriberAgrees` for any number of subscribers, too; so `ConnManagerProofs`,
which extends it, has the hub's variables in scope and does not use them. `EventsInv` adds
`LastEventHeard`, which says the same of each listener whatever the others
heard, and `NothingBefore`: the hub drops only senders that hung up, so a name
that was never in its list has heard nothing.

`WriteQueueProofs` proves `FirstTriesInOrder` and `ImplementsOutbox` for any
number of messages and connections. `QueueInv` places every message: once in the
queue or in one writer's hands (`OnePlace`), pushed before (`AllPushed`), once
(`PushedOnce`), and held exactly while its writer sends (`HeldToSend`). That is
enough for the refinement, with `WriterInSession`: a new session never replaces a
writer that holds a message. The order needs the queue index by index.
`QueueSplit(k, n)` says that its first `n` messages were tried and put back and
that the rest are the pushes after the first `k`, which are those that were
tried: so what is popped first is the oldest untried message or one put back.

`QueryRouterProofs` proves `NoLeak`, `Answerable` and `AtMostOneAnswer` for any
number of callers, readers, peers and ids. They hold because an id has one owner
at a time: `KeyInQuery` and `KeysApart` say so, `ChannelOwned` and
`AskedInProgress` that channels and requests belong to owners, `EntryBeforePush`
that nobody takes an entry out before its request can be seen. `NestedForPeer`
says what the nested card query works for, which the types need.

`EndpointsProofs` proves `AnswersMatch` for any clients, names, handlers and
threads. `QuestionsSent` is the point of `EndpointInv`: whatever asks is a
question that was sent, so the answer made from it long after is compared with
that question. `AskedCounted` says that questions are finitely many, so that the
number of the next one is fresh; `ReceiversInCall` ties the lock of an inbox to
the call that holds it.

`BrowserClientProofs` proves `NoIdleQueue`, `ParkedMeansBelow` and
`ImplementsOutbox` for any number of hosts, queries and waiters. `ClientInv`
counts the tasks (`TasksCounted`, without which a counter could go below zero),
lets only a running task or call await a send (`SendersRun`), and places each
message in the queue or in one pair of hands (`OnePlace`), handed over by a call
(`HandedOver`), so that no second one is submitted.

`IdentityProofs` proves `LostOnlyByRace`, `ReloadKeepsKeys`,
`AnswerCarriesUpdate`, `StaleOnlyAfterFailure` and `LastRecordDecides` for any
processes, files, keys, connections and requests. `StoreInv`: two processes that target one name have
their keys in `raced` (`RivalsRaced`); a stored key that was in no race is in a
file that nobody will write to (`StoredIsSafe`: without the second half the write
of a process that chose its name earlier would break the first); and what a
process listed is in its store or still to be read from such a file
(`ListedIsFound`). `ClientInv` of that module bounds what is due by the number of
signatures, which only grows (`RequestsCounted` bounds it in turn), and says what
a card may hold (`OwnCard`).

`LastRecordDecides` is about a fold over the records of a request. The induction
theorems of the library take an operator and cannot be used, but its least-element
theorem for well-founded relations takes a set: `UpTo` derives from it induction
up to n for the members of a set. With that `FoldExists` builds the recursive
function behind the fold, so that `UpdateSteps` gives the states between the
records, and `UpdateFacts` goes through them with what one record does
(`ApplyFacts`). `CodecProofs` reasons about its folds in the same way
(`StepsExist`, `FoldGoes`).

`CodecProofs` proves what the `codec` run checks, `TextsOk`, `PacketsOk`,
`FormsOk`, `RepliesOk` and `HandshakeOk`: not for the inputs of the run only but
for every buffer of numbers, whatever its length, and for every request and reply
made from entries.

A hash comes back out of a client id for three reasons. A chunk is read back from
its digits (`DigitsHoldBytes`, `ChunkReadsBack`). A sequence is the concatenation
of its chunks and, if all parts but the last are as long as a chunk, the parts
are the chunks of their concatenation (`ChunksJoin`, `PartsJoin`), so that
cutting undoes joining at the widths 3 and 4. And `Split` cuts at the first slash
and the last dot, where the hash, all digits, has neither (`SplitGoes`,
`FirstPart`, `LastPart`, `HashFound`).

The addresses in a name are followed through the decoder letter by letter: what
it has put out are whole bytes of the bits read, and the rest, at most seven,
stands at the right of the register (`HasBits`, `LetterKeeps`). A letter moves
them up to twelve, which the register holds, as its size is a multiple of 2^13
(`RegisterKeeps`, `ShiftedBits`), and a byte taken out has the upper eight
(`ByteBits`).

A varint is read back because the groups that `Shifted` splits a value into
determine it (`ShiftedIs`, `GroupedIs`, `ReadsBack`), and the width of a word is
where a reader must give up (`WordFits`). `NameReadsBack`, `MessageReadsBack` and
`PacketsReadBack` build on that what a reader finds behind a varint: a name no
longer than its limit, a body of the stated length, and nothing else (`Cut`,
`CutOut`). A handshake is a map whose entries an encoder may leave out and a
decoder may meet in any order with entries it does not know: `EntriesAre` says
what the encoder wrote, `RequestSteps` which fields the decoder has after each
entry, and `RequestReadsBack` and `ResponseReadsBack` that they are the
encoder's. A time is carried exactly by `Carry`; the threshold of `ThresholdsFit`
is one the hosts can meet, since `TextsOf` drops what is no text.

The proofs use the named assumptions on constants only. Besides types they are:
finitely many thread slots (`ConnManager`, for cardinalities); a peer has at
least one card version (`QueryAssumption`); a message may carry no reply address,
"noreply" (`EndpointAssumption`); the marks for "no send" and "handshake" are no
queries, and host lists are sequences of hosts (`BrowserAssumption`); key, file
and marker values differ (`StoreAssumption`); a group of a varint has more than
one bit, the largest word fits the groups a reader takes, and a size of memory
divides the word and holds the longest name (`WireAssumption`); the lengths and
limits of `EncodingAssumption` are positive, and its `Register`, 2^32 in the code,
is a multiple of 2^13.

The invariants of the stateful modules were also checked by TLC on the bounds of
their runs.

Only the liveness properties stay model-checked: fairness and ENABLED are out of
the prover's reach.

No module uses RECURSIVE. What is not stated by any run and could be proved next:
that what is on the wire or in a file in use stays there, and the composition of
the native manager and the queue, in which the session that `ConnManager` ends is
the one that `WriteQueue` drains.

## 5. Not modelled

* The websocket, TLS and HTTP libraries, JSON and CBOR, the cryptography of
  `bottlers`: external; their outcomes are choices of the models.
* Of the transport and the resolver all but the decoding of host names: I/O
  without state of the program.
* Subkeys and their purposes, and the duplication of keys when a client is
  built: fixed before the first thread starts.
* `store_blob` and `fetch_blob`: one query each around encryption with the
  client's own key; no state. The other calls on `Client` are one query of
  `QueryRouter` each, of which `get_time` and `get_group_members` are decoded in
  `Encodings`.
* In the browser build `run_handler` and the card cache, which repeat the native
  ones (`Endpoints`, `QueryRouter`) between their awaits, and its events.
* In `Endpoints` messages that the network repeats: a repeated question is a
  second question to the handler, and `MaxSends` covers two.
* Errors, formatting, logging, the crate root, the example, the browser bindings
  and the demo page: no state, or a user interface.
