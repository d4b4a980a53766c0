# A TLA+ verification of gotojs

gotojs exposes Go functions, methods and attributes over HTTP and generates the
JavaScript that calls them.  On top of it, the package `stream` exposes an event
stream: browsers poll for messages that a source delivers.  This directory holds
TLA+ modules translated from the code, TLC configurations that check them on
small instances, and theorems about them that TLAPS proves for every value of
the constants.  Paths below are relative to the repository.

## 1. The system

| component | code | state | operations |
|---|---|---|---|
| ring buffer | `stream/buffer.go` | `cid`, `buf`, `mutex` of a Buffer | Enqueue, HasNext, Fetch, Empty |
| stream service | `stream/stream.go` | a Fetcher's `running`, `buf`, `sessions`, `backlog`, and the channels between its goroutines | Next, Reset, Start, Stop of a Stream; the BacklogRunner; the fetcher loop; cleanup |
| container registry | `backend.go`, `binding_types.go` | map interface -> method -> Binding, `revision`, global injections, filters | the Expose functions, Remove, AddInjection, If, ClearFilter |
| engine cache | `frontend.go:582-766` | `cache[key]` with engine, libraries and revision; `flags` | build, ClearCache, Flags |
| request dispatch | `frontend.go:965`, `backend.go:721`, `filters.go`, `typeconv.go` | one HTTPContext, session and buffer per request | serveHTTP, processCall, InvokeI, filters, value conversion |
| session cookie | `frontend.go:203-346` | properties held by the client, a dirty flag per request, the container's key | Set, Delete, Flush, SessionFromCookie |
| Go client, remote bindings | `client/client.go`, `frontend.go:932` | call counter, header map, cookie jar | Invoke, CopyHeader, NewProxyClient |
| JavaScript runtime | `templates.go` | open calls, backlog | HTTP.Queue, HTTP.Call |
| helpers | `helper.go` | readers left of a ReaderArray | Read, Close, cipher functions |
| twitter source | `stream/twitter/twitter.go` | connection, transcoder queue | Start, Next, Close |
| App Engine adapter | `gae/gae.go` | chain of module controllers | Start, Stop, ServeHTTP |
| libraries, minify, file server, command line tool | `frontend.go`, `util/gotojs.go` | files | read and write them |

How they interact.  An HTTP goroutine enters `serveHTTP`, reads the session from
the cookie, finds the Binding in the registry, runs filters, converts parameters
and calls the method; the cookie goes back with the response if the session was
changed.  A request for the engine gets JavaScript built from
the registry and cached under the revision.  A Stream is such an exposed object.
Its calls run in HTTP goroutines and share a Fetcher with two more goroutines:
the fetcher loop, which takes messages from the source, enqueues them and
signals on `notify`; and the BacklogRunner, which on each signal answers a call
that waits for data, and on a timer one that has waited too long.  The ring is
the only thing guarded by a mutex; `running`, the session map, the backlog list
and the pointer to the ring are shared without.

What is hard.  Ring arithmetic round the end; results that alias the ring;
Empty without a lock; check-then-act on `running`, on HasNext and Fetch, and on
the session map; unsigned time differences; removal from a list that is being
iterated; two fetcher loops after a quick restart; rendezvous between three
kinds of goroutines; in the container, a cache whose validity is a counter that
not every change advances.  `PROJECT.json` lists each hazard at its line, with
the property that covers it or why none does yet.

What makes each component correct:

- ring buffer: the newest messages are there under their ids; Fetch returns
  exactly what is asked and still there, in order, and never panics;
- stream service: each call ends; each blocked call is known to the runner once;
  messages come in the order of the ring, in a copied result without a gap;
  cursors advance; a running stream has a loop that feeds
  it; every start answers its caller; sessions are killed for age only;
- registry and cache: an engine that counts as current misses no binding, has
  the flags of now and calls the host its client asked; nobody is served an
  empty one; a binding that is replaced is never half made;
- dispatch: one response per request whatever fails, no invocation with a wrong
  number of parameters or against a filter, parameters in order (the query's are
  not: section 4);
- session cookie: a change reaches the browser with the response, and never
  another browser or session (with remote bindings it may: section 4);
- client: distinct correlation ids, no header or jar of another request;
- JavaScript runtime: never more open calls than the limit, no slot free while a
  call waits, no call lost or overtaken;
- twitter source: no tweet lost or returned twice, no loop left blocked on a
  full transcoder with none to empty it, not all waiting for an empty one.

## 2. The modules

| module | what it is | code |
|---|---|---|
| `BufferOps` | index arithmetic as pure operators | `stream/buffer.go` |
| `MessageWindow` | abstract promise of a ring: the newest `Size` messages by id | `stream/buffer.go` |
| `Buffer` | the ring with its mutex; Fetch in three steps, Empty in two | `stream/buffer.go` |
| `Stream` | Stream, Fetcher, BacklogRunner and fetcher loops around one ring | `stream/stream.go` |
| `Registry` | the map of bindings, the revision, one administering goroutine | `backend.go`, `binding_types.go`, `frontend.go:918-955` |
| `Engine` | `Registry` and the engine cache with its requests | `frontend.go:579-767` |
| `Dispatch` | requests through serveHTTP, their bindings, sessions and cookies, restarts | `frontend.go`, `backend.go`, `filters.go`, `typeconv.go`, `client/client.go`, `gae/gae.go` |
| `CallQueue` | the call queue of the generated JavaScript | `templates.go` |
| `Twitter` | the twitter source with its transcoder | `stream/twitter/twitter.go` |
| `MCBuffer`, `MCStream`, `MCEngine`, `MCDispatch`, `MCCallQueue`, `MCTwitter` | instances and symmetries for TLC | |
| `BufferOpsProofs`, `BufferProofs`, `StreamProofs`, `DeliveryProofs`, `EngineProofs`, `DispatchProofs`, `CallQueueProofs`, `TwitterProofs` | theorems | |

`Stream` is built on `Buffer`'s operators, `Engine` extends `Registry`; the
others meet only through what they assume of each other: `Twitter` is a source
of a `Stream`, `Dispatch` calls what `Registry` has exposed.

**BufferOps** has one operator per idea of `Fetch`: what is rejected, the newest
id to serve, the first slot, whether the run is copied.  The mask `size - 1` is
the remainder modulo `Size`; `MCBuffer` checks that with the bitwise operator.

**Buffer**.  `Enqueue` is one step (all of it is under the mutex).  `Fetch` is
`FetchCheck` (lock, look at `cid`, line 109), `FetchNewest` (read `cid` again,
line 114) and `FetchSlice` (cut or copy, unlock), because `Empty`, which takes
no lock, can fall between them; `Empty` is `EmptyCid` and `EmptyBuf`, its two
assignments.  One goroutine enqueues and empties, as the fetcher loop does.  A
result remembers the slots it was cut from and whether it shares them with the
ring: `View` is what its holder reads at any later time.  The two copies of a
wrapped run read the field `b.buf` at one moment.

**MessageWindow** knows ids and payloads only: append gives the next id and
forgets the oldest, clear starts again.  `Buffer` implements it under the
mapping `window[k] = buf[Slot(k)].m` (`ImplementsWindow`).

**Stream** has a step for each stretch of code between two accesses to shared
state:

- a worker is an HTTP goroutine with one call: `Call` (arrival and the test of
  `running`, 244/279), `Launch` (160-162, then blocked on `ret`), `NewSession`,
  `EnterSession` (226-234) or `OldSession`, `Reread` (the two lookups, 226 and
  236), `Touch` (250-251), `Decide`, `Take`, `Await`, `Mark`, `Push` (106-114),
  `GotNothing` (254, 258 or a panic), `Got` (254-256), `Encode` and `Deliver` (the
  response, `frontend.go:1092`), `Delete` (266), `StopSource`, `StopSweep`,
  `StopLonely`, `StopAgain` (202-206, 90-97, 99, 100);
- the runner: `Notify` (128, a joint step with the loop that signals), `Scan`,
  `Send` (129-141), `Sweep`, `Lonely`, `StopStream` (142), `Timeout`
  (143-151).  Removing an element from `container/list` clears its link, so
  `e.Next()` is nil and the iteration ends: `Send` and `Timeout` serve one
  request and leave;
- a fetcher loop: `SourceUp`, `SourceDown` (165-183), `Loop` (184), `Receive`
  (185-187), `ReceiveError` (190), `EmptyCid`, `EmptyBuf` (194; both on the ring
  that was current at the first, so a `Launch` in between hides the second);
- `Tick`, the clock.

The source is external: it starts or fails, yields a message or an error, and a
closed one comes back from `Next`.  A result of `Fetch` is an array of its own,
if the run was copied, or slots of the ring's array (`buffer.go:143`), and
`Content` is what its holder reads in it at any later time: the cursor is set
from the last message of then (`Got`), and the response is encoded message by
message (`Encode`) while the fetcher loop goes on enqueuing.  A reader of a
ring of two may so be sent [2, 1], and its cursor may move past a message that
was in its result when it was fetched.  All fields of one message are read at
one moment, so a message torn between an old and a new one is outside this
model.  A message is its id; the zero Message of a slot never filled reads as
id 0, as in the code.  A panic in a handler is recovered by `serveHTTP`: the
call ends (`Leave`).

What is merged, and why nothing is lost.  The test of `running` in Next and the
one in Start that follows it (244, 279) are one: a Start that finds the stream
running by then returns, and so does the behaviour in which the first test finds
it.  Sending on a caller's channel and removing its element are one step: the
caller's next access to the list is a later PushBack.  A loop's start sets
`running` and answers in one step: the caller it answers is blocked until then.
`cleanup` deletes in one step, at any clock reading since it began, then looks
at the number of sessions, then stops the stream. Single operations on the
session map and the backlog list are taken as atomic; the code guards neither,
so a torn map or list is outside this model.  Session objects no one refers to
any more are reset, and a client that has no other call open may get its own
dead id again, which keeps the state space finite and which no part of the
system can tell from a new id.  Message times, the configuration file and
`fr.max` (which nothing reads) are left out.

**Registry**.  One goroutine administers the container, as `main` does, while
requests run; two administrators at once are outside this model (a global
injection set up over an entry that is still empty would then panic).  Exposing
is split where a request may look: `Expose` (the call; `ExposeHandler` and
`ExposeHandlerFunc` advance the revision here, before the binding is there),
`NewBinding` (the map entry, an empty Binding), `PutBinding` (the binding, with
the global injections), `Bump` (one revision for all methods of the call).
`RemoveBinding`, `RemoveInterface`, `AddInjection` and `SetupGlobalInjection`
are one step each and advance no revision.  Converters and the filter lists are
left out: only requests read them.

**Engine**.  `build` reads flags, interfaces, methods and bindings one after the
other and without a lock, so each read is a step: `Look` (the entry of the
cache, 677-691), `Params`, `ListInterfaces`, `ListMethods`, `AddMethod` (a
binding that is blank or gone makes the request panic), `SetEngine`, `Stamp`
(the revision *at the end* of the build, 763), `Serve` (the cache is read once
more, 767).  An engine is its base URL, what it lists and whether it validates
arguments.  Two history fields say what was changed while it was built (`over`)
and whether the cache was cleared during a request (`cleared`); no guard reads
them.  Flags clears the cache *before* it sets the flags (`FlagsClear`,
`FlagsSet`).  A nodejs engine's base URL contains the raw query of whoever asked
first (620): `OwnHost` is about the host alone.

**Dispatch** is one HTTP request after its arrival: `Arrive` (context, session
from the cookie), `NoContext` (the constructor panics, as the App Engine
adapter's may), `Route` (which binding, how many parameters), `Filter` (one of
the list), `InvokeCall`, `InvokeHandler`, `InvokeRemote` with `Send` and
`Receive`, `Flush` (the deferred flush of the session, which runs also when the
request failed and may itself panic), `Respond`.  `Restart` ends the process at
any point and starts it with another key.  A value has a kind and comes from
one place of the request, so a parameter that is swapped, lost or taken from
another request is seen; a session is a set of facts about browsers.  A query
is a sequence of names and values, as it was given.  The call gets the values
of one name together and the names in any order, as Go's map gives them
(`Arguments`), and none of a query that does not parse (`Query`).  A status
that a filter or handler sends itself begins the response, and a cookie set
after that is lost.  Bindings do not change here.

**CallQueue**.  JavaScript runs one thing at a time, so a step is a call of the
page's code or the answer to an open one.  `Drain` is the complete handler: the
key goes, the first call of the backlog is queued under it; if that is a
synchronous one it is over at once and takes up the next, so `Drain` takes as
many as follow.  `$.ajax` is external.  The queue's own error handler throws, so
a failed call keeps its slot for good (`stuck`) or, if it is synchronous and got
no answer, is never opened (`dropped`).  A synchronous call that finds the queue
full returns without its result.  The nodejs engine has no queue.

**Twitter**.  `Next` is a loop of `Poll` (is an image transcoded?), `Get`,
`Read` and `Push`; two fetcher loops run it beside `Start` and `Close`.  The
connection and the transcoder are external: two bounded queues and a worker
between.  A closed connection is read again and again (155), for its error is
declared in an inner scope; a loop that is blocked on a connection which `Start`
replaces is taken to read the new one.

## 3. The runs

| run | instance | shows |
|---|---|---|
| `buffer` | 4 slots, ids to 7, one reader, limits 0 and 2 | types and mutex; the newest messages are in their slots; a Fetch serves all of them it was asked for; no slice out of bounds although Empty races; aliased results only get newer; the ring implements the window |
| `buffer_from_id` | 8 slots, ids to 12 | finding: Fetch returns messages older than asked |
| `stream_steady` | 2 reading clients, ring of 2, 3 messages, 1 tick | the backlog lists exactly the blocked calls; no result is empty, messages come in the ring's order; cursors advance |
| `stream_lifecycle` | a client that reads, resets and stops, one that starts; lazy start, stop when lonely; 2 loops, 1 message; fairness | types; a running stream has a loop; launches and callers are paired; every call returns; stopped loops end |
| `stream_leak` | as `stream_steady` | finding: the message a cursor waits for is skipped |
| `stream_kill` | as `stream_steady` | finding: an active session is killed |
| `engine` | 2 requests of clients of 2 hosts, 2 methods, 2 calls of the administrator | types; a current engine is complete, has the flags and calls its client's host; none is served empty; global injections are everywhere; replacing leaves no gap |
| `dispatch` | 2 requests, 2 browsers, 14 calls to a table of 9 bindings, 3 keys of which one is bad, a client for each request; fairness | types; parameters and injections are the request's own, and of one name in order; private means logged in; the cookie is the session; every request is answered |
| `dispatch_order` | as `dispatch` | finding: url-parameters do not come in the given order |
| `dispatch_client` | as `dispatch`, one client for all | finding: a session gets into another user's remote request |
| `calls` | 6 calls, 2 slots; fairness | no call lost; limit; no idle slot; order; every call ends |
| `twitter` | 2 loops, 4 tweets, room for 1 image | no tweet lost or returned twice; not all loops block, neither in Push nor in Get |

Bounds.  `MaxCid` bounds the messages of a ring, `MaxTime` the ticks,
`Producers` the loops alive at once, `SIDs` the sessions.  Four slots and seven
ids give each kind of run: inside the ring, to its end, round it, and overrun by
one to three; the finding needs a run longer than half the ring and not full,
which does not exist below eight.  In the stream two slots and three messages
overrun a slow reader and give copied and aliased results; two clients are
enough for two waiters in either order, a timeout that meets an answer, and a
kill that meets a call; two loops are what a restart makes, and a third start
while both live is cut off by the bound.  `stream_lifecycle` has no ticks and one
message, so that no answer but the timeout's follows the first: what the runner
sends to several waiters is in `stream_steady`.  `Word` is larger than any time
difference, so that an age wraps only when the code's does.  `MaxOps` bounds the
administrator's calls: two are enough for a change over another and for a
change, or a clearing, in every gap of two builds that share an entry.  The
table of `MCDispatch` has a binding of each kind and outcome, one query with a
name twice and another between, and queries that do not parse; requests serve one
call each, and restarts are unlimited.  `MaxCalls` of six fill both slots and a
backlog of four, through which synchronous calls run.  One image of room is the
smallest that two loops can fight over.

Three properties hold only under a condition.  `CookieFollowsChange` needs a
http.Client per context (`OwnClient`), which the constructor of the App Engine
adapter gives; `NewHTTPContext` gives every context http.DefaultClient, whose one
cookie jar a remote binding sets to the session of its own request
(client.go:97), so that another request's remote answer may change a session that
was flushed already.  With a client per context sessions cannot mix, and no
property is spent on that; that they do mix with the default one is the run
`dispatch_client`.  `DeliversMessages` and `CursorAdvances` are checked on a
stream that is not stopped or restarted: with restarts the loop that ends empties
the new ring (194), HasNext and Fetch see different rings, and both fail; these
are hazards of the list that no property covers.  All configurations give a
client one call at a time.

Fairness (`FairSpec`).  A goroutine that can go on does: weak fairness of each
worker's steps, of the runner, and of each loop, as Go's scheduler gives.  The
runner's timer fires if no signal comes.  The source owes an answer to Start
and, once closed, to Next; it owes no messages, clients owe no calls, and the
clock need not tick.  With these every call returns; without the timer's
fairness, or if the timeout dropped no request, it would not.
`EveryCallReturns` supposes that launches come to an end: if restarts recur for
ever, each first message restarts the runner's timer and serves one request at
most, and a waiting call can be passed over for ever.  It excuses a launch that
the bound on the loops holds back (`KeptBack`).  `StoppedLoopsEnd` lets a new
start revive the loop.  The twitter source does not meet the assumption on Next
(hazard at `stream/twitter/twitter.go:155`).

In `Dispatch` each request's goroutine goes on (its steps are never blocked on
another's); that includes the remote side, assumed to answer or to fail, for
the code sets no timeout.  In `CallQueue` the browser answers each open call or
reports an error, and a callback returns or throws; no call is owed.  `Engine` and
`Twitter` have safety properties only: that `Next` of the twitter source returns
does not hold.  One loop of two may wait in `Get` for an image that does not come,
while the other reads tweets without one, and a closed connection is read for
ever (155); `GettersBounded` is what is left.

## 4. What the runs found

- `buffer.go:128` takes a run round the end for an overrun when it is longer
  than half the ring: Fetch returns older messages than `buffer.go:93` says.
  Nothing asked for is lost (`FetchServesAll` holds), so a reader sees messages
  twice.
- `stream.go:111` moves a waiting request past the next message, so that message
  is skipped: what the benchmark `buffer_test.go:140` logs as a leak.
- `stream.go:92` underflows and kills active and new sessions.
- `frontend.go:1020` takes the parameters of a query name by name from a map,
  against the comment in 961-963: p=1&q=2&p=3 is never called as given.
- `client.go:97` sets the jar of http.DefaultClient, which `NewHTTPContext`
  (`frontend.go:168`) gives every context: of two requests in remote bindings at
  once one is sent with the other user's session.

Known and without a run: `stream.go:187` enqueues a message that the source
returned after Stop, though the comment in 199 says that none is.

What the properties leave open, because the code does: a binding removed, or
given an injection, without a new revision stays as it was in cached engines; a
binding exposed while an engine is built may be missing from it until the next
change, because the engine is stamped as current (`EngineComplete` names exactly
these); of two responses to one browser the later overwrites the
earlier's cookie; failing calls use up the slots of the JavaScript queue
(`EveryCallEnds`).

## 5. What is proved

`tlapm` checks every step; no assumption is made beyond the named ones on the
constants (`SizeAssumption`, `BufferAssumption`, `StreamAssumption`,
`RegistryAssumption`, `EngineAssumption`, `DispatchAssumption`,
`QueueAssumption`, `TwitterAssumption`) and the hypotheses a theorem states:
`OwnClient` in one (`CookieIsTheSession`), and those on streams below.
`DispatchAssumption` has two that keep kinds of values apart: what a request can
bring (`Values`) is none of the objects that are injected, and the parameters of
a binding have the types the conversion knows.

**Ring arithmetic** (`BufferOpsProofs`).  `Slot` is a residue: equal slots are
ids a multiple of `Size` apart (`SlotIs`, `SlotDistinct`), from the uniqueness
of quotient and remainder (`RoundsUnique`).  From these: a run ends at the slot
of the newest id (`RunEndsAt`), is long enough to reach back to the first id
asked for and still there (`RunReaches`), and so holds slot after slot what it
should (`RunServes`), for every `Size`, power of two or not.

**Ring buffer** (`BufferProofs`).  `TypeCorrect` is inductive by itself.
`RingHolds`: `WindowHolds` is preserved because an Enqueue overwrites the one
slot whose id leaves the window (`SlotDistinct` keeps the others); with `TypeOK`
it is inductive.  `FetchIsComplete` needs more: between the steps of a Fetch
`cid` may be cleared, so `FetchInv` says of a running Fetch that the id asked
passed the check unless `cid` is 0 by now, and that the newest id was computed
from the `cid` of now if it is still above the id asked (the mutex keeps Enqueue
out, Empty can only clear); the action property follows from it, `RingHolds` and
`RunServes`.  `FetchNeverPanics` uses its third part: the branch without a copy
that a newest id of 0 forces is reached with an id of 0 or 1 only.
`OnlyAdvances`: a result that is a slice of the ring itself holds in each slot
what was seen or an id from the newest of its fetch on, and `cid` has not fallen
below that unless Empty is clearing, in which time nothing is enqueued
(`SharedInv`).  `Refines` maps Enqueue to an append, `EmptyCid` to a clear,
everything else to no step: an append leaves the slots of the ids still held
alone (`SlotDistinct`).

**Stream service** (`StreamProofs`).  `RunningIsServed`: while `running` is set
a fetcher loop moves messages.  The invariant is inductive together with the
domain of `prod`: only `SourceUp` sets `running`, and its own loop moves from
then on; a loop leaves `loop`/`next`/`notify` only by finding `running` cleared,
at which moment the property asks nothing; a launch takes a loop that is free.
`StreamTypes`, `BacklogIsExact` and `LaunchesArePaired` need each other, so the
inductive invariant `IInv` is their conjunction: the runner's answer leaves its
caller with a session (types) only if the entry it serves is a call that waits
(backlog), and a loop's answer takes its caller out of `starting` and of nothing
else only if they are paired (launches).  Each kind of step has a lemma: a
worker that neither blocks nor is blocked touches none of the two relations
(`WorkerStep`), `PushStep` adds the last entry, `ServeStep` takes the i-th out
and shifts the rest (`RemoveAtProperties`), `LaunchStep` adds a pair and
`StartAnswered` removes one.

**What a stream delivers** (`DeliveryProofs`).  A start replaces the ring and an
ended loop empties it (194), and with messages in it `DeliversMessages` and
`CursorAdvances` then fail.  The hypothesis `RingIsKept` says no more than that:
no step lowers the ring's next id or clears a slot that was filled.  Under it
`DeliversRuns` holds in every configuration, starts, stops and cleanups
included.  The inductive invariant is `Delivery`: the newest `Size` messages are
in their slots (`Window`), cursors are not beyond the next message, a call about
to fetch asks for a message that is there (`Fetches`: nothing between HasNext and
Fetch may take it away), and a result is good (`GoodResult`): in an array of its
own a run of enqueued messages, as slots of the ring neighbouring ones that are
filled.  What was encoded of such slots is no newer than what they hold by now
and less than a turn of the ring ahead of what the next one holds (`SentOf`): an
overwritten slot only gets newer, and all that the ring holds lies within a turn.
It uses `RunStartsInWindow` (a run goes back no further than the window) and
`RunEndsAt`.  `CursorsAdvance` needs more: no two clients have a session in
common, in a call or in a cookie (`Owned`, which holds in every configuration),
and a result that is still held ends no earlier than its session's cursor
(`Behind`, which needs one call per client, `OneCallPerClient`: with two, the
later answer may set the cursor back).  `Steady` shows that a stream which starts
at once, whose clients only read and reset and which does not stop when lonely
(`NotRestarted`, as in `stream_steady`) keeps its ring; `SteadyDelivers` and
`SteadyAdvances` are the two results for it without a hypothesis on behaviours.

**Registry and engine** (`EngineProofs`).  `Typed` is `TypeOK` with what the
administrator is at (`AdminOK`) and that a request past `Look` has its entry in
the cache; it is inductive.  Each step of a request has a lemma that gives the
new request field by field (`LookStep` to `StampStep`), each change of the cache
one that gives the entries (`LookCache`, `SetEngineCache`, `StampCache`), and
`EntrySteps` says what the administrator may do to an entry of the registry:
from it `GlobalsReachAll` and `ReplacesSeamlessly`.  `EngineOfOwnHost`: an
engine calls the host of each request that its key stands for (`HostsInv`; it
rests on `KeyHost`: two requests with one key have one host, unless the base URL
has none).  `EngineForAll`: from the end of its build to its answer a request
has an engine in its entry unless the cache was cleared (`FilledInv`).
`EngineHonoursFlags` speaks of engines being built as well (`FlagsInv`): the
clearing comes first, so an engine that is set afterwards knows that the flags
changed.  `EngineIsComplete` needs the most, `CompleteInv`: at each point of its
walk a request has, or still will read, every binding of the registry but those
changed since (`Walks`); an entry that is current covers the registry
(`Covers`), and what is being exposed is known to all that build
(`Later`, `PendingStep`).

**Dispatch** (`DispatchProofs`).  `Typed` adds to the types that a request has
no cookie before the flush and is not called before it is invoked.  Each step
has a lemma that gives the new request; the four theorems go through them.
`LoginFirst` holds with a shared client too: what a remote side adds to a
session, whoever's it is, is no login; `GrantedInv` follows a login from the
function that grants it over the cookie and its key to the next session and the
filter that asks for it, and counts the filters that are passed.
`CookieIsTheSession`: the cookie made by the flush is the session
(`ResponseInv`), and stays it, because with a client per request a remote answer
reaches no session but its request's own (`OwnJarInv`).  `CalledAsAsked`: the
inductive invariant `AskedInv` is short (from routing on a request has
parameters that fit its binding, and a function that was called got ones that
convert); what carries the theorem is what its operators compute, for sequences
of any length.  `WithoutAt`: leaving out what is injected keeps the rest in
order (`Nth` counts it; a number that no position reaches would have a least
position that counts beyond it). `FlattenHas`: the values of each name
(`QueryNamed`) are whole in the joined sequence, in whatever order the names
come (`OrdersAll`).  `HandsOver` puts them together: the values that
callValuesI hands over, without the injected ones, are the arguments of the
request.  The prover cannot use the induction theorems of its library; where a
proof goes by induction it takes the least counterexample (`LeastNumber`), which
follows from the well-foundedness of < on the naturals.

**Call queue** (`CallQueueProofs`).  `Consistent`: each call is in one place, the
backlog is sorted, keys are distinct, stated of the parts so that `Drain` can be
shown to keep it for any number of synchronous calls it runs through
(`DrainConsistent`).  The limit, the use of slots and the order need each other
and are proved together (`Serves`): a call is opened only when none waits, and
`Drain` leaves a slot free only if the backlog is empty (`DrainKeys`,
`DrainOrder`).

**Twitter** (`TwitterProofs`).  `TypeOK` counts tweets; the invariant says instead
that the places are apart (`Apart`) and cover all tweets read, which gives the
count (`CardApart`).  `PushersBounded`: the loop that reads is not yet a pusher
and finds room, so those that push and the queue are at most the room plus the
other loops.  `GettersBounded`: a loop enters `Get` only when there is
a result, so even if all the others are there one can take it; and a result that
is taken takes its loop along.

Only model-checked: liveness (out of the prover's reach) and the findings.

## 6. Plan

1. A stream with restarts for what is left of `DeliversMessages` there, and with
   two calls of one client.
2. `BacklogList`: the list at the level of its links, with two waiters or more,
   and liveness for several waiters.
3. `Twitter` shown to implement the source that `Stream` assumes, for one loop
   and a connection that is not closed.
4. A run for the message that is enqueued after Stop (`stream.go:199`).

Not modelled, and staying so.  File and network I/O, minifying, library loading,
the file server and the command line tool have no state to check; ciphers and
encodings are pairs of key and content.  `ReaderArray` and `ConvertTime`
(helper.go) are sequential functions without shared state, which tests reach.
The call counter and the header map of a stand-alone Go client are changed by
concurrent calls without a lock (client.go:76): what a data race on a Go map
does is the end of the process, and a property would restate it.  The chain of
module controllers in gae.go is straight-line code.  Data races inside single
operations on maps and lists are outside all modules.

## 7. Running it

`tlc -config MCBuffer.cfg MCBuffer` and so on, one run per `.cfg` (the longest
takes about three minutes on two workers); `tlapm BufferProofs.tla` and the
other proof modules.  Operators whose comment begins with "Mutant of" are
faulty versions of the operator they name: with one in its place TLC must refute
the property `PROJECT.json` pairs it with.
