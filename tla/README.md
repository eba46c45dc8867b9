# metadns in TLA+

metadns has two halves. A PowerDNS backend (C++, `src/src/`) answers DNS queries
for the servers of a *pool house*, either from a consistent hash ring or at
random. A distributed monitor (`src/watcher/`, node.js with two C++ checkers)
watches those servers, agrees with its peers on which of them are down, and
takes them out of their pools and puts them back through a small web service
(`src/public_html/`, PHP). Both halves meet in one column of the database:
`pool.in_pool`.

This directory holds a TLA+ model of both halves, the TLC runs that
check it on small instances, and TLAPS proofs of its most important properties
for every value of the constants. `PROJECT.json` maps every definition to the
lines of the source it stands for.

Paths below are relative to the repository, `scribe.js` being
`watcher/lib/scribe.js` and so on.

## 1. Inventory

| Part | State | Operations | What makes it correct |
|---|---|---|---|
| Hash ring (`hashring.cc`, `hashcache.cc`) | `m_hashring`: position -> server, `m_numresults` | `add_node`, `get_node`, the loop of `send_from_hash_cache` | answers are servers of the pool, all different, and stay put when another server leaves; `get_node` ends |
| Cache template (`cache.hh`; five instances) | map of owned pointers, `m_current_item`, time of the last touch | `have_valid_cache`, `get_object`, `freshen_cache`, `release_cache`, `purge_cache`, destructor | no deleted or wrong object is served, none older than its timeout; no leak, no double delete |
| Backend (`wpmetabackend.cc`) | `m_qname`, `m_origin`, `m_results`, purge counter | `lookup`, `list`, `getSOA`, `get`, `prepare_records` | an answer is that of the database, at most a timeout late |
| Pool and pool cache (`pool.cc`, `poolcache.cc`) | records, ttl, number of results | add, read; sorted at random by the backend | a random subset of `num_results` records |
| Database (`database.cc`) | connection, result under way | `connect`, `query`, `get_row` | rows are complete or there is an error |
| CRC32 (`crc32.cc`) | `m_crc`, shared by all threads | `generate_crc` | a function of its argument |
| Watcher: scribe (`scribe.js`) | `arrServers`: copy of `in_pool`, last contact, two counters of confirmations | timers `check_servers`, `update_pool_list`; callbacks of checks, peers and service | a server leaves or returns on the views of two, and it does leave or return in the end |
| Watcher: speaker, listener | none | questions, answers, calls | a message is delivered at most once |
| Watcher: checkers (`ping.cpp`, `http_checker.cpp`, `main.cpp`) | one check each | ping five times, HTTP HEAD | rtt > 0 exactly when the server answers |
| Pool service (`class-metadns.php`, `class-pool.php`) | `pool.in_pool` | `get-list`, `set-in_pool`, `set-out_pool`, `set-pool_weight` | the row follows the requests; 'success' is told once per change |
| Rest: configuration, statistics, mail, IRC, schemas | | | not modelled |

How they interact. PowerDNS calls `lookup` and then `get` until it returns
false, on a backend object of each thread. The backend reads the database and
keeps what it read in its caches; a change of `in_pool` reaches an answer when
the ring or pool of its house times out (`CACHE_HASH_TIMEOUT`). A watcher runs
one JavaScript thread: two timers, the results of the checks (which run on
libuv's threads), its own HTTPS server for the questions of its peers, and the
answers to what it asked. Watchers talk to each other and to the pool service by
HTTPS requests. Each request to the service is a PHP script of its own, and
scripts share only the database.

What is hard here: the walk round the ring, whose end depends on what
monitoring left in the pool; a pointer that the cache remembers across calls and
deletions; answers of peers that are counted whenever they arrive; three copies
of `in_pool` (database, each watcher, each request under way) that disagree; and
restarts, after which a watcher knows nothing. `PROJECT.json` lists the hazards
one by one, with the properties that cover each or the reason why none does.

## 2. Modules

| Module | Models | Extends |
|---|---|---|
| `HashRing` | building a ring and answering a name from it | |
| `HashRingRemap` | which servers a name gets, as functions, and what changes when a server leaves the pool | `HashRing` |
| `HashRingProofs` | theorems of `HashRing` | `HashRing`, TLAPS |
| `HashRingRemapProofs` | theorems of `HashRingRemap` | `HashRingRemap`, `HashRingProofs` |
| `Cache` | the cache template and the way it is called | instance of `TimedMap` |
| `TimedMap` | abstract: a map whose entries age | |
| `CacheProofs` | theorems of `Cache`, the refinement included | `Cache`, TLAPS |
| `Lookup` | how the backend finds the rows for a name, over the lookup and record caches and the database connection | |
| `LookupProofs` | theorems of `Lookup` | `Lookup`, TLAPS |
| `Answers` | the zone of a name, its caches, what a call leaves for the next, and the answers of pools | |
| `AnswersProofs` | theorems of `Answers` | `Answers`, TLAPS |
| `PoolService` | the web service against one row of `pool` | |
| `Scribe` | the watchers against one server, composed with `PoolService` | `PoolService` |
| `ScribeProofs` | theorems of `Scribe` | `Scribe`, TLAPS |
| `PoolList` | the array of servers and the lists that update it | |
| `PoolListProofs` | theorems of `PoolList` | `PoolList`, TLAPS |
| `Sockets` | the checks of a watcher and their descriptors | |
| `Pinger`, `HttpChecker` | the two kinds of check | `Sockets` |
| `Checks` | both kinds on libuv's queue and threads | `Pinger`, `HttpChecker` |
| `ChecksProofs` | theorems of `Checks` | `Checks`, TLAPS |
| `MC...` | instances for TLC | |

Definitions marked *Variant* in a comment are what the code would be with a
plausible bug. No specification uses them; each shows, put in place of the
definition that follows it, that a property can tell the difference.

### HashRing

One thread of the backend: `Refresh` is the query of `prepare_records` and a new
`Hash_Ring`, `Build` an iteration of its do-while loop (`add_node`), `Query` the
call of `send_from_hash_cache`, `GetNode` the entry of `get_node` and `Walk` an
iteration of its loop. The CRC is a constant function of the copies of servers
and a free choice for the name, so every collision is there. `BUCKET_SIZE` and
`NUM_BUCKETS` are parameters; the proofs hold for 17 buckets of 252645135
positions as for the two of five that TLC looks at. A position overwritten by a
later row, an empty ring, `num_results = 0` and the wrap of `int_hash` are all
modelled. `ttl` and the other columns of an answer are left out.

`HashRingRemap` states the promise of README.md:7. There the ring is a function of
the rows of a table, and the answers of a name are a function of the ring, the CRC
of the name and the number of answers (`Stops` follows one call of `get_node`,
`AnswerLists` the loop round it; both are recursive functions, so that the proofs
can use them). The properties compare the rings of two tables, or two names on one
ring, which no single execution does; `AnswersAgree` says that the steps of `HashRing`
collect just what the functions give.

### Cache

One cache, with its addresses made explicit: `live` is the set of addresses
allocated and not deleted, `m_items` the map, `m_current_item` the remembered
pointer, `loaded_for` and `age` what is at an address. A deleted address may be
returned by the next `new`. The guards (`pc`) are the order in which
`WPMetaBackend` calls the members: every use starts with `have_valid_cache`,
except that `lookup` stores without asking first (wpmetabackend.cc:575, 581) and
purges between uses. The one model covers the five instances; each of them calls
a subset of these operations. `purge_cache` and `have_valid_cache` are as
precise as the code about the second of the timeout (`>` and `<`).

`TimedMap` is what a caller is entitled to think: no pointers, entries of
certain ages. The refinement maps an entry to the age of its object and what was
given to what is at the address read.

### Lookup

One backend object and table `record`. `Ask` is the entry of `lookup` and
`serve_from_cache`, `Reload` its second branch, `Resolve` an iteration of the
loop over the name and its wildcards with what follows the loop when it ends,
`PrepareRow` and `PrepareFails` an iteration of `prepare_records`, `Done` the
calls of `get`. Between any two the table may change (`Change`) and the database
may come and go (`Network`). `Unanswered` is a query that ends in an exception,
and `Fetch` one that ends with all of its rows or, when the connection is lost
under them, with some (database.cc:98). `m_LC` and `m_RC` are maps of entries with
an age, which is what module `Cache` shows them to be; a tick takes out what
reaches its timeout. `Candidates` stands for the names the loop computes.

A name is asked of one domain, which is found: the zones are in `Answers`. Left
out are names with quotes or bars, of which the caches keep nothing useful, and
what is in a ring or a pool. The history variables `unchanged`, `whole` and
`closed_for` say how long ago the table changed, a result was cut short, and a
connection was lost; no action reads them.

### Answers

One backend object and table `domain`, where zones are added, removed, switched
off and made anew between any two queries (`Change`). PowerDNS is the caller, and
external: `Ask` begins with `getSOA` for each suffix of a name, `AskAnywhere` is a
lookup with a zone id of -1, `AskTransfer` a transfer. The correspondence:

| Action | Code |
|---|---|
| `GetSOA` | `getSOA` for one suffix, served from the SOA cache or by its query |
| `LookupCached` | `lookup` when `serve_from_cache` has the name |
| `LookupAnywhere` | one query of the loop of `lookup` over the suffixes |
| `LookupById`, `LookupThrows` | the query of `lookup` for an id, that finds it or not |
| `List` | `list` up to `prepare_records` |
| `PrepareRow`, `Prepared`, `PrepareFails` | an iteration of `prepare_records`, its end, an exception in it |
| `Get`, `Done` | `get` |
| `QueryFails` | a query of `getSOA`, `lookup` or `list` that throws: that for the zone, that for its rows when `m_origin` is set already, or that for rows the lookup cache leads to |

`m_results`, `m_qname` and `m_origin` are members of the object, and the actions
assign them where the code does, so that a call starts with what the last one
left. A call takes no time: `Tick` is between calls, and the ages of the caches
count ticks. The rows of a name are the constant `Record` whatever the zone, since
`Lookup` is about which rows there are. A row's house is a pool, drawn in any
order and cut to `num_results` as its `uint8_t` has it; a ring would answer as
`HashRing` says, with `num_results` servers or none. The questions for DS records
that go to the zone around a zone are left out: they take the path of `AskAnywhere`
with one suffix less.

### PoolService

The database row (`in_pool`) and a bag of requests under way (`calls`), each at
a stage: sent, past `is_in_pool()`, past the UPDATE with the answer on its way.
`Check`, `Update` and `List` are the steps of a script; scripts of different
requests interleave between them. `Lose` loses a request or an answer, or ends a
script, and `IsInPoolFails` is an `is_in_pool()` whose query fails: it answers that
the row is out (class-pool.php:62-68), so that a restoration goes on and a removal
ends. 'notreq' and 'failed' change nothing at the caller and just disappear.

### Scribe

Every watcher's record of one server, and the questions and answers between
watchers, as bags: nothing is delivered in order. Each handler of `scribe.js` is
one action, since JavaScript runs it to its end. The correspondence:

| Action | Code |
|---|---|
| `StartChecks`, `CheckResponses` | `check_servers`, with `run_checks` true and false |
| `CheckSucceeds`, `CheckFails` | `process_results_callback` with rtt > 0 and = 0 |
| `GoStale` | more than `MAX_NO_RESPONSE_MS` pass since `last_contact` |
| `Answer` | the listener's `/get/confirm-host-status` |
| `CheckHostDownCallback`, `CheckHostUpCallback` | the callbacks of the same names |
| `ConfirmPoolCallback` | `confirm_pool_out_callback`, `confirm_pool_in_callback` |
| `UpdatePoolList`, `UpdatePoolListCallback` | the same |
| `Restart` | the process ends and starts again |
| `LosePeerMessage`, `LoseCall` | errors and losses of `speaker.js` |
| `HostChanges`, `Settle` | the environment |

What to know about the abstraction:

- `last_contact` is null, fresh or stale. There is no clock. Two periods of
  `check_servers` are exactly `MAX_NO_RESPONSE_MS`, so a check that is late by
  any amount makes a working server stale; with `Flaky` the model allows that.
- The timeout handlers of `speaker.js` call back with 'TIMEOUT' and leave the
  request alive (72-75, 148-150), so an answer counts however late it is.
- Only answers that their receiver acts on are in the bag.
- `checking` says that checks have begun: check periods do not wait for earlier
  checks, so from then on results may come at any time.
- Counters are capped at `PEER_CONFIRM_LIMIT`; the code only compares with `>=`.
- `PEER_CONFIRM_LIMIT` is 3 and the sample configuration has two peers, so what
  is counted is answers and not peers. The run `watch` has a limit of two and
  one peer.
- `UpdatePoolList` fires every `POOL_FETCH_INTERVAL_MS` whether or not earlier lists
  have come: a watcher may have several under way (`MaxLists` bounds them), and the
  older may come last.
- One `master_db`, as in the sample configuration. `last_rtt` is never read.
- A list that no longer names the server is in `PoolList`.

History variables (`lost`, `seen`, `started_in`) record which watchers ever went
stale or had contact, and how it began; no action reads them.

### PoolList

`arrServers` as a sequence of servers with their addresses. `Fetch` is
`update_pool_list`, `UpdatePoolListCallback` the whole of the function of that
name for any list under way: it sets every server to inactive, updates or appends
what the list names (`Updated`, `Added`: the rows come in no order), and takes out
what is still inactive. That last loop is a `splice` inside a for-in: after a
removal it goes on one position further, past the server that moved up, so that of
a run of inactive servers the first, the third and so on are `Removed` (`Odd`).
`Change` is an administrator.

### Sockets, Pinger, HttpChecker, Checks

A check is a baton with its checker object; `pc` says where it is. `StartCheck` is
`check_servers` queueing a check, `Begin` a thread of libuv taking it, `Finish` the
callback and the deletion on the JavaScript thread, `Die` the division by zero in
`get_avg_usec`, which ends the process. Each step of a thread is an action, so
that four threads interleave between any two system calls.

- `Pinger`: `SendPing`, `SendFails`, `ReadPacket`, `ReadFails`, `Timeout` and
  `PingEnd` are the branches of the loop of `ping()`. A packet is named after its
  sender, and goes to every raw socket (`Arrive`): the identifier that
  `read_packet` compares is the same for all checks of a process.
- `HttpChecker`: `init_socket`, `gethostbyname`, `connect`, an iteration of
  `send_bytes`, an iteration of `get_response` (`SocketReady` is what ends its
  `select`: part of a response, its end or an error). The lengths that a failed `send` or
  `recv` gives to a `size_t` are modelled: `p_packet` steps back by one, and a
  failed receive is a response. `hostent` is the one answer of `gethostbyname` that
  all threads share.
- Descriptors are numbers that may be given again as soon as they are closed.

Left out: round trip times beyond 0 or more, checksums, the text of a response,
and the checks that `main.cpp` makes of its arguments.

## 3. Runs

| Run | Instance | Shows |
|---|---|---|
| `ring` | up to 3 servers with up to 2 copies, falling together in every way, 2 buckets of 5; 0, 2 and 3 answers | `TypeOK`, `AnswersDistinct`, `BucketsAlike`, `WalkEnds`, `AnsweredIfEnough` |
| `ring_hang` | 2 servers, 3 answers | **violated** (`EveryQueryAnswered`): `get_node` loops for ever |
| `remap` | every order of 5 servers apart from each other; 4 servers whose copies overwrite each other, in two orders of the rows | `AnswersAgree`, `RemovalKeepsFirstTwo`, `SecondTakesOver`, `BucketsAnswerAlike` |
| `cache` | 2 keys, 3 addresses, timeout 2 | `TypeOK`, `ServedIsRight`, `ServedIsYoung`, `MapOwnsObjects`, `ImplementsTimedMap` |
| `lookup` | two names with a row of one and a row of their wildcard; lookups live 3 ticks, rows and houses 2 | `TypeOK`, `SettledIsServed`, `RowsAreRecent`, `FailsBriefly` |
| `answers` | a name, its zone with two ids (it may be made anew), the zone around it; two rows, one of a pool that is drawn, cut to 2 and has a server twice, one of a pool in order whose `num_results` is -1; timeouts 2 | `TypeOK`, `SettledZone`, `AnswersAreOfTheZone`, `EachRowHasItsShare`, `NamesAreRight` |
| `watch` | two watchers, one of which asks the other, may restart and may have two lists under way; limit 2, two requests at once, any check late | `TypeOK`, `RemovalNeedsTwoViews`, `RestoreNeedsTwoViews`: in_pool changes only on two views |
| `watch_live` | one watcher asks another, list refetched, losses until the world settles | `DownIsRemoved`, `UpIsRestored` |
| `watch_unseen` | as `watch_live` | **violated** (`EveryDownIsRemoved`): a server never seen working is not removed |
| `pool_list` | 4 servers, 4 tables (all, two neighbours, one that moved, none), 2 lists under way | `TypeOK`, `NoServerTwice`, `ListIsTaken`, `HalfLeave`, `ArrayFollowsTable` |
| `checks` | a server to ping and one to ask by HTTP, 2 checks, 2 threads, 2 descriptors, 2 packets, 2 bytes in 2 attempts | `TypeOK`, `UpNeedsAnAnswer`, `SocketsAreOwn`, `RequestIsWhole`, `DiesOnlyWithoutSocket`, `PromptReplyIsHeard`, `ChecksEnd` |
| `checks_own` | two servers to ping, one of which never answers | **violated** (`UpIsItsOwn`): the reply of one is counted for the other |

Bounds. For the ring, three servers suffice for every pair of collisions and an
answer after two ignored ones; the third answer needs five servers to move
(fewer show nothing). For the cache, one address more than keys allows an
address to be reused while every key is filled, and ages above the timeout are
alike.

For the lookups, two names with one wildcard make an entry of the record cache
that two lookups share, and a lookup timeout above that of the rows lets a
lookup outlive its rows; ages and histories above the timeouts are alike.

For the watchers, two are the least for a view of two, and one that asks the other
is enough for every link of the chain from a question to a change. `MaxAsk`, `MaxCalls`
and `MaxLists` bound what is under way at once. In `watch` that is one question or
answer, so that an answer is late when the server has changed or its receiver has
restarted, lost or made contact; two requests for a change, so that two scripts
interleave at every stage: two of one kind, a removal and a restoration that cross,
one that a restarted watcher left behind and one it makes anew; and two lists of the
watcher that asks, so that the older may come last. The other watcher makes no
requests: two that ask each other have too many states for this run, and to the
service a second caller is what the one left behind is. The theorems `RemovalSafe`
and `RestoreSafe` hold for any peers and any number of each. In `watch_live` and
`watch_unseen` there is one request and one list at a time. `Refetch` and `Restarts`
name who may refetch or restart. When a bound is reached the message counts as lost,
which is a behaviour the network has anyway.

For the answers, two zones around one name give every order of finding one, the
other and none, and two ids of one zone a zone that is made anew under the
cached id of the old one; a pool with a server on two rows tells rows from servers,
and -1 is the limit 255, above any number of rows; ages and `unchanged` above the timeouts are alike. For
the array, the run needs neighbours that leave together, so that `splice` passes
one over, three that leave, so that half is not all but one, and a server that
moves; two lists are the least that may overtake each other. For the checks, two
threads and two descriptors are the least for one check to be given the
descriptor another closed and to hear the replies to another; two packets and
two bytes let a wait follow a wait and a send follow one cut short. `MaxInbox`
and `MaxEcho` drop what is beyond them, as a full socket and a network do.
`Tick` stops counting at timeout + 1.

Deadlock is checked in all of them.

Fairness. In the ring, the thread keeps running inside a call (`WF` of `Build`,
`GetNode`, `Walk`); whether another query comes is not assumed. In the watchers,
timers fire (`check_servers` and `update_pool_list` set their next timer in a
`finally`), checks end with a result, time passes, and what is sent arrives
unless it is lost. Losses are free until `Settle`, a point after which the
server keeps its state and nothing more is lost; without such a point nothing
needs to happen. No fairness is assumed of losses, restarts or the server. The liveness
runs start with the server in its pool (`MCFairSpec`) and have one watcher that
asks, no restarts and no flaky checks.

In the checks, a thread goes on with what does not depend on the network, a
queued check is begun when a thread is free, and the JavaScript thread takes
every result. A wait in `get_response` ends by its limit or by what has come
(`SocketReady`), and as each `recv` renews the limit (http_checker.cpp:79-101), a
server that sends for ever holds a thread for ever: no fairness rules this out, and
`ChecksEnd` names it as its exception (`SentForEver`).
The network owes nothing. In the array, the list is fetched again and again (the
timer is set in a `finally`), every list is taken or lost in the end, and, of
the lists that say what the table says, not all are lost: this last is the one
strong fairness, and without it the array need not follow the table.

## 4. Findings

- `get_node` loops for ever when the ring holds fewer servers than `num_results`
  (hashring.cc:49; `ring_hang`). That this is exactly when it does is proved for
  every ring: with enough servers each walk comes to its end (`EveryWalkEnds`), and
  on a ring with fewer, unless it is empty, no name is ever answered
  (`ShortRingNeverAnswers`).
- A watcher that never had contact with a server neither asks for its removal
  nor confirms it (scribe.js:52, 289-299; `watch_unseen`). In general, a server is
  removed only if a watcher and a peer it asks both saw it work at some time
  (`UnseenIsNotRemoved`): one that failed before the watchers first started stays
  in its pool.
- Two pings at once hear each other's replies, so a server that never answers
  is in contact as long as a neighbour answers (ping.cpp:8, 146; `checks_own`).
  `UpNeedsAnAnswer` says what does hold: some server answered, or a receive failed.

Smaller ones, met while modelling and kept as exceptions in a property or as
hazards:

- With three answers, the third answer of a name may change though the server
  that left was not an answer, which is less than README.md:7 promises:
  `RemovalKeeps(3)` fails on the instance of `remap`, `RemovalKeepsFirstTwo` does not.
- A late HOST_OFFLINE makes a watcher ask for the removal of a server it is in
  contact with again (scribe.js:196, speaker.js:72-75).
- After an exception in `prepare_records`, a lookup that finds no zone hands out
  the answers of the one before (the second case of `AnswersAreOfTheZone`).
- A transfer names its records after the last name that was looked up
  (wpmetabackend.cc:603; the third case of `NamesAreRight`), and a host at least
  as long as the name of its zone is taken for a whole name.
- A zone whose `domainsoa` is switched off while the zone is active is found by
  `lookup` and not by `getSOA` (the exception of `SettledZone`).
- `splice` inside for-in leaves up to half of the servers that left a list in the
  array until the next list (`HalfLeave`).
- A check without a socket ends the watcher by a division by zero
  (`DiesOnlyWithoutSocket`).
- A server that goes on sending holds a thread of the pool for as long as it likes
  (http_checker.cpp:79-101, the exception of `ChecksEnd`).

## 5. Proofs

All theorems hold for every value of the constants that satisfies the named
assumptions of the modules (`HashAssumption`, `TableAssumption`, `BucketAssumption`,
`CacheAssumption`, `LookupAssumption`, `AnswersAssumption`, `ServiceAssumption`,
`ScribeAssumption`, `SocketsAssumption`, `PingerAssumption`, `HttpAssumption`,
`ChecksAssumption`, `PoolListAssumption`), which TLC evaluates in the runs.

- `HashRingProofs`. The inductive invariant adds to `TypeOK` what connects the
  rows still to add with the ring (positions come from rows already added), that
  every bucket is alike after each `AddNode`, and what the answers found so far
  exclude: while the walk is at depth d every earlier answer from the d-th on is
  ignored, and `depth` never exceeds the number of answers plus one. From the
  last, an answer found when depth reaches 0 differs from all earlier ones, and
  with `num_results` servers on the ring one of them is always not ignored (by
  counting). Hence the walk ends (`EveryWalkEnds`), by a measure: an iteration lowers
  `depth`, or leaves it and lowers `ToGo`, the distance from `int_hash` to the nearest
  position that is not ignored. The successor is the nearest position at all, so what
  is skipped lies before that one, also where the way goes over the end of the ring
  or starts behind the last position. Conversely, a name that is answered has
  `num_results` answers, all different and on the ring, which is an injection into
  its servers (`ShortRingNeverAnswers`).
- `HashRingRemapProofs`. What a recursive function computes is proved for each of its
  values by the least number at which it would fail (`LeastNumber`, from the
  well-foundedness of the naturals). `BuildInv` says that the ring is that of the rows
  added so far, `CollectInv` that the answers so far are those of `AnswerLists`, and that
  a walk under way will come to the stop that `Stops` names from the position it has
  reached: a position that is ignored may be skipped (`SkipIgnored`). This gives
  `AnswersAgree`. With it the other three are facts about rings. When a server leaves,
  the positions of the others stay theirs, none is added, and its own vanish or fall
  to servers they had covered (`LeftRing`). For the first two answers every stop of the
  walk is at an answer, and what lies before the stop at an answer given before; so
  if neither is the server that leaves, both stay. The walk for a third
  counts down once at a server it need not return, which may be the one that leaves.
  Without collisions the ring left is the ring without that server, and the walk for the
  second answer ends where the walk for the first does on the ring left. For
  `BucketsAnswer`, a name and its place in the first bucket walk side by side: what is
  ignored is alike in all buckets, so each stop of one is the stop of the other, some
  buckets on, the way from the last bucket to the first included.
- `CacheProofs`. The invariant says that `live` is exactly what the map holds,
  each address under the key it was loaded for, and, per `pc`, what
  `m_current_item` is: anything at all while the caller is idle (it may dangle
  after a purge) and the object asked for, or null, once `have_valid_cache` has
  run. Hence the dangling pointer is never read. `Refinement` shows that each
  step of `Cache` is a step of `TimedMap` or a stutter.
- `LookupProofs`. An entry of age a says of the table what holds if neither the
  table changed nor a result was cut short in the last a ticks; the invariant
  states this for both caches, and for a lookup under way that the candidates
  before those to try had no rows, unless the table changed since. The last is
  what makes the answer of a lookup right that found nothing, or a wildcard, by
  several queries at different times. For failures: while the connection is
  closed every entry of the record cache is at least as old as the loss, so
  within a timeout no lookup gets past `query_db`, which connects.
- `ScribeProofs`. A removal is a chain: a question is asked only by a watcher
  that lost contact, it is confirmed only by a peer that did, a counter above 0
  means a confirmation, a request under way means a counter at the limit, and
  `in_pool` changes only by a request. The invariant says of each link that it
  carries the two views from the moment it exists. It needs nothing about
  delays, losses, restarts (a request survives its watcher as one of `Nobody`)
  or the value of the limit, beyond being at least 1. Restoration is symmetrical.
  Contact is lost only where it was had, so the two who lost it are two who had it
  (`UnseenIsNotRemoved`).
- `AnswersProofs`. No tick passes within a call, and `unchanged` starts anew with
  each change, so what was read since the last change is still true. The invariant
  says so of every place that remembers a read: the suffixes a search has passed
  over, the SOA cache, the id that PowerDNS passes on, and the lookup cache, whose
  entry may rest on an entry of the SOA cache and is therefore right only from
  `SOA_TIMEOUT` after its own age. Both timeouts after the last change everything
  is right. `m_results` is of the call or left by an exception; `m_qname` and
  `m_origin` are of the call once its rows are prepared. A second invariant,
  `ShareInv`, follows the rows through `prepare_records`: those prepared have their
  whole share or nothing in `m_results`, contiguous and no row of the pool twice, and those
  left have nothing. The share is given by an injection of the answers into the rows
  of the pool, since the table may name a server on two rows. It needs that each order
  drawn is a permutation, and nothing about `num_results` beyond its being an integer.
- `ChecksProofs`. The place of a check says what it may hold: no descriptor before
  a thread begins it, then one that no other check holds; it is in the queue
  once, and takes the steps of its own kind only. A ping's packets sent and to be
  sent add up to `PING_NUM_CHECKS`, whence a check that divides by zero got no socket;
  what counts as an answer was noted in `heard`; and the bytes before `p_packet` are
  out, also when it has stepped back below 0, which the induction needs since a
  later send starts there. `PromptReply` is an action property: a reply at a position
  within the waits left moves up by one when a wait reads another packet.
  `ChecksAreShort` is the measure behind `ChecksEnd`: `StepsLeft` counts the packets,
  waits and attempts a check still has and what has come for its socket; each step of
  its thread lowers it, and nothing raises it but what comes next for its own socket
  (`SocketReady`).
- `PoolListProofs`. `TypeOK`, `NoServerTwice` and `ListIsTaken` are inductive together:
  `Updated` keeps the ids, `Added` appends ids that are not there, each once, and what
  `Removed` names is inactive, so no server of the list. That `Without` loses and
  repeats nothing is a counting argument: the rank of a position among those that stay
  is an injection into 1 .. n from n positions, and so it is onto. `HalfLeave` is an
  action property: `Removed` takes every other position of a run of inactive servers,
  beginning with the first, so that the position before one passed over is removed
  (both count from the least position of the run). That is
  an injection from those passed over into those removed, hence at most half stay.

Stated by a theorem, then, is every invariant and action property of the passing
runs, the refinement of `TimedMap` included. Only model-checked is liveness:
`AnsweredIfEnough`, `DownIsRemoved`, `UpIsRestored`, `ChecksEnd` and
`ArrayFollowsTable` need fairness and ENABLED, which are outside the prover's reach.
Of the first, `EveryWalkEnds` proves the measure that fairness of the thread drives to its end, and
`ChecksAreShort` does so of `ChecksEnd`. The
three properties that the code violates have counterexamples and no theorem, but
`ShortRingNeverAnswers` and `UnseenIsNotRemoved` prove of two of them that the
instances are not special.

## 6. Not modelled, and why

- The race on the CRC object that all threads of the backend share
  (hashring.cc:28): no promise of the ring survives it, so there is nothing to
  check; `HashRing` is one thread, with any function for a CRC. The table of
  `crc32.cc` is data.
- The result that an exception would leave open in `Database` (database.cc:68):
  between the first and the last `get_row` of a result the backend only converts
  columns that the schema declares NOT NULL. The lock round `connect` protects the
  client library and no state of the program.
- Rates: how many checks four threads work off in `CHECK_INTERVAL_MS`, and whether
  their results come within `MAX_NO_RESPONSE_MS`. The models have an order of
  events and no durations; `Scribe` lets a result be late at any time instead.
- The composition of `Lookup`, `Answers`, `Cache` and `HashRing` in one backend, and
  of `Checks`, `PoolList` and `Scribe` in one watcher. Each takes what its neighbours
  do as any outcome they have: `Scribe` lets a working server fail a check and,
  `Flaky`, be late; it takes no reply of a neighbour for one of its own, which is why
  `checks_own` is a run of its own.
- `pool_set_weight` (class-metadns.php:183), whose UPDATE is malformed: it never
  changes anything.
- Log rows, mail, IRC, statistics, configuration, SIGHUP, authentication of
  requests, schemas and build files: no other part reads what they write while it
  runs.
