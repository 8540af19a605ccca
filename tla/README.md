# A TLA+ model of the GTP-U / Diameter metering pipeline

The pipeline parses mobile-core traffic, charges each packet to a subscriber and
writes usage records. This directory holds TLA+ modules translated from its C++
sources, the TLC configurations that check them on small instances, and TLAPS
proofs that hold for every value of the constants. `PROJECT.json` maps each
definition to the lines it models.

## 1. Inventory

### Parts and how they interact

```
 source -> Ingest --meter_ring--> MeterEngine --record_ring--> reporter -> file
 (main thread)    \---gy_ring---> (metering thread)            (reporter thread)
                                       |  Seqlock: PipelineSnapshot
                                       |  SnapshotPublisher: DetailSnapshot
                                       v
                                  HTTP thread
```

| part | state | operations | what makes it hard |
|---|---|---|---|
| `spsc_ring.hpp` | slots, head, tail, two stale copies | push, pop, bulk forms | relaxed views of the other side, wrapping indices |
| `meter.hpp` engine | TEID table, subscribers, buckets, sweep cursor | install, release, apply, apply_gy, poll, drain | sessions that move over each other's tunnels, full tables and sink, slices of a growing table |
| `meter.hpp` flows | flow slots | update_flow, find_flow | collisions, eviction inside other windows |
| `flat_hash.hpp` | keys, values, size, side slot | find, insert, erase, clear | backward-shift deletion, the full table |
| `seqlock.hpp` | words, sequence number | store, load | torn reads, wrap-around, giving up |
| `snapshot.hpp` | buffers, reference counts, current | begin_write, commit, read, release | stale index and count, reuse under a reader |
| `meter_thread.cpp` | threads, flags, rings, counters, file | start, loops, publish, stop | shutdown order, restart, data race on counters, failing file |
| `meter_thread.cpp` tables | cursors, a table in the making, demand | advance_detail_scan | slices of tables that change meanwhile, a request stamped late |
| `pipeline.hpp` | ingest counters | process_frame and below | error paths, full rings |
| parsers (`net`, `gtpu`, `diameter`) | none | parse functions | length rules, bounded loops, nested groups |
| sources (`pcap`, `ingest_pcap`, `ingest_rawsock`) | cursor, loops, buffer | open, next_batch | the last loop, cut records, views into a reused buffer |
| `reporter.cpp` | connection, stop flag | serve_loop, route, stop | clients that stall or hang up, shutdown meanwhile |
| `main.cpp` | stop flag | ingest loop, drain, exit | signals at any moment, failing opens |
| `histogram.hpp`, `session` loader | buckets | record, quantile, load | arithmetic and text only |

The properties worth having follow from this: no event, byte or record is lost
without being counted; a packet is charged only to an active session that owns the
tunnel; what a reader sees is whole, stable and not older than it must be; every
call returns, every session is eventually reported, and `stop()` leaves nothing
behind. The hazards are listed with their lines in `PROJECT.json`.

### Plan

Done, in this order: `SpscRing` with its abstract queue, `MeterEngine`,
`SnapshotPublisher`, `Seqlock`, `FlatHash` with its abstract map, `Runtime`
(which composes queues, engine and reporter), `FlowTable`, the parsers with the
builders as their inverse, `Ingest`, `PacketSource`, `IngestLoop` (which composes
source, parsers, dispatch and rings), `DetailScan`, `HttpReporter` (which composes
the scan, the endpoint, its clients and the end of the program).

Could follow: the histogram as a function against its definition.

## 2. Modules

| module | models | notes |
|---|---|---|
| `BoundedFifo` | what a ring promises | batches in and out, refusal only when full or empty |
| `SpscRing` | `spsc_ring.hpp` | one step per access to a shared index or slot; `IndexModulus` is 2^64 scaled down |
| `MeterEngine` | `meter.hpp`, without flows | one step per call, and one per subscriber in poll and drain; time is the age of an interval, capped where the code only compares; `hung` marks an `erase` that does not return |
| `BoundedMap`, `FlatHash` | `flat_hash.hpp` | `hash_u32` is any function; `remove_at` takes a step per slot |
| `FlowTable` | `update_flow`, `find_flow` | the hash is any function; timestamps may step back |
| `SnapshotPublisher` | `snapshot.hpp` | one step per atomic access; a snapshot is its number, `Partial` while it is filled |
| `Seqlock` | `seqlock.hpp` | one step per word; a snapshot is its number in every word |
| `Runtime` | threads of `meter_thread.cpp`, ingest and stop as seen by them | the rings are bounded queues, the engine a counter of unreported usage |
| `NetParser`, `GtpuParser`, `DiameterParser` | `net.hpp`, `gtpu.hpp`, `diameter.hpp` | functions of a view `[size, data]`: how many bytes are there, and the fields found in them; cutting a packet changes the size only, so a parser that forgets to look at it reads a field that is not there |
| `Synth` | builders of `synth.hpp` | from what a packet should say to its view |
| `Ingest` | `pipeline.hpp` | a packet up to its push is one step (no other thread sees less), each Diameter message and each Gy event one more |
| `PacketSource` | `pcap.hpp`, `ingest_pcap.cpp`, `ingest_rawsock.cpp` | a step per round of `next_batch`; an entry carries the generation of the memory it points into |
| `IngestLoop` | ingest loop of `main.cpp` | composes the four above with the metering thread taking events |
| `DetailScan` | `publish_locked`, `advance_detail_scan` | a step per tick; usage is a number of bytes, or a mark for a subscriber without a packet, the clock an age; the heap and the sorts may treat equally large rows in any order |
| `HttpReporter` | `reporter.cpp`, start and end of `main.cpp` | composes `DetailScan` with the endpoint, its clients and main; a body is its rows and counters |
| `MC*` | | constants, packets and symmetry for TLC |
| `Sums` | | the sum of the first n entries of a function, and of a sequence; the fold of a sequence |
| `NumberFacts` | | lemmas on remainders, induction over a set of numbers, and sums |
| `SpscRingProofs`, `MeterEngineProofs`, `SnapshotPublisherProofs`, `IngestProofs` | | theorems on the modules they are named after |
| `RuntimeProofs` | | theorems on `Seqlock` and on `Runtime`, which uses one |
| `HttpReporterProofs` | | theorem on the tables `DetailScan` gathers while `HttpReporter` runs |
| `TableProofs` | | theorems on `FlowTable` and `FlatHash` |

Variables are named after the members they stand for, with a comment where the
name differs. History variables, marked as such, only record what happened
(`charged`, `metered`, `emissions`, `lost`, `reported`, `traffic`, `sunk`, `frozen`,
`seen`, `last`, `pass`, `origin`). Operators
introduced by "Mutant:" are wrong variants of the definition below them; with one
of them in its place the property named in `PROJECT.json` fails.

Shared accesses are interleaved in program order. The atomics of the code are
acquire/release on exactly the accesses that publish, which justifies that for
the ring and the snapshot publisher. The seqlock reads its words relaxed between
fences. The ingest counters are plain integers and race with the publisher: their
words are copied one at a time, in either order.

## 3. Runs

Passing runs:

| run | instance | shows |
|---|---|---|
| `ring` | capacity 2, indices that wrap, batches | the ring is a bounded FIFO; the two sides never touch one slot |
| `engine_sessions` | 2 IMSIs, 2 tunnels, 3 packets, 3 control calls, sink of 2 | bindings belong to active sessions, bytes are conserved, drops counted, released sessions charged nothing |
| `engine_learning` | 2 subscribers, TEID table of 1 beside the side slot, 3 QFIs, 3 packets; a rating group that is the mark of an unset bucket | counters agree while tunnels are learned and tables fill; buckets sum up and a mixed bucket is flagged |
| `engine_reporting` | as sessions, with timers | usage of an active session is eventually reported |
| `snapshot` | 4 buffers, 2 readers | exact counts, whole and stable handles, a writer never refused |
| `seqlock` | 2 words, 2 readers, wrapping number | whole and fresh loads |
| `tables` | TEID table: 3 keys in 4 slots; flow table: 3 flows and the substitute key, window 2 of 4; a behaviour exercises one of the two | under every hash function, the TEID table is a map and, with a slot free, every erase returns; a flow has one reachable row, which is exact, and the least recently seen goes |
| `runtime` | rings of 2, 4 inputs and starts, 2 starts | nothing lost unaccounted; `stop()` returns and settles everything; final counters |
| `ingest` | about 4000 captures, most of a single packet, some of up to 3 with 0 to 2 loops; live Ethernet and raw IP; batches and rings of 2 | every packet and event accounted for; GTP-U metered exactly as a reference definition of a well-formed PDU says; tunnel, QFI, bytes, flow and Gy events as built; no view reaches past its own; a replay hands out its capture as often as asked, and ends |
| `service` | 3 subscribers, used or not, packets of 0 and 1 bytes, 3 flow slots, slices of 3, tables of 1 and 2; 2 clients, 8 kinds of request | a table shows values of its own pass and leaves out only smaller ones; tables are refreshed while somebody asks; clients are answered and the program ends, if long answers are read |

Two runs end in a violation and show the code at odds with a line of its own:

| run | what happens |
|---|---|
| `capture_views` | a batch of live packets holds entries whose bytes are gone: the second packet of a Linux batch makes `resize()` move the buffer the first one points into; a second BPF read overwrites the first. `ingest_rawsock.cpp:102` says "each batch entry views the bytes read for it" |
| `shutdown` | a client asks for a table and does not read it: `send` (`reporter.cpp:540`) has no timeout, so the serving thread stays in it; `stop()` raises its flag and joins the thread, and main waits with it. `reporter.hpp:8-9` says "non-blocking accept with a poll timeout so shutdown is prompt" |

The `ingest` run gives such a view whatever bytes the memory may hold (`Memory`);
the accounting and the replay properties hold all the same. What `shutdown` leaves out,
a client that reads in the end or goes away, is the condition under which `service`
finds that clients are answered and that the program ends.

### Other places where code and documents differ

Met while modelling; the modules do what the code does here, and no run of their
own states the document's side.

- `meter.hpp:448` wants a failed bind to be loud. A session that takes over
  another's tunnel and then moves away unbinds it for both, and no failure is
  counted.
- `usage_record.hpp:64` calls record numbers gap-detectable; they restart at 0 when
  a released subscriber is installed again (`meter.hpp:183`).
- `meter.hpp:345` promises a final record for all unreported usage; `drain()` skips
  packets that carried no bytes (`meter.hpp:352`).
- `usage_record.hpp:24-31`: rating group 0xFFFFFFFF is taken for an unset slot, and
  one with the top bit set shares a bucket with a QFI (`session.hpp:117` accepts
  both).
- `snapshot.hpp:70` says a writer is refused only with more readers than buffers;
  N - 1 readers suffice. `snapshot.hpp:97` says the newest published buffer is
  pinned; a delayed reader can pin one whose commit has not published it yet.
- `runtime.hpp:92`: a reader that loses every seqlock attempt gets zeros.
- `pipeline.hpp:155` does not want a flow invented for a payload that is not IP;
  `meter.hpp:510` gives them all one row.
- `runtime.hpp:107`: without an open file records count as written.
- `meter_thread.cpp:133`: the last snapshot is published before the reporter has
  written the last records.
- `flat_hash.hpp:93` does not want probing to become unbounded: `insert` fills the
  last free slot, and `remove_at` then never finds the free one it looks for. In
  the engine this is the state `hung` (`EraseHangs`).
- `reporter.cpp:125` calls the gauge "Sessions installed in the metering table";
  `meter.hpp:176` counts an IMSI only the first time, a release every time.
- `reporter.cpp:540`: a client that does not read also keeps all later ones from
  being answered. One that hangs up may raise SIGPIPE, which nobody handles
  (`BrokenPipe`, main "killed").
- `reporter.cpp:527`: a request that is cut by the receive timeout is answered as if
  it were complete.
- `reporter.cpp:442` calls the rows of `/subscribers` the top ones; they are sorted
  only if there are more than `snapshot_subscriber_limit`.
- `main.cpp:273`: `--loops` is cut to 32 bits, so 2^32 is taken for 0, which
  replays for ever.
- `pipeline.hpp:55-57` says that metering stays correct under snaplen truncation; a
  truncated packet is rejected by the IP or GTP-U length tests and not metered.
- `diameter.hpp:283`: of two Used-Service-Units in one block the total of the first
  stays with the input and output octets of the second. `diameter.hpp:360`: blocks
  beyond the eighth are dropped with a flag nobody reads.
- `pipeline.hpp:84`: a capture of raw IP packets leaves the frame counter at 0.
- `docs/architecture.md:100`: a snapshot copies the engine's, the ingest thread's
  and the rings' counters one after the other, not at a single instant.

### Bounds

Bounds are constants used in guards: `MaxEvents`, `MaxGyEvents`, `MaxControlOps`
(engine), `MaxSnapshots`, `MaxStores`, `MaxAttempts` (16 and 64 in the code),
`MaxStarts`, `MaxInputs`, `MaxTime`, `MaxPackets` (endless sources). Table and ring
sizes are powers of two scaled down (the hash table's minimum of 8 included), and so
are 2^32 loops (`LoopWidth`), 2^64 (`NumberWidth`, `ClockWidth`), the rounds of `recv`
(`RecvRounds`) and the limits of the parsers. They are chosen so that every limit is hit: the sink, the subscriber
and TEID tables and every ring fill; the indices and the sequence number wrap; a
probe window fills and evicts; a session is installed, moved or released, and
installed again; attempts run out; a capture fills its last batch exactly, and one
is replayed `LoopWidth + 1` times; a packet has one VLAN tag, extension header or
credit-control block more than the parsers take; packets end within each
header; a table has one row less than there are candidates; a number in a
request wraps. One bound is an assumption about the environment: no seqlock attempt
lasts while 2^31 stores complete (`NoLoadSpansTheWrap`).

Packets are built, not drawn from all bytes: all combinations of the header fields
that a parser looks at, with lengths around those that are right, one layer at a
time.

Symmetry is used over IMSIs and readers, in runs without liveness properties. In
`tables` the names of flow keys and slots are fixed by the home slots of the initial
state instead, up to renaming keys and rotating slots. Deadlock is not checked for
`Runtime`, `MCTables`, `IngestLoop` and `HttpReporter`: they end when the bound on packets or starts is reached, or when
the program does.

### Fairness

`MeterEngine!FairSpec`: the metering loop calls `poll()` for as long as it runs
(`meter_thread.cpp:95-131`, no blocking call in it), loops inside calls go on, and
time passes. `MCTables!TablesSpec`: a call of the TEID table that began runs on. `Runtime!FairSpec`:
each thread is scheduled now and then; nothing obliges main to ingest or to stop.
`IngestLoop!FairSpec`: the main thread is scheduled; no packet need arrive, no
signal come, and the metering thread may never take an event (`push` does not wait).
`HttpReporter!FairSpec`: the threads are scheduled and their timeouts pass, the one of
main's drain wait included; once it is to stop, the metering loop takes what is in the
rings and leaves, since each round does one or the other (`meter_thread.cpp:96-131`).
Nothing is assumed of clients: they need not connect, send, read or stay. That long
answers are read in the end, or their clients go away, is a premise of
`RequestsAnswered` and `ExitReached` themselves (`AnswersRead`), and `ExitReached` also
has the premise that no SIGPIPE kills the program; `ShutdownPrompt` has none and fails.

## 4. Proofs

| theorem | says | inductive invariant |
|---|---|---|
| `SpscRingProofs!RingInvariant` | types, `IndexOrder`, `Reserved` | `RingInv`: a publish keeps the order only because the operation reserved room, or elements, against a stale index, which `Reserved` remembers |
| `SpscRingProofs!RingNoSlotRace` | `NoSlotRace` | follows from `RingInv`: windows of at most `Capacity` consecutive indices have distinct slots |
| `SpscRingProofs!RingImplementsFifo` | `RefinesBoundedFifo`: every behaviour of the ring is one of the bounded queue | `RingInv` and `Transit`: the slots written so far hold the batch, and what was copied out is still in its slots. Only the two publishing stores and the refusals are steps of the queue; a slot write is invisible because it hits no published slot |
| `MeterEngineProofs!EngineBindingSound` | `BindingSound` | `BindingInv`: adds the shape of the session tables, and that TEID 0, which stands for no tunnel, is never indexed |
| `MeterEngineProofs!EngineOnlyActiveCharged` | `OnlyActiveCharged` | from the same |
| `MeterEngineProofs!EngineTypeOK`, `EngineRecordsBalanced` | `TypeOK`, `RecordsBalanced` | `EngineTyped` with `BindingInv`: counters minus what was emitted is an amount of usage whose buckets add up (`Balanced`), and an index `next_sub_` has not reached has clean books |
| `MeterEngineProofs!EngineUsageConserved`, `EngineDropsCounted`, `EngineStatsAgree` | `UsageConserved`, `DropsCounted`, `StatsAgree` | `BooksInv`, their conjunction, on top of the types. Each action changes one subscriber's account, and a sum over all subscribers then changes by the same amount |
| `MeterEngineProofs!EngineBucketsPureIfBound` | `BucketsPureIfBound` | `PureInv`: adds that a bound tunnel meters into a slot with the name of its subscriber's rating group, or into the flagged aggregate. No rating group is excluded: usage is told apart by the id it is booked under, so a group that equals a tagged QFI shares its bucket, and one that equals the mark of an unset slot is the one exception the property names |
| `RuntimeProofs!RuntimeNothingLost`, `RuntimeStopSettles`, `RuntimeFinalCounters` | `NothingLost`, `StopSettles`, `FinalCounters` | `RuntimeInv`: adds `Handover` (which thread may still run and which queue may still fill in each phase of `stop()`) and `LastPublish` (what the last snapshot has copied so far is final) |
| `SnapshotPublisherProofs!PublisherRefsExact`, `PublisherHandlesWhole`, `PublisherHandlesStable` | exact counts; whole and unchanging handles | `PublisherInv`: adds that a buffer a reader is about to pin is the writer's or whole, since the count it read may be stale |
| `SnapshotPublisherProofs!PublisherHandlesFresh` | `HandlesFresh` | `Fresh`: snapshots are numbered as they are written, and the buffer a reader is about to pin is the writer's or new enough |
| `SnapshotPublisherProofs!PublisherNeverRefused` | `NeverRefused`, if there are two buffers more than readers | `Crowd`: the buffers a scan has passed over, the published one apart, and the readers that can still make it pass over one are together no more than the readers |
| `HttpReporterProofs!TablesAlwaysSound` | `TablesSound` | `ScanInv`: of what lies before the cursors, compared with the tables when the pass began. The rows gathered show values of the pass, one row per subscriber that had a packet; a flow that was there and kept its slot has a row, or the table is full of rows at least as large (`TopOk`), which displacing a smallest row preserves. Traffic only adds to what the pass has seen, or reuses a slot, which is then no longer judged |
| `RuntimeProofs!SeqlockLoadsWhole`, `SeqlockLoadsFresh` | `LoadsWhole`, `LoadsFresh` | `SeqlockInv`: the number counts accesses modulo its width, and an attempt in progress lasts less than one turn |
| `TableProofs!FlowTableOneReachable`, `FlowTableRowsExact`, `FlowTableEvictsOldest` | `OneReachableEntry`, `RowsExact`, `EvictsOldest` | `FlowInv`: the search for a row's key meets neither the key nor an empty slot before the row (`AllReached`). Rows are never emptied, and a new row takes the first empty slot of its window or, if there is none, the place of an old row, so no search gets shorter |
| `TableProofs!HashSizeExact`, `HashImplementsMap` | `SizeExact`; `RefinesBoundedMap`: every behaviour of the table is one of the bounded map | `HashInv`: while `remove_at` shifts elements back, its hole is a slot that searches still pass but whose key no longer counts. The elements it has passed over do not need the hole (`PassedOver`), and those beyond the gap that ends the loop cannot, so no search is cut when the hole becomes a gap |
| `IngestProofs!IngestAccounted` | `PacketsAccounted` | `AccountInv`: adds the types of counters, batch and rings. The dispatch, whatever the parsers answer, is shown to count a packet in exactly one class, unless it is Diameter by its outer protocol and port, and to push or drop its event; each action then moves a packet or an event from one account to the next |
| `IngestProofs!ReplayExactAlways` | `ReplayExact` | `ReplayInv`: adds that `loop_` stays below the number asked for until the replay is exhausted and is that number then, and that the cursor is then at the end. What `load()` indexes is shown along its loop: the offset is the size of the records so far, and `done` is set at the first one that is cut |
| `IngestProofs!PdusMeteredExactly` | `GtpuExact` | `SourceOk` and `FrameOk` (below). The walk over extension headers is shown, round by round, to be in the chain at the sum of the headers walked, or to have refused it; a chain that ends within the limit ends in one place, which is the one of the reference definition |
| `IngestProofs!ViewsStayInside` | `ViewsInside` | `SourceOk`: an entry of the batch, or a packet yet unread, is a captured packet or, once its memory was reused, any bytes; `FrameOk`: so is the packet in processing. Each parser is then shown to check a length against its view before it cuts a piece from it |

The assumptions are the named ASSUMEs of the modules, evaluated by TLC in every
run: positive sizes, a ring capacity that divides the index modulus, an even
sequence modulus, finite sets of readers, distinct marks for free slots. On packets:
a capture is a sequence of records that have a size (`ReplaysAssumption`); where a
header is read there are lengths that are numbers and flags that are bits, of any
value, in memory that was reused too, and a packet labelled with a PDU carries it
behind its outer headers (`PacketsAssumption`; `GtpuExact` judges labelled packets
only). A workload starts with tables of the size of the flow table and usage that is a
number or the mark of none (`WorkloadsAssumption`). `PublisherNeverRefused` has its own hypothesis; with fewer buffers the writer
is refused, as said above.

Sums over subscribers and queues are defined by a recursive function. `NumberFacts`
proves by the least counterexample that such a function exists and satisfies its
equation, and from it what a sum does when one entry, the first or the last one
changes. The loops of `load()`, `parse_ext_chain`, `parse_ipv6` and the flows of
`advance_detail_scan` are recursive functions too and are reasoned about in the same
way (`IndexWalkDef`, `ExtWalkDef`, `Ipv6WalkDef`, `TopScanDef`). The library's own induction theorems take an operator as a parameter,
which the provers cannot instantiate.

Only model-checked: liveness (`UsageEventuallyReported`, `EraseReturns`,
`StopReturns`, `ReplayEnds`, `DetailKeptFresh`, `RequestsAnswered`, `ExitReached`),
which needs fairness and ENABLED; that packets are metered and Gy events made as
built (`MeteredAsBuilt`, `GyAsBuilt`), since what to expect comes with the packets of
the MC module, and the walks over nested AVPs fold operators. `EntriesViewTheirBytes`
and `ShutdownPrompt` do not hold (runs `capture_views` and `shutdown`).

## 5. Not modelled

- Text: NDJSON records, JSON and Prometheus bodies, the splitting of request lines,
  option parsing, the session file (`SessionSpec::valid` is the set of
  specifications the engine is given), progress and summary printing.
- Data conversion: loads and stores of `byte_order.hpp`, digits of an IMSI in
  Diameter, hash functions (the tables are checked under every function).
- The histogram: arithmetic on single values, with no control and no other reader
  than the thread that owns it; latencies are left out of all modules.
- Opening an interface or a socket, beyond success and failure; CPU pinning, back-off
  and pacing, which only delay; `stop()` of a source, which nobody calls.
- The choice of random sessions and sizes by the synthesizer, tests, benchmarks and
  tools.
- `kAvpMaxDepth`: the walks nest three deep, less than the limit.
- The flow table is checked apart from the engine: nothing else reads or writes its
  slots, and the engine calls it once per charged packet. `Runtime` and `DetailScan`
  stand for the engine by counters; the queues in `Runtime` and `Ingest` are what
  `SpscRing` is shown to implement.
