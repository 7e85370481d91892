# A verification of nfv-benchmark

TLA+ models of the programs in this repository, checked with TLC on small
instances, and theorems about them checked with TLAPS for every instance.

The repository measures how software network functions behave when packets are
processed in batches. A *traffic generator* (`txer.c`) sends packets to a
*device under test* (`rxer_test.c`), which pushes every burst it receives
through a *pipeline* of *elements* and reports back how many packets it has
processed, so that the generator sends as fast as, and no faster than, the
device can work. Each program is a DPDK application: one polling loop on a core
of its own and a console thread.

## 1. Inventory

| component | source | state | operations | interacts with |
|---|---|---|---|---|
| flow control loop | `include/fll.h`, `txer.c`, `rxer_test.c` | `wnd_s`, `wnd_e` at the generator, `last_ack` at the receiver | `fll_pkts_sent`, `fll_sender_ack`, `fll_num_pkts_to_send`, `fll_pkt_ack`, `fll_pkt_reset` | both programs, by packets over the cable |
| traffic generator | `txer.c` | pool position, burst size, pass, `g_fll` | the transmit loop; console: statistics | flow control, pool, transmit buffer |
| receiver programs | `rxer_test.c`, `rxer.c` | `g_stream`, `g_pipe`, `g_fll` | `benchmark_loop`, `release_resources`, console | stream, pipeline, flow control |
| receive stream | `include/dataplane.h` | ring of free slots, `queue_length`, histogram | `rx_stream_create`, `_mtop`, `_release_pkts`, `_release` | taken from by the loop, given back to by `drop_mbuf` |
| pipeline and elements | `src/pipeline.c`, `src/element.c`, `elements/buffered_element.c`, `bypass_element.c`, `drop_mbuf.c`, `timer.c` | the element list, the `ports` of each, the buffer of each buffered element | `add`, `insert`, `remove`, `process`, `release` | each element calls the next one directly |
| fastpass | `elements/fastpass.c`, `merged_fastpass.c` | `fast`, `slow` | `process`, which dispatches twice | port 1 to a `drop_mbuf` of its own |
| prefetching loops | `elements/measurement.c`, `merged.c`, `merged_opt.c`, `merged_fastpass.c`, `fastpass.c` | window of sixteen packets, `hashes`, counters | `process` | routing, checksum, hash |
| other element variants | `elements/naive_*.c`, `batching_*.c`, `bp_*.c`, `bpp_*.c`, `identity.c`, `drop.c` | counters | `process` | the next element |
| routing table | `elements/routing.c` | trie of 8-4-4-4-4-4-4 bits | `routing_file_load`, `routing_entry_add`, `routing_entry_find` | the routing and merged elements |
| transmit buffer and port | `src/dataplane.c`, `include/dataplane.h` | `tx_buffer`, `tx_pool`, port configuration | `port_configure`, `packet_send`, flush, `dataplane_rebuffer_tx_callback` | both programs |
| packet pool | `src/packets.c` | `cur`, `end` | create, `next_batch`, `reset`, Zipfian fill | generator, jit runner |
| element construction | `src/benchmark_helper.c` | the copied `ports` of each wrapper | one constructor per wrapper and element | scripts that generate `pipeline_build` |
| helpers | `lib/checksum.c`, `murmur3.c`, `zipf.c` | none | pure functions | elements, pool |
| jit runner | `jit_test.c`, `src/jit.c`, `main.c` | none | make, dlopen, call | pool, pipeline |
| memory, logging, scripts | `src/memory.c`, `src/log.c`, `*.sh` | none | wrappers, shell | |

What makes the system hard, and the properties that make it correct:

* **Flow control** has no sequence check, no timer and no retransmission. Acks
  are absolute counts, a reset restarts the generator's window while packets of
  the old one are still on their way, and every lost data packet shrinks the
  window for good. It must bound what is in flight whatever happens, never move
  its window back, and finish the transmission unless the whole window is lost.
* **The datapath** is one thread, but a deep one: batches are cut and joined by
  nested calls, and packets stay behind in buffers between bursts. A slot that
  leaks, or is released twice, shows up much later as a burst without slots or
  as one `packet_t` with two packets. Slots must be conserved, packets must
  leave once and in order, and what is buffered must come out when it ends.
* **The transmit buffer** may find the NIC full: what it does not take goes
  back, from inside the flush, into the array it is being read from.
* **The routing table** works on shifts and masks of what is left of an address
  and of a prefix length, in two different loops that must agree.
* **The element variants** are compared by speed, which means something only if
  all of them count, route and sum the same packets the same way.
* **Changing a pipeline** goes through the ports of wrapped elements, of which a
  wrapper holds a copy that is made once and never updated.
* **Start and end**: the console thread reads what the worker creates and frees,
  each of the two threads may exit while the other runs, and a port that could
  not be configured may be taken for one that was.

`PROJECT.json` lists each hazard at its line, with the properties that cover it.

## 2. Modules

| module | models | checked by | proved in |
|---|---|---|---|
| `Fll` | both ends of the flow control loop, both polling loops, the cable, the restart of the receiver | `FllSafety`, `FllLive` | `FllProofs` |
| `CreditWindow` | what the flow control loop promises: credits held, spent, granted | `FllSafety` (as `ImplementsWindow`) | `FllProofs` |
| `FllInvariant` | the inductive invariant of `Fll`, and its refinement of `CreditWindow` | `FllSafety` | `FllProofs` |
| `TxBuffer` | `packet_send`, the buffer, the NIC's transmit ring, the callback, the pool of mbufs | `Txer` | `TxBufferProofs` |
| `Txer` | `txer.c` packet by packet over `TxBuffer`: packet pool, batches, passes, polls, last flush; and the acks of `rxer_test.c` over a second instance of `TxBuffer` | `Txer` | `TxerProofs` |
| `Datapath` | receive stream, pipeline, wrappers, what the elements do with a batch, the end of the receive thread | `Datapath` | `DatapathProofs` |
| `PrefetchLoop` | the two-stage loop of `fastpass`, `measurement` and the merged elements over one batch | `PrefetchLoop` | `ElementsProofs` |
| `Checksum` | `checksum` of `lib/checksum.c`, at any width of a byte | `Elements`, `ChecksumTail` | `ElementsProofs` |
| `Elements` | what all 21 element variants compute over a sequence of batches, and what they print at release | `Elements`, `ChecksumTail` | `ElementsProofs` |
| `RoutingTrie` | insertion and lookup of the trie, and longest prefix match | `RoutingTrie`, `RoutingEntry`, `RoutingLpm` | `RoutingTrieProofs` |
| `Pipeline` | the constructors of wrapped elements; add, insert and remove | `Pipeline` | `PipelineProofs` |
| `Lifecycle` | `main`, console, worker, exit handlers and teardown of `txer.c`, `rxer.c`, `rxer_test.c`; `port_configure` and its failures | `Lifecycle` | `LifecycleProofs` |
| `MCFll`, `MCTxer`, `MCDatapath`, `MCPrefetchLoop`, `MCElements`, `MCRoutingTrie`, `MCPipeline`, `MCLifecycle` | instances for TLC | | |

The modules cut the programs along two lines. `Fll`, `Txer`, `Datapath` and
`Lifecycle` all look at the same two loops: `Fll` with counts, loss and
restarts; `Txer` with the packets themselves and NICs that are full; `Datapath`
with what happens to a burst inside the receiver; `Lifecycle` with what the
loop uses and who frees it. `PrefetchLoop` and `Elements` do the same with one
call of `process`: the first for which packet is taken when, the second for
what is then computed.

### Fll

A data packet carries nothing that the receiver looks at, so data packets are
three counters: those in the generator's `tx_buffer`, on the `cable`, and in the
receiver's `rx_ring`. Resets and acks are records in a FIFO `acks`; `arrived`
and `npkts` say how many of them the generator's NIC, and its last `rx_burst`,
hold. The generator's loop is `SendBatch` (next batch, `packet_send` of each,
`fll_pkts_sent`), `PollAcks` (`rx_burst`), `SenderAck` per message and
`OpenWindow` (`fll_num_pkts_to_send`), with the `goto` of a closed window going
back to `PollAcks`; `FinalFlush` ends it. The receiver is `Boot`
(`port_configure`: from here its NIC takes packets), `SendReset`, `ProcessBurst`
and `Crash`. `hist` is history that no action reads: what all incarnations of
the receiver processed, which of it the last processed message and reset spoke
of, and what was in flight at that reset without being counted by `wnd_e`.

Counters are unbounded integers. `wnd_s` and `wnd_e` are 64-bit in the code and
count packets, so they do not wrap; the comparison in `fll_num_pkts_to_send`
that keeps their unsigned difference from wrapping is modelled as it stands.

`ImplementsWindow` maps `Fll` to `CreditWindow`: the credit is what
`fll_num_pkts_to_send` would return, `inflight` counts buffer, cable, ring and
what a poll has in hand, `starts` is the number of times the generator has
started counting.

### Datapath

One thread runs everything, in calls that nest: an element calls only the next
one, so the calls that have not returned are a set of elements, `active`, and
`given` says what each of them still has to take from its batch. The innermost
one runs (`Runs`), and a step is one turn of its loop. For
`buffered_element_process` that is `Flush` (the buffer is full: it is worked on
and emptied), `Put` (the packet goes into the buffer) or `Return`; for
`bypass_element_process` it is `Chunk` (while more than `notify_size` is left) or
`LastChunk`, which returns, as does an element that nothing wraps. `Work` is the
`process` of what is wrapped, `Process` the call of the next element. So
`drop_mbuf` gives slots back to the ring while calls above it still hold others,
and the properties look at the slots in the middle of that.

A turn of `benchmark_loop` starts with `Burst`: `rx_stream_mtop` and the first
call. The thread ends in two ways: `Short` is the `rte_exit` of a ring without
enough slots, from inside `rx_stream_mtop`, and `LoopEnds` the `break` of a
`benchmark_loop` that is called with a `record_time` of 1 (`RecordTimes`; the
shipped `rxer` passes 0, and has no end). Both lead to `pipeline_release` in the
same thread, which comes to one element after the other (`ReleaseElement`) and
works on what each has buffered. What an element computes over a packet is left
out; what it does with its batch is not: `naive_*` elements pass on only the
first packet, `fastpass` splits.

There is a third end, and it is not in this module: `rte_exit` in the console,
on a failure of the statistics, runs `release_resources` on the main thread
while this one goes on processing bursts with elements that are being released.
Nothing that is said of the datapath survives that. `Lifecycle` has both threads
and this interleaving, and `FreedOnce` names it as its exception; what `Datapath`
says is said of runs in which it does not happen.

The size that `buffered_element_process` sets to 0 *after* the call of the inner
element is set before it in the model; nobody reads it in between, since an
element is not entered twice.

The naive elements are right only for batches of one. The scripts put them
behind a timer of batch size 1 (`test-rxer/paper-benchmarks.sh`) whose
constructor buffers even in its bypass form, so this is how `MCDatapath`
instantiates them. `WellBuilt`, the assumption of the proofs, says it for every
pipeline: all elements up to a naive one are of size 1, and none of them is a
`fastpass`, whose batches may be empty.

### TxBuffer

DPDK's `rte_eth_tx_buffer` and its flush are modelled from how the code uses
them: a full buffer is flushed, the NIC takes what its ring has room for, and
the rest goes to `dataplane_rebuffer_tx_callback`. If the NIC took nothing of a
full buffer, the callback fills the buffer again and thereby flushes again:
`TxBurst` then leaves `pc` at "flush". Packets are numbered in the order of
`packet_send`.

### Txer

The generator's buffer and NIC are `TxBuffer` itself, those of the receiver its
instance `Ack`. Each call of `packet_send` is a step, and a NIC may send at any
time, so a flush finds it with any amount of room. `PacketsPoolZipfian` draws
for the slots that the loop of `packets_pool_zipfian` reaches: `packets_pool_at`
scales the index by the size of a packet, and pointer arithmetic scales it
again, so the last slot it asks for is far behind the pool. The loop therefore
runs to the end of the pool, and the assertion on its count holds only because
of that; `InPoolOrder` says that nothing undrawn is ever sent.

`SenderAck` takes one message in each step, and `Poll` computes the burst from
however many of those on the wire were taken. `FlushMessage` is the flush behind
every ack. If the NIC is full the ack stays
in the buffer and nothing but a further burst flushes it again: `StuckOnAck` is
the state in which no further burst can come. It is not reachable, and the
reason is arithmetic between three sizes (see the property).

### Lifecycle

Two program counters, `mpc` for `main` and its console loop and `wpc` for the
worker, share the port, the `console_status` flag and the global pointers
without a lock. `heap` says what is allocated or freed, `bad` collects uses of
what is not live, and the program goes on after them. `port_configure` is one
action per call that may fail, each with its cleanup and the value that is left
in `ret`: without memory for the rx pool or the tx buffer the port is released
but 0 is returned, and both threads work on a freed port. `exit` runs
`release_resources` once, in two steps, from whichever thread gets there first,
while the other thread runs on until the process is gone; the second thread to
call `exit` finds no handler left.

`rte_delay_ms(CONSOLE_FREQ)` between stopping the console and freeing is
modelled by its purpose: what the console was printing is printed. The loop of
`rxer_test` has an end only with a `record_time` of its own; the program passes
0, and the code behind the loop can only be reached with 1. Both are modelled.
`rx_stream_create` always returns 0, so its failure is not one of the failures.
All exceptions that the properties name are really reached.

### Pipeline

`made` is the sequence of elements, each with its wrapper, its ports and the
copy of them that the wrapper took when it was made; `elements` and `size` are
the `pipeline_t`. `Connect` goes through a wrapper to the element inside.
`PortsField` is what `ele->ports` reads: the copy. The programs use only
`pipeline_element_add`; `insert` and `remove` are modelled as the header offers
them. `EditsKeepWay` is an exact characterisation (both directions) of the
edits after which packets go where the array says.

### Elements

One element per behaviour is given a sequence of packets cut into batches in
any way. A packet is its flow, and hash, route and bytes are functions of the
flow. Each `*_process` is its own definition; the prefetching ones execute the
groups that `PrefetchLoop` shows them to execute. Tables that the code does not
zero (`measurement_resize`) start with any of `Garbage`. Counters that are 32
bits wide wrap at `Wrap`. All routes of `data/boza_rtr_route.lpm` have port 0;
the model also takes rules with other ports, for which a routing element
dispatches a whole batch on the sum.

### Checksum

`AddCarry` is `sum += s; if (sum < s) sum++` at any number of bytes, and
`checksum` the loop over words, the tail and the two folds. The width of a byte
is a constant, so that a word of eight bytes is small enough for TLC to go over
all of its values while the carries stay those of the code.

### RoutingTrie

Entries are named by the indexes that lead to them, so that a table is the set
of entries with `tbl_valid` and the rules are a function on the entries with
`port_valid`. `Chunk` is the shift and mask of both loops; `AddLong` keeps the
index of the last table as the code computes it. `Longest` is the reference.
Addresses are in host order, as `routing_file_load` builds them;
`routing_process` passes the four bytes of the header as they are, which on a
little-endian machine is the other order, and that is left out.

### PrefetchLoop

Five elements go over a batch with the same loop: `FetchFirst` takes half a
window (whatever the size of the batch), each `Turn` fetches the next half,
executes the first and moves the window, and `Finish` executes the rest from the
batch and dispatches. Packets are their places in the batch, so that a packet
from behind the batch, or from an earlier turn, would be seen. What is done with
a packet is left out except for what its index depends on: `hashed` counts the
entries of `hashes` in use, `SplitOne` is the branch-free split of `fastpass`.

The part behind the loop executes up to two halves at once while `hashes` has
room for one: every batch of more than eight packets stores behind its end
(`OverrunExactly` says which, and how far). What that overwrites is the compiler's choice; the
model takes it to be the window, which is not read any more. `todo` is what is
left of the group that is being executed: one packet is executed in each step,
so that the order of execution, the stores into `hashes` and the split are seen
packet by packet.

`fetched` is the `i` of the code, `window` its `p`. The names of the module are
its own where `Elements` has the same (`HalfWindow`, `Variants`, `LoopNext`), so
that one module of proofs can speak of the loop and of what is computed in it.

## 3. Runs

| run | question | instance |
|---|---|---|
| `FllSafety` | Is what is in flight bounded, the window monotone and within the credit of `CreditWindow`, with data, acks and resets lost or late and the receiver restarted? | window 2, bursts of 2, 9 packets in 3 passes, one restart, one data packet and one message lost |
| `FllLive` | Does the transmission end? | window 3, bursts of 2, one restart, one data packet lost, no message lost |
| `Txer` | Do packets leave once and in pool order, does no ack get left behind, does the transmission end, with NICs that are often full? | pool of 3 sent 3 times, bursts of 2, rings of 1, 3 mbufs, window 2 |
| `Datapath` | Are slots and packets accounted for in every sequence of bursts and when the receive thread ends? | six pipelines, ring of 8, bursts of 3, 11 packets, loops with and without an end |
| `Elements` | Do all variants of an element do the same work, however a sequence is cut? | 21 elements, 3 flows, up to 5 packets in any batches, two tables, two sets of rules |
| `PrefetchLoop` | Is each packet executed once, in order and from inside the batch, and dispatched on its port? | halves of 3, batches of 0 to 11, every set of fast packets |
| `RoutingTrie` | Does a walk find the longest prefix where the code places rules right? | 8-bit addresses, trie of 4-2-2 bits, three rules of 13 prefixes |
| `Pipeline` | Which edits keep the packets on the way the array shows? | 3 kinds of elements in 2 wraps, up to 4 made, any sequence of operations |
| `Lifecycle` | Who uses what has been freed, and do the programs end with the NIC closed? | three programs, every failure of `port_configure`, of the statistics and of the ring, both values of `record_time` |
| `RoutingEntry` | Is a long rule pushed into its entry? No. | one rule |
| `RoutingLpm` | Does the longest rule win? No. | two rules |
| `ChecksumTail` | Does the checksum depend on the buffer alone? No. | buffers of 1, 2, 3 and 8 bytes |

Why the bounds are enough:

* `FllSafety`: a window as large as a burst is the tightest that the code allows
  and one restart, one lost data packet and one lost message already reach every
  kind of stale message. `InFlightBound` is attained for no reset and for one,
  so it is not slack; `Wedged` is reached, because one lost packet and one left
  in the buffer are the whole window.
* `FllLive`: with `WndSize - MaxPktBurst` = 1 packet lost the loop completes;
  with 2 it does not, so the run sits at the edge.
* `Txer`: passes end in the middle of a burst, a ring of 1 under a buffer of 2
  takes all of a flush never and none of it often, and the mbufs are the fewest
  that the assumption allows. The window is the smallest that fits a burst: the
  states next to `StuckOnAck`, with an ack kept back, are reached.
* `Datapath`: `Fits` needs exactly the seven slots of the ring of eight and
  `TooLong` one more, so both sides of `SlotsSuffice` are exercised; 11 packets
  take every buffer through full, flushed and partly filled when the thread ends. Every turn
  of every loop is a state (226,943 in all).
* `Elements`: halves of 1 (and 2 in `merged`) make a batch of five take several
  turns of the loops with every remainder; two flows share the last bucket, and
  counters wrap at 4, below the number of packets. With bytes of one bit every
  content of buffers of up to 16 bytes is summed, shorter than, as long as and
  longer than a word.
* `PrefetchLoop`: batches shorter than a half, as long as one and two, and longer
  with every remainder, after no turn, one and two.
* `RoutingTrie`: as in the code the width of the first table is the first mask
  that `lpm` cannot hold, and a long prefix passes no table or one in the loop.
  Three rules are enough for one to be nested in another that was replaced.
* `Pipeline`: four elements leave room for two removals and the insertions
  behind them; the kinds cover being connected to one, to two and to none.
* `Lifecycle`: nothing is bounded; the state space of two threads is small.

`CHECK_DEADLOCK FALSE` where the programs end, or where the bound on packets or
elements is used up.

### Properties

* `InFlightBound`: one window *and one packet* per time the generator started
  counting. The extra packet is `fll_ack`'s `seq + 1`; the factor is that a
  reset forgets what is in flight.
* `WithinWindow`, `WindowNeverRetreats`: without lost messages the generator
  never runs past its window and never sees it move back. Both rest on the FIFO
  order of messages across a restart, since `fll_ack` stores what it is given.
* `ImplementsWindow`: `Fll` sends nothing it has no credit for, and no ack,
  however late or from which receiver, grants more than is left.
* `WedgedUntilRestart`, `Completes`: two sides of the same design. A window of
  packets lost (or stuck in a partly filled `tx_buffer`) leaves both loops
  polling for ever; anything less does not stop the transmission.
* `Fifo`, `PoolSuffices`, `FlushReturns`: the transmit buffer, in the program.
* `InPoolOrder`, `NeverStuckOnAck`, `Delivered`: the generator over full NICs.
  `Delivered` names what is lost by the last flush: less than a buffer.
* `SlotsConserved`, `QueueLengthHeld`, `InOrder`, `SlotsSuffice`,
  `DrainedOnExit`: the datapath, see the module. They hold in the middle of the
  nested calls, not only when the outermost returns. `DrainedOnExit` is about the
  receive thread that ends by itself, on a short ring or behind its loop, and not
  about the console's exit under it.
* `ExecutedInOrder`, `OverrunExactly`, `SplitInOrder`: the two-stage loop.
  `OverrunExactly` does not say that `hashes` is never overrun, for it is: it says
  that this happens behind the loop alone, to all batches larger than a half of the
  elements that hash every packet and to no batch that is not, and by one half at
  most.
* `SameWork`, `SumsRight`, `PassedOn`, `TotalReported`: the elements. Where
  `PassedOn` speaks of routing it says what adding up the ports of a batch comes
  to: a packet of port 1 never stays behind on port 0, those of port 0 may go with
  it, a packet of a farther port always takes its batch out of the ports of the
  element, and nothing else does but a second packet of port 1.
  `TotalReported` says what the printed count is: the packets counted, less
  those of the last bucket, plus whatever an unzeroed table held before.
* `Connected`, `LongestMatchIfPlaced`: the trie. `WellPlaced` says for which
  prefixes the code is right: those of exactly 8 bits, and those whose last
  index is 0.
* `BuiltToDrop`, `EditsKeepWay`: pipelines as the programs build them, and as
  the header lets a caller change them.
* `PortLive`, `ConsoleReadsLive`, `FreedOnce`, `Ends`: start and end. Each names
  the exception that the code leaves and nothing else: the port that is reported
  configured after its release, the console of `rxer_test` reading the stream
  that is being freed, the statistics error whose `exit` frees under the worker.

### Fairness

`FllLive` assumes weak fairness of the generator's steps, of the receiver's
start, reset and bursts, and of the arrival of data and messages: both loops
poll without blocking on cores of their own, an operator starts the receiver,
and the cable delivers what it does not lose. Nothing is assumed about `Crash`
or loss. `Txer` assumes the same of both loops, that a flush that has begun goes
on, which is a call, and that the NICs send what they have taken. `Lifecycle`
assumes that `main` runs, that the worker starts (the link of a started port
comes up) and that it gets to the end of a loop that has one; not that anything
fails, and not that a link that cannot be found is found. The safety runs assume
nothing.

### What disagrees with the documentation

Three runs show it:

* `RoutingEntry`: `routing.c:132` promises to find the correct entry for a mask
  greater than 8. The last index is taken from bits that have been masked off
  and is always 0. `10.240.0.0/12` of `data/boza_rtr_route.lpm` is affected.
* `RoutingLpm`: `routing.c:114` promises that a longer match is kept. `lpm` has
  three bits, so a /8 is remembered as 0 and loses to any shorter rule that
  comes after it.
* `ChecksumTail`: `checksum.c:22` handles a tail of "less than 8 bytes", but the
  last test looks at the whole remainder instead of its lowest bit, and a byte
  behind the buffer is summed for a remainder of 2, 4 or 6.

Two are imprecise descriptions rather than wrong code, and have no run:
`include/fll.h:16` gives `to_send = min(fll.wnd_size - fll.in_flight)` while an
ack opens one packet more (`InFlightBound` has it as it is), and
`src/elements/README.md:37` has the last three of 43 packets prefetched before
the batch of eight in front of them is executed, while the loop ends earlier and
executes all eleven in one group.

Met while modelling, with no line of the documentation against them: the arena
of `packets_pool_create` comes from `rte_` memory but `packets_pool_delete` uses
`free()`; the `drop_mbuf` that a fastpass is given for port 1 is in no pipeline
and never released.

## 4. Theorems

All hold for every value of the constants that satisfies the assumptions the
modules name: `SizesAssumption` and `WindowAssumption` (the first burst fits the
window: 256 against 16384), `BoundsAssumption`, `TxAssumption` and
`TxPoolAssumption` (the pool covers buffer and ring: 256 + 1024 against 16383),
`TxerAssumption`, `ScaleAssumption` (`sizeof(struct packet)` is more than two, so
that `packets_pool_at` puts the slot at which the fill is to end behind every
pool), `BurstAssumption` (a burst fits the window),
`DatapathAssumption` (the pipelines are built as `WellBuilt` says: one drop, at
the end, and batches of one up to a naive element), `RoutingAssumption` (the tables
below the first one index all bits of an address; a rule's prefix has no bits
behind its mask) and `LpmAssumption` (`lpm` holds the masks below that of the
first table, and those within a table below: 8 and 4 against three bits), and
those of `PrefetchLoop`, `Pipeline` and `Lifecycle` on their sizes and sets of
programs, kinds and wrappings. Of the elements they are `ByteAssumption` (a byte
has at least two values), `ContentAssumption` (a packet, and what
is read behind it, is in memory), `GarbageAssumption` (whatever a table holds
before it is used, it is numbers of its width) and `ElementsAssumption` (finitely
many flows, a hash and at most one entry of port 0 to 3 for each, groups and
tables that are not empty).

* `FllProofs!Invariance`, `TypeCorrect`, `InFlightIsBounded`. `InFlightBound`
  is not inductive: a step of the generator needs to know that the window it
  was given is honest, hence `WindowHonest`; that needs the same of every ack
  still on its way (`AcksHonest`), and, because a reset changes what the acks
  behind it are measured against, of every ack relative to every reset before
  it (`ResetsHonest`), for which messages must be in the order they were sent
  (`AcksOrdered`). `Conserved` turns the window into packets and `SlackBound`
  bounds what resets forget. `IInv` is their conjunction.
* `FllProofs!WindowImplemented`: `Spec => Credit!Spec`, step by step from the
  same invariant. `BurstInCredit` says that the burst computed before a poll is
  still covered when it is sent; `CreditBounded` is the guard of `Grant`.
* `FllProofs!LosslessInvariance`, `WindowNotOverrun` (`WithinWindow`),
  `WindowMovesOn` (`WindowNeverRetreats`). While no message is lost, the counts
  on their way rise from one message to the next up to the next reset
  (`CountsRise`), the first does not move the window back (`FirstAbove`), the
  last is no more than the receiver has counted (`LastBelow`), and the next
  burst still fits the window (`WindowKept`). The four together are inductive;
  none is alone.
* `FllProofs!WedgedStays` (`WedgedUntilRestart`): with or without loss, a
  generator without credit stays so until the receiver restarts, when nothing is
  on its way to either side. It needs the types and no more.
* `TxBufferProofs!Invariance`, `TypeCorrect`, `PoolNeverEmpty`,
  `InOrderOnTheWire`. `Fifo` is stated of a concatenation; its inductive form in
  `IInv` says place by place which packet is where, together with the count of
  packets and the conservation of mbufs. That the callback may overwrite the
  array it reads from is safe because the unsent packets move towards its front.
* `TxerProofs!TxerInvariance`, `TxerInOrder`, `TxerPoolNeverEmpty`: every step of
  the two programs is a step of the generator's buffer or leaves it alone
  (`StepOfBuffer`), so the buffer's invariant is one of the programs.
* `TxerProofs!TxerPoolOrder`: `InPoolOrder` for every size of pool and burst and
  every number of passes. `PoolInv` ties three things the code keeps apart: the
  batch that is left lies between the packets sent and `cur`
  (`BatchBeforeCur`), the packets sent went through the pool in turn
  (`TakenInOrder`), and the generator starts only after every slot was drawn
  (`AllDrawn`), which is where `ScaleAssumption` is needed.
* `TxerProofs!AckInvariance`, `TxerTypeCorrect`, `TxerNeverStuck`
  (`NeverStuckOnAck`). The receiver's buffer is another instance of `TxBuffer`, so
  its invariant is `TxBufferProofs` once more (`AckStep`). Why no ack is left
  behind is arithmetic: a message is refused only when the ring is full of
  `TX_DESC` others that were not looked at, and each of those is of one packet
  more than the one before it (`Messages`). What the generator may have sent when
  m messages were looked at is `Credit(m)`, with what the reset made the window
  forget (`Forgotten`); `Refused` says that at a refusal the packets processed,
  and a buffer of packets beyond them less what its NIC's ring can hold
  (`Buffered`), were within the credit of the messages before the ring's. When
  these get out, the credit grows by at least `TX_DESC` (`CreditGrows`), and the
  closed window of `StuckOnAck` contradicts it.
* `DatapathProofs`: all six invariants of the datapath, for every well built
  pipeline. Every step is, to the slots, a *move* of the first n of one pile (the
  ring, a buffer, a batch) to the end of another, or a fastpass's *split* of them
  to two (`Moves`, `Splits`, `MoveSteps`).
  * `Core`: types; a call that has returned has nothing left to take and a
    released element holds nothing (`Calls`); up to a naive element batches are of
    one (`Singles`). It needs nothing else and everything else needs it.
  * `SlotsNeverLost`, `QueueLengthRight`: moves and splits neither lose nor double
    a slot (`MovesConserve`, `SplitsConserve`). That what is given back fits the
    ring, where the code does not look at the result, is counting: places with
    different slots are no more than slots (`Room`).
  * `OrderKept`: the packets in the pipeline are in the order of arrival, the
    deeper in front (`InLine`), behind a fastpass only slow ones (`SlowBehind`),
    and what was dropped was allowed to leave before all that is still there
    (`DroppedFirst`). Moves and splits keep this whichever element makes them,
    because nothing lies between an element that works and the next
    (`NoneBetween`).
  * `RingSuffices`: between two bursts only buffers hold slots, so what is held is
    no more than the places of all buffers (`IdleRoom`). `ExitDrains`
    (`DrainedOnExit`): `Calls` leaves nothing in a released element, and `Accounted` says that what is not
    held was dropped.
* `ElementsProofs!ElementsInductive`, `ElementsTypeCorrect`, `EveryFormSameWork`
  (`SameWork`), `EveryPacketPassedOn` (`PassedOn`), `EveryTotalReported`
  (`TotalReported`): all 21 forms of an element, for every cut of the packets
  into batches. Their loops differ in how they pass over a batch, so what they
  have in common is said without a loop. A *job* names the flows a kind of element
  counts, those it routes, whether it sums, and those it takes for fast and for
  slow; `Did(job, e, e2, s)` says that between counters `e` and `e2` just that was
  done with the packets `s`. It goes on from one sequence to the next
  (`DidHands`), because how often a flow occurs in two sequences is the sum of how
  often it does in each (`JoinedConcat`). A loop over packets does the job of each
  turn on each packet, and a loop over the groups of the two-stage loop does it on
  each group (`FoldHands`), which cut the batch without a packet lost or taken
  twice (`GroupsAre`). So every form does the job of its kind on a batch
  (`MeasurementDid`, `RoutingDid`, `ChecksumDid`, `MergedDid`, `FastpassDid`), and
  `WorkDone` says that the element did it on all packets given (of `fastpass`, whose
  numbers are 32 bits wide, that its sum is what it should be but for the wrap).
  `ElementsInv` adds the types, that `base` is a table, `PassedOn` and `TotalReported`; `SameWork`
  is read off `WorkDone`. The port of a batch of a routing element is a sum that is
  at least the number of its packets of port 1 and twice that of those beyond
  (`PortsGrow`), handed on from packet to packet in the same way. For the total printed, the sum over a table grows by
  one with each packet, less `Wrap` each time a bucket wraps (`TableTotal`).
* `ElementsProofs!ChecksumRightHolds`, `EverySumRight` (`SumsRight`):
  `ChecksumRight` for bytes of every width and buffers of every length and
  content. `Same` is equality modulo the largest number of two bytes, in which a
  byte counts as in the one's complement sum: once in an even place, `Byte` times
  in an odd one. A word read from an even offset is the same as the sum of
  its bytes (`LoadIs`), a carry added back at the other end changes nothing
  (`CarryOn`), so after every word and every part of the tail the sum
  stands for the bytes read (`Stands`, `WordsStand`, `TailStands`), and the folds
  keep it while they bring it down to two bytes (`FoldDownIs`).
* `ElementsProofs!LoopInvariance`, `LoopTypeCorrect`, `EachPacketOnce`,
  `RestAlwaysFits`, `OverrunAlwaysExact` (`OverrunExactly`), `SplitStaysInOrder`. The loop invariant
  says what the window holds between turns (`WindowFetched`) and that the loop
  never leaves more than it fetched (`fetched = HalfWindow` or `fetched < size`),
  from which both the order of execution and the length of the rest follow;
  `HashesBound` counts the stores of each group, from above and, of a batch
  larger than a half, from below. For the split the counts of both
  arrays are the numbers of fast and of slow packets executed so far, and their
  contents those packets in order, which is carried from one packet to the next.
* `LifecycleProofs!Invariance`, `TypeCorrect`, `PortStaysLive` (`PortLive`),
  `ConsoleIsSafe` (`ConsoleReadsLive`), `ReleasedOnce` (`FreedOnce`). What keeps
  two threads without a lock apart is where each of them stands when the other
  frees: nothing but `main` runs before the launch (`AloneFirst`), it tears down
  only behind the worker, which first stops the console (`JoinedLast`), each
  program stays on its own path (`Whereabouts`), and what the console has looked
  up outlives the look (`ConsoleHolds`).
* `RoutingTrieProofs!Invariance`, `TypeCorrect`, `AlwaysConnected`
  (`Connected`), `FindsLongestMatch` (`LongestMatchIfPlaced`). The invariant ties
  the tables to the rules added: the way of each has its tables and what it
  covers has a port (`Reached`), what is in an entry was written for a rule that
  covers it (`FromRules`) and, as long as `lpm` has not wrapped, for one with the
  most bits of its mask in that table (`LeavesLeast`); a rule that wraps would be
  replaced by any shorter one, which is the disagreement of `RoutingLpm`. From
  the invariant the properties follow by arithmetic. `Pow2` is a recursive
  function and nothing about it is assumed: that it exists and multiplies
  (`PowExists`, `PowAdd`), that two addresses visit the same entry exactly when
  their bits down to it agree (`SameEntry`), and that a prefix that ends at the
  first entry of a table covers exactly what the addresses matching it visit
  (`CoversMatching`). A walk thus comes to an entry with a port at the depth of
  every rule that matches (`MatchIsHit`), and at the deepest of them finds a
  longest (`DeepestIsLongest`).

* `PipelineProofs!Invariance`, `TypeCorrect`, `AlwaysBuiltToDrop`
  (`BuiltToDrop`), `EditsKeepWayHolds` (`EditsKeepWay`). The invariant is small:
  only port 0 of an element ever changes (`Wired`), and while elements are only
  added it is that of the one made next (`Built`). The work is in the properties,
  which speak of the way the packets take. `InStep` says of each entry of the
  array that its port is that of the entry behind it; with the invariant it is
  the same as `Way = Listed`, in one direction by walking n steps
  (`InStepIsWay`), in the other because a way that is the array was cut short at
  its last entry (`WayIsInStep`). In a pipeline in step no two entries are the
  same (`NoneTwice`), so that connecting one changes no other, and each edit can
  be compared with `InStep` entry by entry: `AddStep` and `RemoveStep` directly,
  `InsertStep` from what the loop of `pipeline_element_insert` has done after n
  turns (`LoopInv`). Each says exactly when the edit crashes and exactly when it
  keeps the pipeline in step, so the exceptions that `EditsKeepWay` names are
  all there are, for pipelines of every size.

Induction over numbers is done inside the proofs: `SetInduction` says that a set
that holds 0 and the next of each of its elements holds all numbers, and is
proved from the least element of a set of naturals. The loops of `Pipeline` are
recursive functions about which nothing is assumed either: that the states of a
loop of n turns exist, and that what each turn keeps holds at the end, are
`Turns` and `TurnsKeep`.

`FoldLeft` and `MapThenSumSet` are recursive functions too, along a sequence and
over the subsets of a set: `FoldExists` and `SummingExists` show that they exist,
`FoldTurns` and `SummingAdds` what a turn of them does.

Only model-checked: liveness (`Completes`, `FlushReturns`, `Delivered`, `Ends`),
which is out of the prover's reach. Every other property of a passing run is a
theorem.

## 5. Not modelled

* what is printed: statistics, the latency histogram, the layout of the console;
* `murmur3` (third-party; an arbitrary function of the flow in `Elements`) and
  `zipf` (floating-point random numbers; an arbitrary draw in `Txer`);
* the parser of the routing file, and the recursive release of the trie: straight
  I/O, and a walk over the tables that `Connected` shows to be all reachable;
* process and file I/O of the jit runner, `memory.c`, `log.c`, the shell scripts
  (read for the pipelines they build) and DPDK beyond what the code relies on.

`Fll` takes NICs that accept what a flush offers, and `Txer` a cable that loses
nothing: the two faults are not combined in one run.

## 6. Plan

The plan is done but for one model: `Fll` and `Txer` composed, with loss and full
NICs together, and the smallest window for which `Completes` still holds.
