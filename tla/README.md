# packet-audit in TLA+

packet-audit is a passive sensor: it captures frames on one host, reassembles the
conversations in them, detects credentials and other sensitive values in clear text,
and appends what it finds to an evidence file.  Its README promises two things above
all: memory is bounded everywhere, and loss is never silent (a session that lost
anything says `verdict: incomplete`).  This directory models the parts of the program
that carry these promises, checks them with TLC on small instances, and proves most of
the safety properties with TLAPS for every instance.

Paths below are relative to the repository (`src/`); `supervisor.py` and the other
Python files are those of `packet_audit/`.

## 1. Inventory

One supervisor process runs the capture loop.  It spawns `workers` analysis processes
and one writer process, and optionally supervises a `dumpcap` ring.  All communication
is through `multiprocessing` queues and a few shared counters.

```
 libpcap --> CaptureSource --> AuditSupervisor --[worker_queues]--> worker_process (n)
                                 |   ^    ^                            | fragments, TCP,
                                 |   |    '------[control_queue]-------|  detectors
                                 |   '-----------[control_queue]---.   |
                                 '--[operational_queue]--> writer_process <--[finding_queue]
                                                                 |
                                                   findings.jsonl, operations.jsonl
```

| Component | State it keeps | Operations | Correct when |
| --- | --- | --- | --- |
| Dispatch queues (`supervisor.py` `_dispatch_batch`, `worker.py` loop) | per worker: a bounded queue, a shared byte counter, a shared batch counter; packet counters | reserve, put, roll back, wait (replay), take, analyse, release, die, replace | the counters say exactly what is in memory; every packet is in one counter; a replay loses nothing |
| Flow routing (`supervisor.py` `_route`) | two LRU tables: fragment routes, flow overrides | route, evict, expire | a flow stays on one worker, or a counter says why not; tables bounded |
| Session lifecycle (`supervisor.py` `run`) | phase, child handles, last reports, restart history, incompleteness reasons | start, await, read, check children, replace, stop, join, conclude | `complete` is true; the session ends; nobody is left behind |
| Worker process (`worker.py`) | the reassembly tables and detectors, counts for its reports | take, analyse, heartbeat, flush, report, fail | every packet accounted for in its last report |
| Writer process (`writer.py`) | two open files, digest, stop flags | drain, write, sync, close, report | each record once; durable before it is acknowledged |
| TCP reassembly (`reassembly.py` `TCPReassembler`) | flows in LRU order; per direction: next position, queued segments, consumed history | process, expire, evict, flush | first bytes win, each byte once, in order, gaps visible, budgets hold |
| Fragment reassembly (`reassembly.py` `FragmentReassembler`) | datagrams in LRU order, bounded in datagrams, bytes, ranges and identifiers | process, expire, evict | a datagram is delivered once, when it is whole and not ambiguous; no loss uncounted |
| Forwarded duplicates (`forwarded_duplicates.py`) | recent observations, bounded | plan, commit, discard | only a packet whose first copy was really dispatched is suppressed |
| Capture sources (`capture.py`) | handle, end-of-file flag, statistics | read batch, statistics, close | truncated input is reported, not taken for the end |
| Detectors (`detectors.py`, `ntlm_wrappers.py`, `socks5.py`, `cleartext.py`) | retained stream suffixes, correlation tables, deduplication | feed chunk, expire | retention bounded; a gap breaks correlation |
| HTTP and MQTT framing (`http_forms.py`, `http_transfers.py`, `mqtt.py`) | per-stream framer state | feed chunk, resynchronise | body lengths and packet boundaries followed, bounded |
| Evidence file and dashboard (`writer.py`, `dashboard.py`) | the JSONL file; a cursor | append after a crash, page | no record glued to a partial one; no record skipped |
| Raw ring, watchdog (`raw_capture.py`, `service_watchdog.py`) | child process; notification interval | start, poll, stop; notify | failure shows in the verdict |
| Packet parsing, configuration, CLI, scripts | none that lasts | decode, validate | (stateless) |

What is hard here, and what the properties are for (each item is in `PROJECT.json`
under `hazards`, at its line):

* *Two processes, two locks, one batch.*  Byte and batch reservations are separate
  critical sections; dispatcher, worker and death interleave between them.
* *A killed process runs no `finally` block.*  What it held stays reserved, what it
  had not fed to a pipe is gone, and its replacement shares queue and counters.
* *Last report wins.*  `worker_reports` keeps one report per process; a heartbeat
  overwrites `ready`, a replaced process keeps its own totals.
* *Deadlines race with answers*, at six places of the startup and the shutdown.
* *Everyone waits on everyone*: worker on a full finding queue, writer on its stop
  markers, supervisor on both.
* *Sequence numbers wrap; segments overlap, contradict each other and leave gaps*, and
  byte counters are kept incrementally on five paths.
* *Caches keyed by less than the flow*: an IP identification is reused.
* *A plan made before its outcome*: a forwarded copy is suppressed for a frame that may
  yet be refused by the queue.
* *A file that is read while it is written, cut short by a crash, or replaced.*
* *Bytes scanned more than once*: a detector must find a token cut anywhere, once, with
  the packets it came in, out of tails and tables that six limits shorten at any call.

## 2. Modules

| Module | Models | Lines of the code |
| --- | --- | --- |
| `WorkerQueues` | dispatch queues | `supervisor.py` `_dispatch_batch`, `_check_children`; `worker.py` main loop |
| `FlowRouting` | flow routing | `supervisor.py` `_route`, `_remember_flow_override`, `_expire_fragment_routes` |
| `TcpStream` | one direction of a TCP connection | `reassembly.py` `_unwrap_sequence`, `_tcp_uncovered_segments`, `_drain`, `_skip_to_next_segment`, `_flush_direction`, `_remember_consumed` |
| `TcpReassembly` | the flow table on top of it | `reassembly.py` `process`, `expire`, `flush_all`, eviction |
| `Session` | supervisor, workers, writer and ring through one live session | `supervisor.py` `run` and what it calls, `worker.py`, `writer.py` |
| `FragmentReassembly` | IP fragment reassembly | `reassembly.py` `FragmentReassembler`, `_uncovered_byte_ranges`, `_merge_adjacent_byte_ranges`, `_has_conflicting_overlap` |
| `ForwardedDuplicates` | the suppressor of forwarded copies and its use by the dispatch | `forwarded_duplicates.py`; `supervisor.py` `_dispatch_batch` |
| `RecordLog` | what an evidence file promises (abstract) | |
| `EvidenceLog` | evidence file, writer, faults, dashboard and browser; implements `RecordLog` | `writer.py` `_restricted_text_append`, `writer_process`; `dashboard.py` reader and page script |
| `DetectorState` | what a detector retains, and the operations that bound it | `detectors.py` `_FlowState`, provenance, NTLM entries, `_drop_flow`, `_enforce_retained_cap` |
| `Detector` | `process_stream` and `expire` on top of it | `detectors.py` `_merge_stream`, `_scan` and its gates and windows, raw NTLM, USER/PASS, `_emit`; `ntlm_wrappers.py` |
| `WorkerQueuesProofs`, `FlowRoutingProofs`, `SessionProofs`, `FragmentReassemblyProofs`, `ForwardedDuplicatesProofs`, `EvidenceLogProofs`, `TcpReassemblyProofs` | theorems | |
| `SumTheorems` | lemmas about sums over finite sets that the proofs share | |
| `MC...` | values for TLC, one per model | |

`map` in `PROJECT.json` gives the lines of every definition.  Operators commented
`Mutant:` are plausible wrong versions of the definition below them; they are never
used in a specification, and show that the properties can fail.

### WorkerQueues

`pc` is the place of the capture process in its loop (`read`, `dispatch`, `count`,
`put`, `undoBytes`, `undoBatch`, `check`), `wpc` the place of each worker.  One step
is one critical section: `ReserveBytes` is test and increment under the byte counter's
lock, `CountBatch` the increment under the other one, `PutBatch` the put, and so on
for rollback and release.  `Released` has the code's clamp at zero.  A worker leaves
by an exception (`FailOnPacket`: the `finally` block runs) or is killed (`Kill`: it
does not).  `CheckDeadWorker` and `ReplaceWhileWaiting` are the replacement of a dead
worker, which may itself fail with the new process started or not; `CheckRaises` is every
other way in which a check of the children ends the loop (a dead writer, a stale
heartbeat, a lost ring).  `offline` tells a replay, which waits for room, from a live session, which
drops; it is chosen in `Init` and never changes.  `leakedBytes` and `leakedBatches`
are history variables.  Packets are counts; the session's packet counters are split by
shard.  Peak values and the forwarded-copy suppressor (off by default) are left out.

### FlowRouting

A table is a function from keys to entries with the time of the last use; because
entries are re-inserted on use, dictionary order is time order and `Oldest` is
`next(iter(table))`.  Flows, fragment keys and the stable hash are constants.
`usedShards` and `idReused` are history.

### FragmentReassembly

The bytes of a fragment are one value, so a datagram's ranges are a function from
positions to values; the code keeps them disjoint and merges adjacent ones, so its
ranges are the maximal runs of the domain (`Runs`).  A call of `process` is one of
`RejectMalformed`, `RejectConflict` and `Accept`; the last one merges, enforces the
limits (`Victims`) and returns or drops the datagram in the same step.  Every call has
a clock value of its own, so the order of the table is the order of the stamps, and
`Oldest` is both what eviction takes first and what the expiry scan meets first.  Every
fragment has a packet identifier of its own, so provenance is a count.  `created`,
`delivered`, `last` and the field `said` are history.  Left out: peaks, capture
timestamps, the decoding of the returned datagram, and `expire` with a capture clock,
which no caller passes.

### TcpStream and TcpReassembly

A segment is an interval of unwrapped positions with one value that says which packet
the bytes are from; two packets disagree where values differ.  The three drain
functions of the code differ only in how far they go, so `Chunks` and `Advance` take
the stopping position.  `Process` composes the stages of `process` (new connection,
touch and evict, acknowledgement, anchor, payload, close) and a `Receive` step is the
whole handler, eviction included.  The modulus of the sequence space is a constant, so
that streams wrap within a few packets.  Left out: packet identifiers and spans
(provenance), capture timestamps, peak counters, and `expire` with an explicit capture
clock, which no caller passes.  `received`, `first` and `stats.keepalive` are history.

### Session

`phase` is where `run()` is.  `late` is the passed deadline of the current wait, which
may be raised at any time; `Raise` enters the `finally` clause.  The startup is one step
per child: `SpawnWorker` is one round of the list comprehension in `_start_workers`, and
since a comprehension assigns `self.workers` only at its end, the list that the cleanup
walks is empty until the last spawn succeeded (`Listed`).  `StartupFails` is possible at
every step of the startup, `CleanUpRaises` and `ShutdownRaises` are the exceptions that
cut the cleanup or the shutdown short.  `terminate()` and `join(timeout=2)` leave a
process that is gone or one that is `doomed`: it got SIGTERM, does nothing more, and dies
later (`WorkerDies`, `WriterDies`) or not before `run()` ends.  `inbox`, `findingQ`
and `operationQ` are the pipes; `slots` is the semaphore of `finding_queue`, taken by
a producer before its feeder thread writes (`buffer`), so a kill can lose a finding
that `put` accepted *and* its slot.  `sent` holds the last report of every process, which
is all `run()` can know after it has drained `control_queue`; a report is atomic with
its put, because the report queue is never full and a process joins its feeder before
it exits by itself.  Every action of the supervisor that emits telemetry contains
`Operation`, every one of a worker `Emitted`: both leave open whether `operational_queue`
had room, and keep what the code's drop counters tell; the constants `RunDrops` and
`Droppers` restrict in a run who may meet a full queue.  A stale heartbeat, a failing source
or an unreachable service manager are nondeterministic outcomes of the step that looks
at them.  A batch is one packet with at most one finding.  Replays, the suppressor and
later heartbeats (they repeat the first one's effect) are left out.

### ForwardedDuplicates

A packet is its place in the order of dispatch, with the datagram's key, hop count and
checksum.  `Begin` starts the plan of a batch (and sweeps the cache), `Plan` handles one
packet, `Admit` and `Refuse` are the two outcomes of the queue, with the commit and the
failure path of `_dispatch_batch`.  The checksum arithmetic is kept, in one's complement
with a smaller word.  The capture times of a batch may lie before those of the batch
before it, as the batches of different shards do.  Not included: the path of `_dispatch_batch` on which a replay is
stopped or a child fails in the middle (`except BaseException`).

### RecordLog and EvidenceLog

The file is a sequence of bytes, so that a write can be cut anywhere: `WriteLine` and
`WriteRest` put as many bytes as the kernel takes, `KillWriter` and `FailHost` leave a
prefix.  A session opens only an empty file or one that ends with a newline
(`AppendReady`); otherwise the operator puts it aside (`MoveAway`).  `AnswerPage` is one
request to the dashboard: the window from the cursor, the lines in it, a limit of
records, the oversized and unreadable lines that are skipped, and the reset of a cursor
that does not fit the file; `Receive` is the page's script, which keeps at most `MaxRows`
rows of at most `MaxChars` characters together (`Retained`).

`Promised == INSTANCE RecordLog WITH ...` maps the whole lines of the file to `log` (the
line end of rank k gives the k-th record, see `Ranked` and `RecordAt`) and the lines
counted by a `stopped` report to `kept`; `ImplementsRecordLog` says that every
step of the file is one of the log: a record is appended whole, a failure takes records
from the end and none that was reported durable.  A partial line is a stutter.

### DetectorState and Detector

A call of `process_stream` makes dozens of changes and nothing runs in between, so the
detector is one record and each method an operator from one to the next; `ProcessStream`
composes them (`FlowState`, `MergeStream`, `Scan`, `RefreshPendingAuth`,
`EnforceRetainedCap`).  A stream is a sequence of cells, of which constants say where
tokens stand; since the bytes at an offset never change, a tail is an interval with, for
every cell, the packet whose span names it.  Two of a dozen scanners are modelled, the raw
NTLM scanner (with SMB2 sessions, and responses that wait for challenges) and the USER
and PASS lines; an NTLM negotiate message is never decoded, so that its signature keeps
`ntlm_pending` set; the others share gate, cursor, window, high-water mark and provenance.
`found` and `sent` are history.  A chunk comes from reassembly, so it never goes back behind
what the tail holds (`EmittedOnce` of `TcpReassembly`); without this a late chunk would
replace the tail.

## 3. Runs

| Run | Instance | Shows |
| --- | --- | --- |
| `worker_queues` | one worker, 1 slot, 5 bytes, batches of 1 and 3 bytes, 4 reads, 2 deaths; live and replay | counters reconcile with memory; memory within budget; packets accounted for; a bound on outstanding batches; no loss without a death; replay drops nothing; liveness of release and of waiting |
| `worker_queues_stuck` | replay, 2 reads, 1 death | **violation**: a leaked reservation leaves a replay waiting forever |
| `flow_routing` | 2 flows, 2 shared identifications, tables of one entry, 6 ticks | tables bounded; a split flow is explained |
| `fragment_reassembly` | 14 fragments of 3 datagrams, room for 2, 6 ticks | returned datagrams are unambiguous; whole ones are not kept; counters and limits; losses counted |
| `tcp_overlap` | one direction over the wrap, 21 packets, 4 steps | once, first bytes, prompt, offsets, no hidden gap |
| `tcp_lifecycle` | 3 flows in a table of 2, both directions, SYN, keepalive, FIN, RST, gaps, all limits, 5 ticks | bytes conserved; counters; limits; expiry scan |
| `session` | one worker, 1 packet, 1 death anywhere, replacement, raw ring | `complete` is true; no finding twice; a verdict is reported, unless a stop meets a replacement; a stop request and a dead writer end the session |
| `session_children` | two workers, 1 death, replacement, a required ring, an operational queue that may be full for every record of `run()` and of one worker, no traffic | when `run()` ends no child was forgotten; `complete` means that nobody dropped an operational record |
| `forwarded_duplicates` | 4 packets of an IPv4 and an IPv6 datagram, cache of 2 entries, 2 moments, admission and refusal at will | a suppressed copy has an original that was analysed, and is what forwarding makes of it; each packet is analysed, suppressed or dropped, once; the cache and its counters |
| `evidence_log` | 3 lines out of four records of three lengths, one unreadable, a window of 4 bytes, one fault, one move | the file implements `RecordLog`; the browser shows what is in the file; it catches up |
| `detector` | 3 flows in room for 2, 12 tokens, 18 chunks, 4 calls, every limit within reach | totals reconcile; tokens found once; responses accounted for; provenance true |
| `detector_pairing` | one flow far from every limit, 4 chunks | **violation**: a response paired with a later challenge |

Why the bounds are enough for the interesting cases:

* `worker_queues`: with one slot, three batches put one in the worker's hands, one in
  the queue and one in the dispatcher's (the limit `QueueSize + 2`), the fourth would
  exceed it.  Two large batches exceed the budget while one large and two small ones
  fit exactly.  Two deaths let a replacement die too.  Workers share no counter, so the second
  one adds no interference except the dispatcher's order, which the theorems cover for
  every number of workers.
* `flow_routing`: one entry per table makes every second key evict; two flows with
  both identifications cover every sharing; six ticks exceed both idle times.
* `fragment_reassembly`: each of the four limits is exceeded alone in some state, the
  limit per datagram too; a fragment can evict two datagrams, or its own; the last
  fragment comes first, between and last, and ends before bytes that are already
  there; the contradiction starts inside a range, not at its start.
* `tcp_overlap`: five start positions on both sides of the wrap, two lengths and two
  values make every overlap shape (inside, across, left, right, equal), in any order.
  `FirstBytesWin` compares numbers on the wire, so it holds for streams shorter than
  the sequence space; the modulus 32 leaves room for that.
* `tcp_lifecycle`: the byte budget equals the limit of one direction, as the
  configuration allows at the least, so that both directions of one flow exceed it, and
  a flow that queues nothing can be the oldest: one eviction is then not enough.
* Session runs: one queue slot and one finding slot make every put contended.  The restart
  limit is 2, so that the first death of a worker is replaced; a second one would raise,
  as a replacement that does not start does.  One packet is enough to fill the queue that
  the stop marker must enter, to be lost in the worker's hand, in its feeder or in the
  pipe, and to be found twice; the safety properties are proved for any number.
  `session_children` has two workers, because a startup that fails half way needs a worker
  before and one after; the death may hit either, or the writer.  Packets would add
  nothing to its two properties: every record about one also marks the session.
* `forwarded_duplicates`: four packets are an ingress, its copy, a second ingress of the
  same key and one that evicts; the checksums include the one whose sum carries.  Two
  moments further apart than the age let an entry expire.
* `evidence_log`: the lines are shorter than, equal to and longer than what a window can
  hold, and pages of one record make every page end inside the file.  Both limits of the
  browser are reached, the one on rows and the one on characters, each without the other.
* `detector`: chunks cut tokens at each cell, overlap, and are smaller, as large as and
  larger than the tail.  Every loss counter of the model is raised in some state except
  the saturation of the metadata table, which the code calls defensive.  Deadlock is not
  checked: traffic may end after any chunk.

### Fairness

`WorkerQueues!FairSpec`: weak fairness of each worker's own steps (a live process is
scheduled; its analysis of a packet ends) and of the dispatcher inside one iteration.
No fairness of `ReadBatch`, `RequestStop` or any death.

`Session!FairSpec`: weak fairness of the supervisor only, deadlines included (they are
wall-clock times).  Children may hang: `SessionEnds` and `WriterFailureHalts` hold even
so.

`EvidenceLog!Spec`: weak fairness of `Poll`, since the page asks every two seconds and the
dashboard answers.  The writer owes nothing; replies are lost only as often as the bound
says, and `ViewerCatchesUp` is about what follows.

## 4. Findings

1. *A replay can wait forever* (`worker_queues_stuck`).  The comment above the waiting
   loop says that checking child health prevents it.  The killed worker is replaced,
   but its reserved bytes are never given back; a batch that needs them waits with all
   workers idle.  For the same reason the outstanding batches can exceed the maximum
   that the health record reports.  Without a leak the wait ends
   (`ReplayProgressWithoutLeak`) and the limit holds (`OutstandingWithoutKill`).
2. *An NTLM response is paired with a challenge sent after it* (`detector_pairing`).
   `_correlate_ntlm` accepts only challenges that are not younger than the response, but
   a token gets the time of the chunk in which it is scanned.  An incomplete token of the
   same direction (`ntlm_pending`) widens the next window to the whole tail, the waiting
   response is decoded again with the new time, and a challenge that arrived in between
   fits.  The pair is reported as confirmed, and the queued copy of the response remains,
   to be counted as unmatched.  The trace has four chunks and was reproduced with the
   code.

Also seen, as limits written into a property or outside the models:

* *A flow can move between workers unseen.*  Fragment keys have no ports, so a second
  flow between the same hosts that reuses a live identification is sent after the
  first, and none of the three routing counters says so (`idReused` in
  `SplitIsExplained`), although README.md calls the affinity "loss-visible".
* *A stop during a replacement leaves no verdict.*  The shutdown is complete and the
  reasons are collected, but `KeyboardInterrupt` continues out of `run()`, and the CLI
  exits with 130 and no report (`VerdictUnlessInterrupted`); the verdict would never have
  been `complete`.
* *A failed spawn leaves the earlier workers running.*  The docstring of
  `_startup_failure_cleanup` says that it stops "already-created children".
  `_start_workers` assigns `self.workers` from a list comprehension; if a later spawn
  raises, the list is still empty, nobody is joined or terminated, and `run()` raises with
  the earlier workers alive: the exception for `~Listed` in `NoChildForgotten`.  They find
  a stop marker in their queues and leave if they can, but one that hangs is never
  terminated.  Reproduced with the code, with a second spawn that raises `OSError`.
* *A token can be lost at a seam.*  `_merge_stream` trims the tail before the scan.  A
  chunk that is nearly as long as `overlap_bytes` (and not longer) and completes a token
  pushes the token's beginning out, and no counter is raised: `CutByTrim` in
  `TokenFoundOnce`.  With the smallest permitted `detector_overlap_bytes`, 4096, a chunk
  of 4000 bytes does it; reproduced with the code.
* The dashboard recognises a new file by its inode or its size.  A file that a host
  failure cut at a line end and that grew past the cursor again before the next request
  is taken for the old one (`rewound` in `ViewIsFaithful`).
* Linux writes the checksum 0x0000 for a forwarded packet where `forwarded_duplicates.py`
  computes 0xFFFF (ingress checksum 0xFEFF): that copy is analysed twice.
* The comment above the metadata limit says that a flow has a fixed vocabulary; the
  scopes of NTLM pairs contain the SMB session and are not fixed.
* `EvidenceLog` assumes that a new file's directory entry survives a host failure; the
  code does not sync the directory.

## 5. Proofs

Each theorem holds for every value of the constants that satisfies the assumption of the
module, which the constructors and the configuration check of the code justify.  Where a
run checks the same formula, its name is in `PROJECT.json` under `theorems`.

The prover cannot instantiate an induction theorem.  `SumTheorems` gets round this for
sums: `FiniteSetTheorems` states without a parameter that the strict subsets of a finite
set are well founded, so a set of counterexamples has a minimal member, and removing one
element of it is the induction step.  From this follow the equations of
`SumFunctionOnSet` (a term added, removed, replaced; a sum split in two; shifted along a
sequence) and the least element of a bounded set of integers, which serves as induction
over numbers in the other modules.

`WorkerQueuesProofs` assumes only `WorkerQueuesAssumption` (at least one worker and one
slot; batches have at least one packet and a natural number of bytes).

* `TypeCorrect`: `TypeOK`.  Its inductive form `TypeInv` adds that the dispatcher has a
  real batch between reservation and put, and that a worker in its loop has a packet
  left, without which `left - 1` leaves the naturals.
* `BatchesAlwaysReconcile`: the batch counter is the sum of its four parts.  The
  equation is inductive together with `TypeInv`; it also shows that the clamp at zero
  never acts, because what is released is one of the summands.
* `OutstandingBounded` follows: the queue has at most `QueueSize` batches (an
  invariant of its own), the hand and the dispatcher at most one each.
* `PacketsAlwaysReconcile`: needs that shards already served in this read have nothing
  pending (`ServedShards`), so that a new read does not overwrite a batch.
* `BytesAlwaysReconcile`: the same balance for bytes, with the bytes of a queue as a sum
  over its places; the budget follows because a reservation tests the counter, which is
  never below what is in memory.
* `LossAlwaysNeedsDeath`: `Followed` says that what was dispatched to a worker is at
  least what it analysed, has queued and has in hand, with equality before any death.
* `ReplayNeverLoses`: from the above and `ReplayWaitsForRoom`, which says that a replay
  rolls an admission back only to raise, and drops only a batch that can never fit.

`FlowRoutingProofs` assumes only that the hashes map into the workers.

* `RoutingTypeCorrect`: every entry names a worker.
* `RoutingSplitIsExplained`: the inductive invariant `FollowsHash` says that as long as
  no fallback was counted and no identification reused, every route of a flow, every
  override and every used worker is the flow's hash.  Evictions and expiry only remove
  entries and keep it; this is why they alone never split a flow.
* `RoutingTablesBounded`: the tables are finite and within the limit, and whoever inserts
  has made room: the eviction removes at least one entry because a finite table with
  numbers for time stamps has an oldest one.

`SessionProofs` assumes `SessionAssumption` (at least one worker, one slot in each queue,
one restart).

* `SessionTypeCorrect`, `SessionForgetsNoChild`, `SessionVerdict` rest on `ControlInv`:
  for each phase, which children have been joined or got SIGTERM (`Reaped`); that an
  interrupt is possible only during a replacement, which has marked the session
  (`Interrupted`); and for the workers of an unfinished spawn, that their inboxes are
  empty before the cleanup, so that the marker fits, and that from then on a worker has
  the marker before it, has taken it or is gone (`Told`).  Two exceptions are part of
  the statement: these workers, and a shutdown or cleanup that an exception cut short
  (`abandoned`).
* `SessionWritesOnce`: a packet and its finding move through places (inbox, hand, held,
  feeder buffer, pipe, file).  `PlaceInv` says that no packet is in two places or twice
  in one; every step moves one from the head of a place to the end of another, drops
  one, or adds a new one, and one lemma for each shape (`MoveUnique`, `DropUnique`,
  `FreshUnique`...) shows that it stays so.
* `SessionCompleteIsTrue`: `CompleteInv` joins both with what holds while nothing is
  marked incomplete (`Unmarked`): nothing dispatched or found is missing, unless a worker
  has an error or failed, which the reports will show; that a clean exit has flushed its
  feeder; and that a stop mark is the last item of its queue (`EndsInv`), so a writer that
  saw both has seen everything.  The sums of the workers' reports enter through
  `SumTheorems`.
* `SessionCompleteDroppedNothing`: a worker's drop counter only grows, and its last report,
  made after its last record, has it; a session that is not marked has replaced no worker,
  and the verdict adds up the counters of the reports and of the supervisor.

`FragmentReassemblyProofs` assumes `FragmentAssumption` (positive limits, as the
constructor demands; offsets and lengths are naturals; what is not a fragment does not
get here).

* `ReturnsWhatWasSaid`: `Unambiguous` is about the last datagram only and not
  inductive.  `AllSound` says of every datagram in the table that it holds exactly what
  its fragments said, that it knows whether it has byte 0, and that its end is not 0.
  The conflict test is what keeps the first part when a fragment is merged.
* `ReturnsWhenWhole`: from `AllSound`, a whole datagram has its first fragment; it is
  then complete or overrun, and both leave the table in the same call.
* `EveryLossCounted`: with a finite table, a discard makes it smaller by exactly the
  keys discarded; victims are keys of the table, and a datagram that is complete or
  overrun is not a victim and never both.
* `MemoryStaysBounded`: the three counters are sums over the table (`Holds`), a discard
  takes the sum over its keys away, and the victims of a call are enough (`Fits`),
  because giving up all datagrams up to now leaves an empty table (`Timed`), so that a
  least moment exists that suffices.

`ForwardedDuplicatesProofs` assumes `DuplicateAssumption` (a unit smaller than the word;
positive limits).

* `CopiesHaveOriginals`, `CopiesAreForwarded` and `PacketsCountedOnce` are read off one
  inductive invariant, `Inv`: suppressed pairs are distinct, ordered and genuine
  (`SkipInv`); only admitted ingress packets are in the cache, and none that is used up,
  except those the current plan uses (`CacheInv`); a plan splits its batch into what is
  kept and copies whose originals are in the cache or in what is kept (`PlanInv`); and
  the counters are the sizes of these sets (`CountInv`).  That the incremental checksum
  is the checksum of the new header is `CarryIsModular`.

`EvidenceLogProofs` assumes `EvidenceAssumption` (a line has a byte and a newline).

* `EvidenceIsRecordLog`: the step simulation of `RecordLog`.  The rank of a line end does
  not depend on the bytes after it (`RankedPrefix`), so the records of a prefix of the file
  are a prefix of its records (`RecordsPrefix`): this gives `Lose`, and with the last byte
  of a line `Extend`; fewer bytes are a stutter.  `Inv` says that a live writer stands after a
  whole line or within one of which the file has exactly the beginning, and that the lines
  a `stopped` report counted end within what fsync covered.  `AppendReady` is what makes
  the first part true again after a kill.

`TcpReassemblyProofs` assumes `TcpStreamAssumption` (an even sequence modulus, some
history) and `TcpReassemblyAssumption` (positive limits, sequence numbers within the
modulus, natural lengths); nothing about which packets arrive, in which order, or how long
a stream is.

The actions are whole calls, and the intermediate states of a call violate what holds
between calls: a queue is over its limit before the skip, the table over its budgets before the evictions.
So the invariant comes in layers.  `Core` holds between any two stages of `process`: keys
in order of activity (`Keys`, `Timed`), counters equal to the queues (`Counted`), an epoch
belongs to one flow (`Epochs`, `Labelled`), all queued bytes and the next position lie
beyond what was handed out (`Behind`), outputs of a direction are ordered and keep their
distance to the sequence numbers (`InOrder`), and as long as no gap was marked the
offset is the sum of what was handed out (`Joined`).  `Tidy` adds that every direction is
drained and within its own limits, `Good` that a flow closed on both sides is gone.
`Inv` is `Good`, the limits of the table, and that the payload received equals the
`Balance` of the table.  TLC also
finds no violation of `Inv` on the instances of the two TCP runs.

One lemma per stage of the code says which layers the stage needs and leaves and how it
changes the balance (`EmitStage` for `_drain`, `_skip_to_next_segment` and
`_flush_direction`; `RemoveStage`, `EvictStage`, `BudgetStage`, `TouchStage`,
`AnchorStage`, `AcceptStage`...), and `ProcessStage` composes them.  Below them are lemmas on
the pieces a segment leaves of itself when old ones are cut out (disjoint, and as many
bytes as the segment has uncovered), on the contiguous runs of a queue, and on the sorted
sequence of a finite set.  `CloseStage` needs that the flow was open on one side
before (`OneOpen`), because the code tests both sides after every packet: one without FIN or RST then retires nothing.

* `QueuesWait`, `ExpiryComplete`, `BudgetsHold`, `NothingEmittedTwice`, `OffsetsInStep`,
  `GapsAreMarked` and `NoPayloadLost` state `PendingWaits`, `ExpiryFindsAllIdle`,
  `BudgetsReconcile`, `EmittedOnce`, `OffsetsFollowSequence`, `NoHiddenGap` and
  `PayloadConserved`; each is read off `ReassemblyInvariant`.  `PendingWaits` is proved only;
  no run repeats it.

Only model-checked:

* liveness (`EventuallyReleased` and the other temporal properties under fairness), and
  what needs `ENABLED`: out of the prover's reach;
* `CacheReconciles` of `ForwardedDuplicates` and `ViewIsFaithful` of `EvidenceLog`: they are
  about `SelectSeq`, a recursive definition over sequences;
* `FirstBytesWin` and `PromptDelivery` of `TcpReassembly`: they name bytes by their
  sequence number and hold only for streams shorter than the sequence space (a longer one
  carries two bytes with one number).  The theorems about order, gaps and balance do not
  depend on the length of the stream;
* `DetectorState` and `Detector`: every eviction and every scan is a fold of an operator
  over a sequence, and what a fold computes needs induction with an operator parameter.

## 6. Plan

1. `CaptureSource` (`capture.py`): end of file, truncated files, statistics.
2. HTTP and MQTT framers behind one stream of chunks, and the datagram path of the
   detector.
3. An abstract byte stream that `TcpReassembly` implements under a refinement mapping;
   `InOrder` and `Joined` of `TcpReassemblyProofs` are the facts it needs.
4. `RetentionReconciles` of `Detector` as a theorem, with the evictions restated as the
   least prefix of victims that suffices, as `FragmentReassembly` does it, in place of
   folds.

## 7. Not modelled

Regular expressions and protocol grammars over bytes, packet decoding and key building
(stateless functions of byte strings whose outcomes are choices here); of the detectors
the scanners other than raw NTLM and USER/PASS, datagrams, and the limit on packet
identifiers per finding; HTTP and MQTT framing; capture sources; configuration
and command line; installation scripts and units; libpcap, dumpcap and systemd, which
appear as the outcomes the code handles.
