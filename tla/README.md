# TLA+ models of XDP2

XDP2 is a C library, an optimizing parser compiler and a set of protocol definitions for programmable datapaths. This
directory keeps TLA+ specifications of its stateful parts, the TLC configurations that check them on small instances,
and TLAPS proofs. Source paths are relative to `src/src/`; `PROJECT.json` maps every definition to the lines it models,
and lists the hazards of the code with the properties that cover them.

Run a model with `tlc -config <run>.cfg <module>` and check proofs with `tlapm <module>.tla`, where the modules with
theorems are those named `...Proofs`.

## Inventory

| Part | State | Operations | What makes it hard | Module |
|---|---|---|---|---|
| FIFOs and poll groups (`include/xdp2/fifo.h`) | ring and full flag, ready and mask bitmaps, bindings, sleepers | enqueue, dequeue, poll, bind, unbind, enable, disable, signal | ready bits and signals change outside the FIFO mutex; wakeups reach one sleeper | `FifoRing`, `Fifo` |
| Timer wheel (`lib/xdp2/timer.c`) | slots, slot bitmap, next expiry, last run, running flags | add, change, remove, run, timer thread | callbacks run without the mutex inside a scan; time wraps; timers are freed | `Timer` |
| Object allocator, address translation (`lib/xdp2/obj_allocator.c`, `addr_xlat.h`) | free list in the objects, count | alloc, free, index to object and back | processes see the memory at different addresses; owners overwrite links | `ObjAllocator` |
| Accelerator pipelines (`lib/xdp2/accelerator.c`) | pipes, what handlers keep, error | run, first, intermediate and last stage, drain | partial reads and writes at the wrap; end of input; errors | `Accelerator` |
| Parse engine (`lib/xdp2/parser.c`) | current node, offsets, counters, frames, TLV lists | node, TLVs, flag-fields, arrays, special nodes; fast engine | unsigned lengths, nesting, limits, two engines that must agree | `Parser` |
| Dynamic tables (`lib/xdp2/dtable.c`) | two lists of entries, list of tables | create, add, delete, change, lookup | both lists kept by different searches; automatic identifiers | `DTable` |
| Packet vectors (`lib/xdp2/pvbuf.c`, `include/xdp2/pvbuf.h`) | trees of io vectors, lengths, references | prepend, append, pop, pull-up, copy, checksum, clone, segment, free | recursion, cached lengths, shared buffers, failing allocations | `PVbuf` |
| References to packet buffers (`include/xdp2/pvbuf.h`) | counts, tags of io vectors | allocate, share, convert, free, write in place | threads that share a buffer | `Pbufs`, over `ObjAllocator` |
| Bitmaps (`include/xdp2/bitmap*.h`) | words | find, rotate, shift, and, or | word boundaries | not modelled |
| Virtual structures (`lib/xdp2/vstruct.c`) | none | computes layouts | alignment, nesting | not modelled |

The parts interact as follows. Packet vectors and applications take memory from object allocators, which may lie in
shared memory and then store relative pointers. Threads exchange messages by FIFOs; a thread that serves several FIFOs
polls a group. Timers run in a thread of the wheel or in threads of the application. The parse engine calls the
protocol definitions and the application's handlers, and looks nodes up in static tables; `dtable` serves applications
whose tables change. Accelerator pipelines run handlers in one thread. `Fifo` composes rings (`FifoRing`) with poll
groups and threads, and `Pbufs` composes the reference counts of packet buffers with `ObjAllocator`; the other parts
share no state.

The parts that are not modelled, and why:

- bitmaps and virtual structures: pure algorithms on words and layouts without state between calls; what poll groups,
  the timer wheel and packet vectors use of bitmaps is modelled there by what it returns;
- static tables and switches: macros that expand to constant comparisons (the comparison functions are in `DTable`);
- shared memory: a straight line of system calls; locks: wrappers of pthreads, taken for what they are;
- CLI, configuration strings, packet and pcap helpers: text and file input and output;
- protocol definitions: external functions of `Parser`, which lets them return anything their signature allows;
- parselite and the flow dissector: older parsers without state between packets, kept for comparison;
- hashes, checksums, compression: third-party pure functions;
- XDP and BPF glue: runs in the kernel; the compiler and its templates: a C++ program on top of LLVM.

By lines these parts are most of the repository: copies of third-party libraries, generated headers, protocol
definitions, samples and the compiler have hundreds of thousands, the stateful core that the modules cover a few
thousand. The share of all lines that the map names is therefore small, and says little.

## Modules

In the modules of concurrent code, what a thread does between a lock and an unlock of a mutex is one step, and what it
does outside (a signal of a condition variable, a callback) is a step of its own. Names are those of the source without
the `xdp2_` prefixes. An operator named
`M<definition>_<mistake>` is that definition with a mistake the code could plausibly contain (`mutants` of
`PROJECT.json`); the specifications never use it. Every property is violated by one of them.

### FIFOs and poll groups: `FifoRing`, `BoundedQueues`, `Fifo`, `MCFifo`, `MCFifoTeams`, `FifoProofs`, `QueueProofs`, `PollProofs`

`FifoRing` is `struct xdp2_fifo` reduced to the ring: `Push` and `Pop` are the critical sections of enqueue and
dequeue, with `queue_full` set at the last slot and cleared below the low water mark. `Fifo` adds threads. `pc[t]` is
the place in the function where thread `t` will take its next mutex or send its next signal, `call[t]` its arguments
and locals; `make_readable`, `make_writable` and their negations, which take the FIFO mutex and then the poll group
mutex, are chains of such steps. A condition variable is the set of threads that wait at its label; a signal moves one
of them, and a wait may also end by itself (POSIX allows it, and the atomics flavour of `locks.h` does nothing else).
Each poll group belongs to one thread, as the header demands; that thread binds, enables, disables and unbinds the
FIFOs, and reads or writes a FIFO without blocking after a poll returned it. Statistics and printing are left out.

`BoundedQueues` is what the FIFOs promise: queues of at most `num_ents` messages. `ImplementsQueues` states that the
rings, mapped to the sequence of their messages, implement it.

| Run | Instance | Properties |
|---|---|---|
| `fifo` | one FIFO, a ring of 2, used by one of two teams. Two producers and a consumer, blocking and non-blocking; or a thread that polls it for reading and one that polls it for writing and signals other numbers, with reconfiguration; messages differ in the first team only (`PollersSendOne`) | `ImplementsQueues`; `ConsumerAwake`, `ProducerAwake`: nobody sleeps on while there is a message or space, unless a signal is on its way; `ReadReadiness`, `WriteReadiness`: the ready bit of a FIFO with a message (space) is set, or a thread inside a call is about to set it; `PollerAwake`: the same for the wakeup of the poller |
| `fifo_live` | a producer and two FIFOs polled by one thread | `ReadablePolled`: a FIFO with a message is returned by poll in the end; `ProducersServed`: a sleeping producer gets its space |

Bounds. A ring of two slots is empty, partly filled and full, and wraps; two or three poll numbers make the
search of `poll` wrap; two producers are enough for a signal to reach the wrong one. The low water mark is 2 in `fifo`
and 1 in `fifo_live`; the header asks only that it is positive. `WriteReadiness` and `ConsumerAwake` are stated for one
writing and one reading thread, `ProducerAwake` for two producers, see Findings. Groups with `fifo_no_poll` are in the
model and the proofs, but in no run. Fairness: the operating system runs every thread that is not blocked, and the
polling and consuming loops go around; producers and signallers need not do anything.

### Timer wheel: `Timer`, `MCTimer`, `TimerProofs`

The state is `struct xdp2_timer_wheel`, the timers, the clock and the locals of the one scan that can be in progress
(`run`). A scan holds the mutex, takes one step per slot and releases the mutex for each batch of callbacks;
`Callback(t)` is the callback of a timer, which may add or remove timers; `App(t)` is what the application does from
outside, including freeing a timer by the three rules of `timer.h`. Time and expiry times wrap at `TimeMod`, and are
compared as the `seqno` macros do. A slot is a set: in which order timers of one slot fire is not promised. The variable
`app` says who runs the wheel (its own thread, application threads whenever they like, or an application that runs it at
the very instant of the pop), what the application does with timers, and how late a run may be.

The timer thread starts at some time after `xdp2_timer_create_wheel_with_timer_thread` has returned, and timers can be
added before (`test_timer.c:201-214` does it). The start sets `last_runtime` to the current time; a timer that was due by
then lies behind it, and the assertion of `run_slot` (`timer.c:270`) fails for it in some generations. The model follows
this: the history variable `missed` holds these timers, and a run that meets the assertion ends as `aborted`.

| Run | Properties |
|---|---|
| `timer` | `WheelConsistent`: timers, slots, bitmap and count agree while callbacks change them under a scan; `NothingOverdue`: no scan leaves an expired timer behind, and the assertion of `run_slot` fails only after a timer was missed by the start of the thread; `NeverEarly`; `ThreadWaitsForFirst`: the thread sleeps for the first timer that is not `missed`, or has a signal coming; `PunctualPopSet`: a punctual application is asked to run in time; `FreedQuiet`: no callback comes for a freed timer; `TimerFires`: with the timer thread, a timer that nobody removes or adds again fires, or the program has stopped because of a missed one |
| `timer_late_pop` | `PopSet` is violated, see Findings |

Bounds. Two timers and two slots, so that a delay of 2 or 3 goes to a later generation; `TimeMod` 12 or 16, so that time
wraps and goes on; runs late enough to skip a generation; a batch of one callback, so that two expired timers need two
batches. In `timer` the wheel is created at time 0: the memory of the wheel is taken to be zero, and until the thread
starts `last_runtime` is 0 whatever the time is. `max_gap` of an application bounds how late a run may be: the
comparisons need less than half of the range. There are four applications (`AnyApps`), as `add` of a timer that is set,
which may postpone it for ever, has to be left out where `TimerFires` is checked. Fairness: time goes on, callbacks
return, and the timer thread starts, and runs when its wait has ended; not that the application does anything.

### Objects and packet buffers: `ObjAllocator`, `Pbufs`, `MCPbufs`, `ObjAllocatorProofs`, `PbufProofs`

In `ObjAllocator` the first word of each object is in `mem`, as the free list is threaded through it; `held[p]` are the
addresses of the objects that process `p` has. `Use` lets an owner write anything into its object, `HandOver` passes one
by index to a process with another base address. The `free` of an object one does not have is not modelled: the code
detects it in debug builds only.

`Pbufs` puts packet buffers on top. The slots are the io vectors of all packets; each belongs to one thread or process
at a time and moves to another with its packet (`Pass`). Its steps are what others can see: the locked sections of the
allocator and the atomic accesses to `refcnt`. Between allocating an object and storing its count, between the last
decrement and freeing the object, and between reading the count in the pull-up and writing in place, the others go on
(`call[p]`, `at[p]`). `one_ref` chooses whether new buffers are marked as having a single reference, which are not
counted until they are cloned. Every action is an action of `ObjAllocator` or leaves its variables alone; for the owner
of the object, which the code does not record, `held` says who will free it.

The run `objects` has two processes with different bases, three buffers and three io vectors: `NoSharing`;
`FreeListSound` (the list visits exactly the objects nobody has, and the count is its length); `RefsCounted` (the count
is the number of io vectors that share the buffer, and the object is in use exactly as long as there is one, so that it
is neither freed early, nor twice, nor lost); `WriteExclusive` (a pull-up that found a count of one writes while no
other packet has the buffer). Three io vectors allow a share, a free and a share again around one buffer and a second
buffer beside it.

### Packet vectors: `PVbuf`, `Packets`, `MCPVbuf`

The functions of `pvbuf.c`, `pvbuf.h` and `pvpkt.c` are operators on a record `s` of the memory: the slots of each pvbuf,
the buffers with bytes and references, and `err`, the assertion that failed, if one did. An entry of a slot is a tagged
record: a pvbuf with the length kept for it (0 is unknown), a pbuf, a short or a long address, or the second word of a
long one. Recursive functions are recursive operators, and functions for headers and trailers that differ only in the
direction are one operator with a parameter `end`. A call is one step: a packet belongs to one thread, and what
threads share is the subject of `Pbufs`. The actions are the calls of the API on two packets, of which one may be a
vector of packets that segmentation made.

`Packets` is what the caller sees: a packet is a string of bytes, and the calls cut and join strings. `ImplementsPackets`
states that the trees, read byte by byte (`seen`), implement it: each call changes only the packets it names, and a call
that fails for want of memory changes none. The exception is a pull-up that fails, after which the caller frees the
packet, as the header tells it to; the packet may have lost bytes by then.

The run `pvbufs` makes two calls on packets to start from: an allocation of 0 or 8 bytes at offset 0 or 3, to which up to
three pbufs or long addresses of one byte were added at one end. There are four pvbufs of four or five iovecs and five
buffers of three bytes, so that iovecs run out at both ends, trees get a second and a third level and allocations fail
in the middle; lengths from 6 on are unknown (`MaxLen`).

| Property | States |
|---|---|
| `WellFormed` | entries are in iovecs of their pvbuf, pieces inside buffers, long addresses whole; no call fails an assertion about what other calls left |
| `RefsExact` | every pvbuf has one holder, and the count of a buffer is the number of entries that refer to it, also after a clone, a segmentation or a pull-up that failed halfway |
| `LengthsTrue` | a length kept for a pvbuf is that of the bytes below it |
| `PopsExact` | a pop of any length at either end drops, and returns, exactly these bytes |
| `PullsTogether` | a pull of any length the packet has does not stop the program; if it succeeds the bytes are in one buffer and no packet has changed |
| `ReadsAgree` | clones and copies of any part, checksums and io vectors from any offset give the bytes of the string, with odd bytes at any boundary |
| `ImplementsPackets` | above |

`PopsExact`, `PullsTogether` and `ReadsAgree` evaluate the call in every state from which one can be made, for all
arguments; the other properties need the state after it. `PullsTogether` is about the pull itself; the free that a failed
pull asks for is in `CallsAsDocumented`. `KnownFaults` names three calls that stop the program; `WellFormed`
allows those and no others. The run `pvbufs_documented` has `CallsAsDocumented`, what comments say of these three calls
and of the free after a failed pull-up, and finds one packet for which none of the four is true, see Findings. It starts
from an empty packet, adds long addresses and lets the remaining pvbufs be taken by others. Two stops are in the model
but out of reach of `pvbufs`, whose bounds never combine the shortage with the entries they need: half a long address
(which `pvbufs_documented` reaches), and the search of `xdp2_pvbuf_alloc_empty` for a size smaller than the smallest
(`hang`). A pvbuf that continues a packet vector has the constant `ListSize` instead of a computed size.

### Accelerator pipelines: `Accelerator`, `MCAccelerator`

A step is one call of a handler, with the bookkeeping of the run loops around it. The handlers are external. `Handles`
lets them do what those of `test_accel.c` do, and more: relay items in order, take and write any number of them, keep up
to `Hold`, ask to be called again with `-EAGAIN` (`add_pd`), fail, and, when there is no room for it, return 0 without
having written what they keep (`add_dp`, `test_accel.c:513-524`). What it leaves out: handlers that change the number or
the order of items, that do nothing although there is room, or that give up what they keep while there is room.

The run `pipeline` has four stages, pipes of two items and an input of four, so that pipes fill up and wrap, and a
handler meets a full pipe at the end of its input. `InOrder`: nothing is lost, doubled or reordered, even by failing
handlers. `EndIsEnd`: a handler is called without input only when nothing is left before it but what a handler kept that
returned 0 for want of room (`gave_up`). `AllDelivered`: after a run nothing else is left before the last stage, and
nothing in it if the last handler takes all it is offered in each call. `Returns`. Fairness: the loop runs in the thread
of its caller.

### Parse engine: `Parser`, `MCParser`

The state is the locals of `__xdp2_parse`, the lists of TLVs being parsed (innermost last) and the callbacks made. A
packet is its length and what the protocol definitions read from it; a value is chosen when it is read first and kept
on a tape, from which `__xdp2_parse_fast` then reads the same packet. Lengths are unsigned (modulo `Word`) where the
code's are. The run `parser` has eight graphs that meet every branch: nested encapsulation; TLVs with nesting, overlays,
padding and limits; TLVs with a minimal length; flag-fields; arrays, of elements of two bytes that need not fill their
header, with the okay, fail and at-encap nodes; a table and a wildcard node; and two graphs that the validation for the
fast engine accepts, one with an array in a table and a node that leads to itself without moving, and one with nodes
behind a wildcard, which the validation does not visit.

| Property | States | Exceptions, which its definition names |
|---|---|---|
| `BytesInPacket` | callbacks get only bytes of the packet and of the header they belong to, and no list reaches behind the one it is in | elements of an array that do not fill the header |
| `LimitsHold` | encapsulations, frames and nodes are bounded by the limits as the code counts them | the counts are one above the documented ones |
| `ExitNodeRun` | the okay or the fail node is run once, last, by the code returned | `XDP2_STOP_MAX_NODES` runs neither |
| `FastAgrees` | for parsers that `xdp2_parse_validate_fast` accepts both engines make the same callbacks and return the same code | arrays and post handlers, `unknown_ret`, leaves beyond `max_encaps`, where `__xdp2_parse` gives up, and nodes behind a wildcard |
| `Terminates` | both engines return | a short TLV before a wildcard node; no node after a wildcard; the fast engine in nodes that do not move, and in nodes that were not validated |

The documented behaviour in the exceptions is what `parser_wildcard` and `parser_documented` state and refute, as far as
the source or a document says something, see Findings. A parse ends, so deadlock is not checked. Packets of five bytes
hold three nested headers, or a header with two TLVs; `MaxCalls` is the most callbacks that `__xdp2_parse` makes in these
graphs, and bounds what is recorded of the fast engine, which in one of them goes round for ever.

### Dynamic tables: `DTable`, `MCDTable`

An entry is at an address and in the two lists of its table; `find` and `lookup` are the searches of the three kinds
(plain, ternary, longest prefix match), `Auto` and `Given` the searches for identifiers. The run `tables` has keys of
two bits (two of them with the same hash), three entries, and identifiers below and above `BASE_IDENT`. `ListsAgree`:
both lists hold the same entries; `BestMatch`: a lookup returns what `documentation/tables.md` promises, compared with a
definition that does not use the order of the list; `KeyFindsEntry`; `OlderWinsTies`; `AutoIdentsUsable`: an identifier
of an entry that the library chose finds its entry, and the list of tables stays in order, so that every identifier of a
table, given or chosen, finds it. `create` searches the list of tables twice, the second time with the identifier that
the first search chose, and takes the place from the second search. The list of tables and the lists of one table share
no state, and are explored one at a time.

## Proofs

| Theorem | States | For |
|---|---|---|
| `FifoProofs!TypeCorrect` | `Spec => []TypeOK` of `Fifo` | any number of FIFOs, threads, ring entries, poll numbers |
| `FifoProofs!ReadReady` | `Spec => []ReadReadiness` | the same, with FIFOs being bound, enabled, disabled and unbound |
| `QueueProofs!RingsAreQueues` | `Spec => ImplementsQueues`, the rings implement `BoundedQueues` | the same, with any low water mark |
| `PollProofs!PollersWoken` | `Spec => []PollerAwake` | the same |
| `TimerProofs!WheelInOrder` | `Spec => []WheelConsistent` of `Timer` | any finite number of timers, any number of slots, batch size and range of time, whoever runs the wheel |
| `TimerProofs!FreedTimersQuiet` | `Spec => []FreedQuiet` | the same |
| `ObjAllocatorProofs!Exclusive` | `Spec => []NoSharing` | any number of objects and processes, any bases, with and without translation |
| `ObjAllocatorProofs!FreeListCorrect` | `Spec => []FreeListSound` | the same |
| `PbufProofs!UsesAllocator` | `PbufSpec => Spec`, the composition implements the allocator's specification | any number of threads, buffers and io vectors |
| `PbufProofs!RefsExactly` | `PbufSpec => []RefsCounted` | the same |
| `PbufProofs!WritesAlone` | `PbufSpec => []WriteExclusive` | the same |

Assumptions. `FifoAssumption`: a poll number stands for at most one FIFO, which the callers of bind have to see to;
`RingAssumption`: ring sizes and low water marks are positive. `TimerAssumption`: time wraps at a multiple of twice the
number of slots (both are powers of two in the code), and there are finitely many timers, so that they can be counted.
`ObjAssumption`: sizes are positive, offset 0
holds no object (the relative pointer 0 is NULL), and without translation all threads see the same addresses.
`SlotsFinite`: there are finitely many io vectors, so that they can be counted.

FIFOs. `TypeOK` is not inductive: a step uses locals that only some labels set. `Inv` adds `CallOK`, which locals each
label has, and `BindOK`, that a FIFO is bound to its own position or to none; there is one lemma per action. The proof of
`ReadReadiness` rests on this: whoever makes the ring non-empty, clears its bit or enables it is from then until it
has set the bit, or has looked at the ring again under the mutex, a thread that "owes" the bit (`OwesReadable`), and a
step of one thread leaves what others owe.

Queues. With `Inv`, a step inside a FIFO mutex changes one ring by `Push` or `Pop`, and every other step leaves the
rings alone (`StepsOfRings`). `Contents` reads the ring from `consumer` on; the lemmas about it reduce the remainders to
a case distinction at the wrap, and show that `Push` appends and `Pop` takes the head, also when `producer` meets
`consumer` and only `queue_full` tells a full ring from an empty one. `queue_full` may stay set while messages are
taken, but not when the last one is, because the low water mark is positive: this is all the refinement needs of it.

Pollers. `PollerAwake` is inductive relative to `Inv`. A ready bit is set in a step that ends in front of the signal
(`Announced`), the signal moves the only thread that can sleep on that group (`Wakeup`), clearing bits of `ready` or
`mask` helps (`Cleared`), and poll goes to sleep, and enable sets a bit of the mask, when the owner of the group is the
one to run. That a group has one owner is what the argument needs: with two, one signal would not be enough.

Timers. `WheelConsistent` alone is not inductive, because it allows the bit of an empty slot while a run stands at that
slot, even when the run will not look at it again. `Inv` allows it only if the slot lies before the limit of the run
(`Late`): a full batch that empties a slot leaves its bit, and the run comes back to the same slot after the callbacks
and clears it, unless a callback or another thread has put a timer there meanwhile. `FreedQuiet` needs that a timer with
a callback pending is in the batch of the run, and that no batch exists between runs (`RunOK`). Both hold whether or not
timers are added before the timer thread starts, and in the state in which a failed assertion leaves the wheel.

Objects. `Inv` is `TypeOK`, `NoSharing` and `FreeListSound` together: an allocation pops the head, which nobody has
because the list is sound, so nothing is shared; an owner overwrites no link because nothing is shared, so the list
stays sound. That the list is sound is stated with the sequence of its objects as a function on `1 .. num_free`, so
that no recursion is needed.

Packet buffers. Each step of `PbufNext` is a step of `Next` or a stutter, so that the two theorems about objects carry
over (`PbufsExclusive`). `PbufInv` joins their invariant to `RefsCounted` and `WriteExclusive`. The count alone is not
inductive: that an allocated buffer has no references comes from the free list, which is why `RefsCounted` says which
objects are in use, and by whom; that a count of one stays one comes from who may raise it, namely the owner of an io
vector that already holds the buffer, and the only such one is in the middle of its pull-up.

Liveness (`ReadablePolled`, `ProducersServed`, `TimerFires`, `Returns`, `Terminates`) is out of the prover's reach and
only model-checked. So is `PVbuf`, whose operators are recursive, and `Accelerator` and `Parser`, whose properties
compare with a function defined by recursion over the input. `WriteReadiness`, `ConsumerAwake` and `ProducerAwake` are
no theorems for any number of threads, see Findings. Not proved yet are the properties of `Timer` that compare times
(`NothingOverdue`, `NeverEarly`, `ThreadWaitsForFirst`, `PunctualPopSet`) and those of `DTable`.

## Findings

Four runs end in a counterexample to something the source or a document says.

- `timer_late_pop`, `timer.c:207`: a run that comes later than the pop and empties the wheel leaves `next_expire_time`
  behind `last_runtime`. A new timer is then neither earlier nor is the wheel recognised as idle, so
  `set_next_timer_pop` is not called. It concerns wheels without a timer thread; `PunctualPopSet` shows that it takes a
  late run.
- `parser_wildcard`, `parser.c:664`: after the wildcard node is taken, a second table lookup replaces it by NULL.
- `parser_documented`: `ParseAsDocumented` joins four statements by "or", and one packet refutes all of them. It has a
  segment routing header between an IP header and a TCP header with options.
  - `parser.c:125`: a TLV shorter than its `min_len`, in a list with a wildcard node, is compared with the same
    definition for ever, not treated as an unrecognized TLV.
  - `parser.c:682`: `max_nodes + 1` nodes are visited (`documentation/parser.md:470`).
  - `parser.c:609`: `max_frames + 1` frames are used (`documentation/parser.md:472`).
  - `parser.c:385`: an array element that begins in its header is parsed beyond the end of it, and as the unsigned length
    that is left then wraps, so are the elements after it.
- `pvbufs_documented`: `CallsAsDocumented` joins what comments say of four calls by "or", and one packet, a pvbuf with
  two long addresses inside another pvbuf, refutes all of them.
  - `pvbuf.h:2840`: a pull of more bytes than the packet has stops the program.
  - `pvbuf.c:693`: a pull-up that fails for want of memory with a long address in front leaves half of it, at which the
    free of the packet stops.
  - `pvbuf.c:1700`: a clone beyond the end of the packet ends in an assertion if it has a second pvbuf or a long address.
  - `pvbuf.h:2374`: adding an empty pvbuf with compression reads an iovec that is not there (the weight is compared
    before it is assigned).

Disagreements that the models follow without a run of their own:

- `timer.c:270`: the assertion can fail for a timer that was added, and came due, before the timer thread started
  (`timer.c:494` sets `last_runtime` without looking at the wheel); with another generation such a timer fires late.
- `dtable.c:208`: an automatic identifier is inserted in front of smaller ones; small identifiers behind it are then
  not found by identifier and can be added twice, against `documentation/tables.md:857-859`. `AutoIdentsUsable` states
  what remains true. It concerns the entries of a table only: the list of tables stays in order.
- `dtable.c:462`: deleting or changing a ternary entry ignores the position it is given (`KeyFindsEntry`).
- `accelerator.c:419`: after the drain the last stage runs once, although a loop and a comment ("finish last stage")
  are there; what it leaves comes out in the next run (`AllDelivered`).
- `accelerator.c:218`: a handler that returns 0 because the pipe behind it is full counts as done, and is not called
  again in this run although it keeps something (`EndIsEnd`, `AllDelivered`).
- `parser.c:683`: the return for too many nodes runs no fail node (`ExitNodeRun`), against `documentation/parser.md:468`.
- `parser.c:498`: a negative header length is reported as `XDP2_STOP_LENGTH`, its code is lost.
- The fast engine ignores `min_len` and arrays, and its validation does not visit wildcard nodes, so that it may call a
  function that is not there; it does not count nodes, and goes round for ever where no node moves (`FastAgrees`,
  `Terminates`).
- `fifo.h:1329`: with two writing threads, one that found the ring full may clear the write bit after the other's second
  look at the ring; `WriteReadiness` is stated for one. Of two sleeping consumers the enqueue that found the ring empty
  wakes one; `ConsumerAwake` is stated for one. A dequeue that clears `queue_full` signals twice (`fifo.h:1008`, `1660`)
  and no other does: with a low water mark well below the size of the ring, a third sleeping producer stays asleep with
  space in the ring (TLC finds this with three producers, a ring of 3 and a mark of 1); `ProducerAwake` is stated for
  two.
- `xdp2_pvbuf_alloc_empty` looks for ever for a size smaller than the smallest if memory runs out and that is size 0.
- The checksum of a part of a packet counts a byte too few at an odd boundary, and `make_iovecs` ends only at a length
  that is zero; `ReadsAgree` therefore passes these two the length 0, which is all.
- `pvpkt.c:281`: a failing callback for the last segment is taken for success (`Segment` in `Packets` allows it);
  `pvpkt_iterate` visits the second words of long addresses, which the model skips when it reads a vector.

## What is left

Everything with state that TLC can reach is modelled. Next would be the bitmap searches and the layout of virtual
structures, as operators checked against their definitions, and proofs: the properties of `Timer` about times, and
`ListsAgree` of `DTable`.
