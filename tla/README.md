# TLA+ models of Assignment_2023_1

The repository is a year of course work: a web server, two kernel system calls,
a CPU-scheduling benchmark, the RTL of a small computer (ARM processor, UART,
timer, GPIO), a compiler chain for a small language with its virtual machine,
a dependency parser for natural language, and a regular-expression compiler. The
parts hardly meet in code, so the project is a set of independent models, each
with its own specification, TLC configurations and TLAPS proofs.

Paths below are relative to the repository (`src/` omitted).

## 1. Inventory

| Component | State it keeps | Operations | What makes it hard | What makes it correct |
|---|---|---|---|---|
| HTTP server, `CN/source/server.c` | `clientSockets[]`, `readFds`, `allFds`, `maxFd`, one `buffer`, loop index; in the kernel: descriptor table, accept queue, receive queues | `select`, `accept`, service loop (`read`, parse, `open`, `write`, `sendFileContents`, `close`), `SIGINT` | clients act between any two system calls; descriptors are reused under a stale snapshot; one thread serves all; `SIGPIPE`, `EMFILE`, half requests | tables agree, `read()` never blocks, everybody gets only the answer to their own request, complete requests are answered |
| Kernel stack, `OS/hw1/Sources/oslab_my_stack.c` | `stack[]`, `top` | `os2023_push`, `os2023_pop` | globals shared by all processes, no lock | a bounded stack of distinct values |
| UART, `CA/TermProject_Multicycle/ARM_System/UART/` | baud generator, transmitter, receiver, `CSReg`, interrupt outputs | one clock edge; a bus read, a write, a reset | two unsynchronised clocks, coincident edges, status one edge late, read-to-clear | words arrive in order, status is true, software that polls neither loses words nor waits for ever |
| Timer, `.../Timer/TimerCounter.v` | `CompareR`, `StatusR`, `CounterR` | edge, write, read-to-clear | clear and match on one edge, wrap-around | a match is never lost; period is `CompareR + 1` |
| GPIO, `.../GPIO/GPIO.v` | key debouncers, two status registers, output registers | edge, read-to-clear, write | a press is a one-clock pulse, which a read may hit | each press is reported once |
| Address decoder and board, `.../Decoder/Addr_Decoder.v`, `ARM_System.v` | the reset flip-flop | chip selects, read data multiplexer | units share offsets, reading clears | what a unit reports reaches the reader |
| ARM processor, `.../ARM/` | registers, flags, pipeline stage and instruction latches | fetch, decode, execute, memory, write back | overlapping instructions | the instruction set's effect |
| CPU scheduling benchmark, `OS/hw2/Sources/cpu.c` | pid table, per-process counters | `fork`, work loop, `SIGINT`, `waitpid` | signals between `fork` and bookkeeping, failed calls | every child is reaped and reports |
| Spy VM, `CP/hw3..5/code/spvm.ml` | pc, memory, environments, call stack | one instruction | long call/return sequences | environments and stack discipline |
| Spy translator, optimizer, `translator.ml`, `optimizer.ml` | fresh-name counters | translation, rewriting | jumps, nested loops, names read in function bodies | meaning is preserved |
| Dependency parser, `NP/3_Neural Transition-Based Dependency Parsing/Assignment3의_사본.ipynb` | stack, buffer and arcs of every parse, the unfinished ones, training instances | `create_instances`, `get_oracle`, `minibatch_parse`, `parse_step`, `parse` | two copies of the transition logic, predictions older than the steps before them, a stack shared with the feature extraction, data that are not trees | no assertion fails, training matches parsing, every sentence gets a tree |
| Spy analyzer, `CP/hw5/code/analyzer.ml` | abstract states | abstract execution | pruned paths | "proved" implies safe |
| Regex to DFA, `CP/hw2/regex2dfa/trans.ml` | automata | `regex2nfa`, `nfa2dfa`, `run_dfa` | epsilon chains, final states | the language of the expression |
| Others: test programs, front end (`py2spy`, printing), CP/hw1 exercises, stubs, vendor IP, notebooks, R scripts | | | | not modelled, see section 8 |

Interactions. Within the board: the processor reads and writes the UART, timer
and GPIO over one memory-mapped bus through the address decoder; the devices'
interrupt outputs are left unconnected in `ARM_System.v`, so software polls.
Within CP: front end → translator → optimizer → VM, with the analyzer on the
VM's programs. The server interacts with its clients through the kernel only;
the stack calls meet in the two globals. The parser's preprocessing feeds the
training of the network, and the parser then asks the trained network for every
transition.

The hazards of each component, line by line, are the `hazards` of
`PROJECT.json`; the properties below are aimed at them.

## 2. Modules

```
HttpServer                                         MC_HttpServer, HttpServer_proof
UniqueStack  (abstract)
   ^ implements
KernelStack           <- KernelStack_proof
SerialChannel (abstract)
   ^ implements
UartLink  = TxUnit x RxUnit, two clocks            MC_UartLink, UartLink_proof
MiniUart  = ClkUnit x TxUnit x RxUnit x CSReg      MC_MiniUart, MiniUart_proof
Board     = TimerCounter x Gpio x decoder          MC_Board, Board_proof
CpuProcesses                                       CpuProcesses_proof
TransitionSystem <- CreateInstances, MinibatchParse
DependencyParser = CreateInstances, then MinibatchParse
                                                   MC_DependencyParser, DependencyParser_proof
Spvm <- SpyTranslator, SpyOptimizer, StraightCode
SpyPipeline = any translator, SpyOptimizer, Spvm   SpyPipeline_proof
SpyMeaning = SpyPipeline with SpyTranslator        MC_SpyPipeline
```

`ClkUnit`, `TxUnit`, `RxUnit`, `TimerCounter` and `Gpio` hold one operator per
clock edge, without a specification or assumption of their own; `UartLink`,
`MiniUart` and `Board` take them by INSTANCE, bind their registers, and state the
assumptions. `TransitionSystem`, `Spvm`, `SpyTranslator`, `SpyOptimizer` and
`StraightCode` hold operators only. `SpyTranslator` and `SpyMeaning` follow the syntax
tree with RECURSIVE operators and are for TLC alone.

Definitions whose name has the form `X_Something` (or `Y_Something` directly above
`Y`) and whose comment says "Mutation" or "Defect" are deliberately wrong variants
of the definition that follows them. Nothing uses them; substituting one makes the
property it is listed with fail.

### HttpServer — `CN/source/server.c`

`pc` names the system call at which the single process stands: `select`,
`accept`, `scan` (the service loop), `reply` (open and header), `body`
(`sendFileContents`), `close`; or how it ended: `exited` (select failed),
`killed` (SIGPIPE), `interrupted` (the SIGINT handler). The other server
variables carry the code's names. `peer` is the descriptor table, `backlog` the
accept queue, `pending` the receive queues; `link`, `wants`, `sent`, `stalled`
and `rx` describe the clients.

| Code | Action |
|---|---|
| `select()` 115-121 | `Select` (EBADF if a closed descriptor is watched) |
| `accept()` 124-146 | `Accept` (lowest free descriptor, first free entry, `maxFd`), `AcceptFails` (EMFILE, `continue`) |
| service loop 151-164 | `EndScan`, `ReadRequest` with `Due`, `Received`, `Parses` |
| answer 166-220 | `Reply` with `Target`, `CanOpen`; the home page's `open()` is unchecked, as in the code |
| `sendFileContents()` 36-60 | `SendBody` with `Contents`: the whole file, or, where `read()` fails, part of it or nothing |
| 222-224 | `CloseClient` |
| `handleInterruptSignal()` | `Interrupt` |
| clients | `Connect`, `Send`, `Shutdown`, `Leave` |

Abstractions: a request is two pieces, the line (`GET /name`) and the end of it,
which TCP delivers in one `read()` or two. File names are model values grouped as
the code tells them apart: `Present` (opened and read to the end), `Unreadable` (opened,
but `read()` fails: `GET /.` opens a directory, and line 43 leaves its loop on an error
as at the end of the file), `Absent`, `Home` (no name, served from `index.html`, which
may itself be any of the three) and `Malformed`. The body goes out in one step, although
the code writes it in blocks; a client that does not read blocks that step. Requests that
fill `BUF_SIZE` are left out (the string functions then run past the buffer).
Writing to a departed client drops the data or raises SIGPIPE, at the kernel's
choice. Nothing is modelled after the process ended.

### UniqueStack, KernelStack — `OS/hw1/Sources/oslab_my_stack.c`

`KernelStack` has one action per statement of the two calls that touches the
globals. The unlocked globals are a C data race when calls overlap: each use of
`top` may see memory or what the call last loaded or computed, `Uses(p) ==
{reg[p], top}`. `Overlap` says whether calls may overlap. A step beyond the array
reads anything and stores nowhere in `stack`; once `top` has left the array no
further call starts. `UniqueStack` is the promise: calls that take effect at a
point, on a sequence. The refinement maps `contents` to the elements already
stored (`Height`), and a call in progress to a pending call.

### ClkUnit, TxUnit, RxUnit, SerialChannel, UartLink, MiniUart — the UART

Registers have the RTL's names; right-hand sides read the registers before the
edge, and the later of two non-blocking assignments wins (`Ready` in `RxUnit`).
`Cnt33`, `Cnt10` and `Cnt16` are assigned with `=` in the source, so `ClkUnit`
uses their new value within the edge.

`UartLink` puts a transmitter on one board and a receiver on another. A step is
an edge with a baud tick or an access. The phase of the two clocks is free
(`gap` initially arbitrary) and the sender's tick may come one sample early or
late every bit, as long as the accumulated drift `slip` within a frame stays
within `MaxSlip`. It abstracts from edges on which nothing ticks; a load happens
when the buffer is empty and not on the sender's tick.
`flight` is history: words loaded and not received. `SerialChannel` is what the
line promises: a FIFO with a one-word box and an overrun flag.

`MiniUart` is the whole UART with `CSReg`, edge by edge; on any edge the processor
may read or write any of the chosen addresses, or reset. `StatM` is the
concatenation of five flags that the `case` in `miniUART.v` matches. The line is
arbitrary. `bus` records the access on the last edge, `ratio` the receiver ticks
since the last transmitter tick.

### TimerCounter, Gpio, Board — the timer, the keys and the bus

`Board` is `ARM_System.v` without the UART, one edge of `clk0` per step. On any
edge the processor reads or writes any of the chosen addresses, or neither, and
any key or switch may be up or down; `KEY[0]` resets everything through
`reset_ff`. An address is a page, which `Selected` (the decoder) looks at, and an
offset, which the unit looks at. Of what is read only the flags count: `mdr` holds
the bits a read of a status register delivered. One `key_detect` of 16 states
serves each input; `LastState` shortens it. `bus`, `age`, `steady` and `held`
are history: the access on the last edge; the edges the timer has counted since its
flag went down or `CompareR` was written, and whether the former came last; and
the edges in a row, up to `LastState`, on which an input has been low.
The comment at `GPIO.v:82-95` gives the addresses as `FFFF_00xx`; the decoder answers to `FFFF_2xxx`, and so does the
model.

| Code | Definition |
|---|---|
| `TimerCounter.v` 30-64, 68-78 | `SetCompare`, `SetStatus`, `Count`, `DataOut` |
| `GPIO.v` 141-191, 209-238, 258-343 | `Record`, `Clock`, `NextState`, `pressed` |
| `Addr_Decoder.v` 32-73, `ARM_System.v` 82-88 | `Selected`, `ReadData` |

### CpuProcesses — `OS/hw2/Sources/cpu.c`

A parent and `processNumber` children. A child is between `fork()` and the
assignment of `pid_idx` (`created`), in its loop (`computing`), at the `exit(1)` of
line 109 (`exiting`), a `zombie` or `reaped`. Control-C signals every process that
exists (`pending`), and a process takes the signal at any later point. `fork()` may
fail, and `pid_arr[i]` is then -1, with which `waitpid` waits for any child. How long
a child computes is arbitrary, up to `MaxLoops` turns. The progress lines (104-106)
and the scheduling class are left out: neither changes what may happen.

### TransitionSystem, CreateInstances, MinibatchParse, DependencyParser — NP/3

`TransitionSystem` has the three transitions as `PartialParse.parse_step` makes
them and the legality rule. `CreateInstances` is the preprocessing of the training
set, one action per turn of the inner loop; it has its own code for the transitions,
as the notebook does. `MinibatchParse` is `minibatch_parse` as `Parser.parse` calls
it: `Predict` chooses a transition for each parse of a batch, `Apply` makes one of
them, `Score` turns the arcs into heads. `DependencyParser` runs one after the
other, as `run_all` does for one epoch; a later epoch begins with new parses, so one
stands for all.

The network is not modelled: `Predict` may choose any legal transition, since
`ModelWrapper.predict` adds 10000 to the scores of legal ones (assumed: scores do
not differ by more). Words are their positions; the root is 0, and `"ROOT"`, which
`PartialParse` writes and `extract_features` replaces in the parse's own list, is
-1. A training sentence is the sequence of its words' heads, with cycles and crossing
arcs, since `read_conll` checks nothing; it is never empty, since `read_conll` drops
empty ones.

### Spvm, SpyTranslator, SpyOptimizer, StraightCode, SpyPipeline, SpyMeaning — `CP/hw4/code`

`Spvm` has the instructions and `Move`, one step of the machine; `SpyTranslator` the
translation of names, constants, binary operators, comparisons, `print`, calls,
assignments, `if`, `while`, `break`, `continue`, `def`, `return`; `SpyOptimizer` every
rewriting that concerns those. Names and labels are unique by construction in the
code (counters); the models use the place in the syntax tree. Values are integers,
strings, None and functions. Without lists and tuples no two variables share a
location, so memory and environments are one. The machine's scoping is dynamic
(`CallStack.lookup_env`), and so is the models'.

`SpyPipeline` is `main.ml`: translate, optimize, execute. The optimizer's recursion is
a stack of calls (`OptimizePgm`), each with what it has made so far and what is left of
its list; a step deals with the instruction at the head of the innermost list, and a
FUNC_DEF enters a call for the body. Beside the execution of `main.ml` there is one of
the code before optimization, to compare the two. The translator is a parameter, the
CONSTANT operator `Translator`; `SpyMeaning`, and TLC, take the one of `SpyTranslator`.

`SpyMeaning` evaluates the source directly (`Meaning`, written from the statements'
structure, without labels, jumps or temporaries). `print` writes one argument before it
evaluates the next (`translator.ml:142-148`); the sources print single arguments, or
arguments without effects.

`StraightCode` says what the code of programs without `if`, `while` and `def` looks
like: one instruction per label, HALT at the end, every temporary defined once, a user's
name assigned by a COPY from the temporary defined just before, and each temporary that
is copied from a name read before the name changes. `TranslatorAssumption` says that the
translator makes such code of such programs.

## 3. Runs

| Run | Bounds | States | Checks |
|---|---|---|---|
| `http_safety` | 3 clients (one free, two steady and interchangeable), 2 entries, 2 descriptors, backlog 1; one file, one directory, `index.html` absent | 3.3 M | `TypeOK`, `TablesAgree`, `ReadNeverBlocks`, `AnswerFitsRequest`, `ClosedOnlyAnswered`, `ExhaustionIsPermanent` |
| `http_progress` | 2 clients, 1 entry, 2 descriptors, fairness; one file, which is `index.html`, one directory, one absent name | 118 k | `SplitRequestIsLost`, `RequestsAreAnswered` |
| `stack_serial` | 2 callers, values 1..3, size 2, no overlap | 858 k | `TypeOK`, `NoDuplicates`, `ImplementsUniqueStack` |
| `stack_race` | the same, size 3, overlap | violated | `NoDuplicates` |
| `uart_link` | 8 data bits, 16 samples, drift of 6 samples per frame, three words | 305 k | `TypeOK`, `NoFrameError`, `ImplementsChannel`, `WordsArrive` |
| `mini_uart` | 1 data bit, 4 samples, dividers 2 and 1, address 1 | 298 k | `TypeOK`, `StatusIsTrue`, `TicksAgree`, `SenderReturns`, `WordIsAnnounced` |
| `uart_polling` | the same, addresses 0 and 2 | violated | `ReadyClearedByReader` |
| `dependency_parser` | every annotation of one sentence of up to 5 words and of two of up to 3 and 2; parsing sentences of 5, 3+3 and 2+1+3 words in batches of 1, 2 and 5 | 95 k | `TypeOK`, `AssertionHolds`, `KeptIffProjective`, `InstancesReplay`, `StepIsLegal`, `AnswersAreTrees`, `EveryoneIsParsed` |
| `board` | counter modulo 4, key detectors of 4 states, one key, one switch, one light; the four registers that matter | 53 k | `TypeOK`, `TimerOnTime`, `FlagWithinRange`, `OneReportPerPress`, `AcknowledgeTakes`, `ReportsReachReader` |
| `cpu_processes` | 3 children, 2 turns, 2 signals, fairness | 46 k | `TypeOK`, `ParentLast`, `ReportsNameChild`, `EveryChildReports`, `BenchmarkEnds` |
| `spy_translate` | 2371 programs: straight-line, branches, loops, loops in loops, functions | 259 k | `TranslationIsFaithful`, `StraightLineIsKept` |
| `spy_optimize` | the programs with functions | violated | `OnlyUnusedIsRemoved` |

What they show:

* **http_safety.** The descriptor table, `readFds`, `maxFd` and `clientSockets`
  stay consistent over every interleaving of accepts, closes and departures; the
  snapshot `allFds`, though stale, never makes the loop call a blocking `read()`;
  a client only ever receives (a prefix of) the answer to its own complete
  request, or for `/` possibly a `200` header without body when `index.html` cannot
  be opened; a connection is closed only when abandoned or answered: with the
  whole file where the file can be read to its end, with 404, or, where `read()` fails,
  with the `200` header and what was read before (for a directory nothing); and
  once the descriptors have run out with a connection waiting, the server never does
  anything else (the `continue` after a failed `accept`). Two entries and two
  descriptors are enough for a descriptor number to be reused while an old snapshot
  is in use and for the descriptors to run out; `Steady` clients (send at once, do not
  leave) only keep the run small, and the proofs do without the bounds. A
  connection without an entry occurs in `http_progress`, which has one entry and
  two descriptors.
* **http_progress.** A request read in two pieces is never answered. A complete
  request on a connection with an entry is answered (with the whole file, if
  that can be read; the name of a directory gets a `200` header and a closed connection),
  unless the client leaves, the process ends, a client that does not read holds the
  server in `write()`, or the descriptors have run out. (With as many descriptors as clients the last exception
  does not occur in this run; `http_safety` shows that it is needed.)
* **stack_serial / stack_race.** One at a time the calls implement the stack of
  distinct values. Overlapping, two pushes of one value both pass the search before
  either stores, and the stack holds it twice, against the code's own message
  that the value "already exists in stack".
* **uart_link.** The line is a FIFO without loss, and no frame error arises on a
  quiet line, at any phase and with a drift of up to 6 of 16 samples in a frame of
  ten bits; with 7 the run fails, so the bound is exact. The board's generator
  (27 MHz / 2880 = 9375 baud) against a true 9600 drifts by 3.75 samples
  over those ten bits, which the bound covers.
* **mini_uart.** `CSReg` is set an edge late, yet it never says something that is no longer
  true; the transmitter ticks once per `Samples` receiver ticks; the
  send bit returns, and stays, when left alone without a receive error. A word that
  keeps waiting in the receiver shows in `CSReg[2]` in the end, whatever is written
  meanwhile, unless an error flag is up: the `case` at `miniUART.v:171` has no pattern for
  a word that waits while a frame is sent and the buffer is empty (01001), but that ends
  with the frame. While `frameErr` or `outErr` is up the announcement waits; this is how
  the code is written. The widths are small because
  every edge is a state: the properties relate the flags and counters and do not
  depend on the word's length, and the proofs (section 5) cover the widths
  of the board.
* **uart_polling.** `RxUnit.v` takes a read as "Data was read". A read of
  *any* address of the UART clears the flag, and `CSReg[2]` follows `tmpDRdy` one edge
  later: a status poll on the edge between the two finds the bit down and
  clears the flag, so the word is never announced.
* **dependency_parser.** Whatever the heads in the training file are, the assertion
  in `create_instances` does not fail, and a sentence contributes exactly when its
  heads are a projective tree: the oracle never gives up on one, and a cycle or
  crossing arcs never survive 2n turns. The recorded transitions, replayed by
  `PartialParse`, give the gold arcs, although the two move their lists by different
  code. In parsing, a transition that was legal when the batch was predicted is legal
  when it is made, every sentence is finished in the end, and the heads that are
  compared with the gold ones are a projective tree of numbers, the root included.
  Five words are enough for crossing arcs, cycles beside a tree, and a word with
  dependents on both sides; two sentences for one to be dropped and the next kept; the
  batch sizes for batches smaller than, equal to and larger than what is left.
* **board.** Left alone, the timer's flag comes up `CompareR + 1` edges after it was
  acknowledged, and however `CompareR` is rewritten, within one round of the counter.
  A match beats a read on the same edge, but the two meet only when `CompareR` is 0
  or was rewritten; with `CompareR` 0 a read can take the flag down for one edge only. A press is
  reported exactly once: `key_pressed` is the last state but one, S14 on the board, which
  the detector reaches after 14 edges of low, and `Record` takes note on the next edge
  even if the key is let go on it. A report goes down only by a reset or a read that delivered it, although timer and GPIO share
  offsets; a press is lost only when the same register is read on the edge of its
  pulse, which the code does not prevent. Four counter values give every order of
  write, match, read and wrap-around.
* **cpu_processes.** When the parent ends no child is left, also when failed forks make
  it wait for "any" child first. Every child that is gone has printed a line, and the
  line carries the child's number, except that a child interrupted before line 94 calls
  itself 0. A child interrupted between lines 108 and 109 prints two lines. Three
  children are the least for a failed fork to reap a child that is waited for later
  while another one still runs.
* **spy_translate.** For each program the translated code writes what the program says
  and stops the way it does (an error of types, of arguments or of an unbound name
  included), with `break` and `continue` in branches within loops, also where the loop lies
  within another and the labels of the two must be kept apart, and functions that
  return early, read their callers' variables or are called wrongly. For programs
  without jumps the optimized code writes the same when the translated code halts. TLC
  also evaluates `TranslatorAssumption` for the straight-line ones of these programs, 587
  of up to five statements.
* **spy_optimize.** `find_id_usage` does not look into function bodies, so in
  `def f(x): return y` / `y = 1 - 1` / `print(f(1))` the assignment is dropped as unused,
  against the comments on `optimizer.ml:38-39`: the optimized program fails. The same
  property fails for the families `Branching` and `Looping` of `MC_SpyPipeline`:
  COPYC (42-60) carries a constant past a join or a back jump, and COPYS (62-77) lets a
  WRITE depend on a string set in a branch that is not taken.

## 4. Fairness

* `HttpServer!FairSpec`: WF of the server process. The kernel schedules the one
  runnable process; nothing is assumed of clients. When `write()` blocks, the
  server's action is disabled and fairness asks nothing of it.
* `UartLink!FairSpec`: WF of the sender's tick and of the receiver's: both
  oscillators run. Nothing is assumed of software.
* `MiniUart!FairSpec`: WF of `Next`, the clock runs. What stays undisturbed is the
  premise of `SenderReturns`; `WordIsAnnounced` asks nothing of the processor, and the
  error flags are its only exception.
* `CpuProcesses!FairSpec`: WF of the parent and of each child: the kernel runs every
  process that can run. SIGINT need not come, and a child that may go on computing
  ends only because its time, `MaxLoops`, is bounded.
* `DependencyParser!FairSpec`: WF of `Next`. One thread, which waits for nothing.
* `KernelStack`, `Board` and `SpyPipeline` state no liveness.

Deadlock is checked everywhere except for the server, which may stop (the process
ends) or wait in `select()` for clients that have nothing more to do, and for the CPU
benchmark, the parser and the Spy pipeline, which are programs that end.

## 5. Proofs

All from the named `ASSUME` of the module alone (`ServerAssumption`,
`StackAssumption`, `LinkAssumption`, `DriftAssumption`, `UartAssumption`,
`BoardAssumption`, `CpuAssumption`, `CorporaAssumption`, `DatasetsAssumption`,
`TranslatorAssumption`), for every value of the constants. `DriftAssumption`, `MaxSlip + 1 < Samples - Samples \div 2`, says
that the two oscillators drift apart, within a frame, by less than what separates the
receiver's sampling point from the end of the bit; it is tight (with 7 in place of 6
of 16 samples TLC finds a frame error).

* **HttpServer_proof.** `TypeCorrect`, `TablesAlwaysAgree`, `ReadsNeverBlock`,
  `AnswersFit`, `ClosesOnlyAnswered`, `ExhaustionPermanent`, `SplitRequestsAreLost`: every
  property of the server but its liveness. The invariant `IInv`
  adds to the checked ones: `SnapshotFresh` (what `select` found readable stays
  readable until the loop comes to it: only the loop itself drains a queue, and a
  descriptor that is closed has left `clientSockets`); `QueueOK` (a connection is in
  the accept queue once or in the table once); `RequestsOK`; `NotYetAnswered` (who is
  connected has received nothing, but for the client being served; this is what rules
  out a second answer); `ServedOK` (the buffer holds the request of the client being
  served, and in `sendFileContents` it names something `open()` has taken). `SplitRequestsAreLost`, the temporal one, rests on
  `Lost`, which holds from the moment the first piece of a request is dropped: no later
  piece brings it back, what is read of that client names no file, and so it is never
  the client being served.
* **KernelStack_proof.** `TypeCorrect`, `Distinct`, `Implements`, each under
  `~ Overlap`. `Alone` (one call at a time, what it holds of `top` is
  current) and `PushFacts`/`PopFacts` (what each statement has established: the
  elements seen so far differ from the argument; there is room; the popped value is the
  top one) make the invariant inductive; `Implements` shows each statement to be a step of
  `UniqueStack` or a stutter. `stack_race` shows why `~ Overlap` cannot be dropped.
* **UartLink_proof.** `TypeCorrect`, `Invariance`, `FramesAreClean`, `LinkIsChannel`, for
  every word width, sampling rate and set of words. The invariant is `TypeOK`, `Timing`,
  `Contents` and `NoFrameError`. `Timing` is the argument: while a frame is on the line
  the receiver's position, counted in its own samples, is the sender's position plus
  the phase and the drift so far, so it samples every bit while that bit is on the line;
  and between frames the receiver has had time to come back to its waiting state before
  the next start bit. `Contents` says that what it has shifted in are the first bits of
  the oldest word in `flight`. With these, the end of a frame is `SerialChannel`'s
  `Deliver`, and every other step is one of its steps or a stutter.
* **MiniUart_proof.** `TypeCorrect`, `StatusAlwaysTrue`, `TicksAlwaysAgree`. `TicksApart` ties the prescalers together and the history
  `ratio` to `Cnt16`; `StatusIsTrue` needs that no two of its flags change on the same
  edge in a way `CSReg` misses.
* **Board_proof.** `TypeCorrect`, `OnTime`, `WithinRange`, `OneReport`,
  `Acknowledged`, `ReachReader`: every checked property of the board, for a counter of
  any range, so the real 2^32, key detectors of any length and any inputs. Every step
  other than a reset is brought to one form, `BusEdge`, and each unit's part of it is a
  lemma (`TimerEdge`, `GpioEdge`). The invariant is the types with `TimerOnTime`,
  `FlagWithinRange` and the fact that a detector's state is the number of edges its input
  has been low; the three action properties follow from it.
* **CpuProcesses_proof.** `TypeCorrect`, `NoChildLeft`, `LinesNameChild`,
  `NoSilentChild`, for any number of children. The invariant adds `Filled` (which
  entries of `pid_arr` are set, and that an entry with a pid belongs to a child that
  exists), `Passed` (a child that the loop of waits has passed is reaped; one that was
  taken by a wait for "any" child before its turn is reaped as well), `Progress` (what a
  child has set in each state) and `Signalled`.
* **DependencyParser_proof**, the parser: `ParsesStaySound`,
  `StepsAreLegal`, `AnswersAreProjective`, `TypeCorrect`, for every data set, batch size
  and classifier. `Sound` says what holds of one parse: its stack ascends from the
  root, its buffer is the rest of the sentence, each word below the buffer is on the
  stack or has its one arc, and no word still on the stack lies under an arc, so that no
  later arc can cross one (`ArcAdded`). A batch holds different parses
  (`BatchIsDistinct`): hence the step of one leaves the prediction for another legal.
  `QueueIsExact` makes the loop of `minibatch_parse` end with every parse finished; a
  finished parse has n arcs, whose last-attached word in any set of words has its head
  outside it (`HeadsEscape`), and so is a tree.
* **DependencyParser_proof**, the training set: `TurnsAreEnough`: turns taken + 2 (words
  left) + height of the stack = 2n + 1, with the root at the bottom, from which
  `NoAssertionError`: the oracle never shifts from an empty buffer within 2n turns, and
  never makes the root a dependent. `TurnsAreParseSteps`: the lists of
  `create_instances` move as `parse_step` moves a parse, so that `Sound` holds of them,
  too. `ProjectiveAreKept` is the completeness of the oracle. Its invariant is `Reducible`: a word
  leaves after its dependents (`HeadsAlive`); below the top of the stack no word waits
  for the one above it (`NoneToTheLeft`); and a dependent of the word below it has been
  covered only because a dependent of its own is to come (`StillNeeded`). From it, and
  from the geometry of projective trees (`UnderArc`, `NoClosedStretch`,
  `TopmostArc`), an empty buffer leaves an arc between the top two words
  (`OracleAnswers`), and an arc never takes a word that is still needed (`LeftSafe`,
  `RightSafe`). Conversely a sentence that is kept has all its gold arcs in a finished
  sound parse, and those are a projective tree (`AllFound`). TLC checked `Reducible` on
  every annotation of up to five words before it was proved.
  `InstancesAreReplayed`: the training set's instances are a parse. The invariant
  `ReplayInv` adds `Replaying`: at every turn the `PartialParse` that `parse` makes of
  the transitions recorded so far is, but for "ROOT" in the place of 0, the lists of
  `create_instances` (`SameButRoot`). `ParseAll` is a recursive function; its
  unfolding for a sequence of any length is proved from the least index at which it
  would fail (`StepsExist`, `StepsAgree`), which needs no induction rule. A kept
  sentence's piece of the training set is not touched by later ones (`StillReplayed`),
  and a dropped sentence adds none.

* **SpyPipeline_proof.** `StraightLineKept`, for straight-line programs of any length
  over any names and constants. Of such code the machine's steps are a sequence of
  environments and outputs (`Runs`, `MoveOf`), and two pieces of code are compared by
  what they write (`Keeps`). A step of the pass is a change in place of the instructions
  behind its place h (`Rewrites`), followed, where it drops the instruction at h, by
  leaving that out. The change is sound because each instruction does what it did in
  every state of the execution (`InPlace`): what takes the place of a name has the value
  of the name there (`HeadKeeps`). The omission is sound because nothing behind h
  mentions the name: the rest does the same when the name keeps its old binding (`Mask`,
  `DropRuns`). When the new names and constants are right is the content of
  `OptOK(pgm, h)`, the invariant of the pass:
  - `Form`: every temporary has one definition, and where a user's name is assigned from
    a temporary, that is the one defined just before;
  - `ReadInTime`: from h on, a temporary copied from a user's name is read before that
    name gets another value; without it the case of COPY, which lets the user's name be
    read for the temporary, would read the new value;
  - `Late`: behind h no user's name gets a string by a COPYS, so that `replace_same_str`,
    which takes a later copy of the same string to be another name, finds temporaries
    only, which nothing else defines;
  - `HeadString`: at h itself one may, when the step before has copied a string into it;
    then no later copy of that string is only written, since the step before has
    redirected those already.

  The argument needs the dropped instruction's own case for each of COPY, COPYC, COPYS
  and COPYN (`CopyStep`, `ConstantStep`, `StringStep`, `NoneStep`), and `PassStep` puts
  what the pass has kept and what is left together. `SpyInv` carries this through the
  pipeline: the pass keeps what the translated code writes, and the machine of the
  optimized code is on the way to write it (`Reaches`), so it cannot fail.
  `TranslatorAssumption` stands for `translator.ml:23-284` without `if`, `while` and
  `def`: `new_temp_var` and `new_label` are counters, every expression's code ends with the
  definition of its temporary, and `translate_assign_single` adds the COPY behind it. It is
  an induction over expressions, and so an assumption; TLC evaluates it.
  The property speaks of executions that halt: where the translated code fails the
  optimizer may remove the instruction that fails.

Only model-checked: everything with liveness (`RequestsAreAnswered`,
`WordsArrive`, `SenderReturns`, `WordIsAnnounced`, `BenchmarkEnds`, `EveryoneIsParsed`: fairness and
ENABLED are out of the prover's reach), and `TranslationIsFaithful`, which compares two
functions that are recursive over the syntax tree, for every program: an induction over
data.

## 6. Plan

Done: `HttpServer`, `KernelStack`/`UniqueStack`, the UART, `Board`, `CpuProcesses`,
`DependencyParser`, the Spy pipeline. Left, in order:

1. **Spvm with lists and tuples** (locations and aliasing), as in CP/hw5, and the
   analyzer against it: does "proved the type-safety" hold?
2. **Regex2Dfa** as functions, against the language of the expression on bounded words;
   the one-step epsilon closure is the question.
3. **Processor control**: stages and signals for overlapping instructions.

## 7. Bounds

Every bound is a CONSTANT: `MAX_CLIENTS`, `BACKLOG`, `FdLimit`, `STACK_SIZE`,
`DataBits`, `Samples`, `Div`, `Ten`, `MaxSlip`, `Words`, `Addresses`, `Range32`,
`LastState`, `Reads`, `Writes`, `Data`, `processNumber`, `MaxLoops`, `MaxSignals`,
`Corpora`, `Datasets`, `BatchSizes`, `Sources`. No bound is put into a guard except
`slip' \in -MaxSlip .. MaxSlip`, the assumption on the two oscillators (which
`DriftAssumption` ties to the sampling rate), `MayTrap`'s
`top \in -1 .. STACK_SIZE - 1`, and `MaxLoops` and `MaxSignals` in `CpuProcesses`. Each
client connects once, so that histories are finite; `held` of `Board` is counted up to
`LastState`, beyond which the detector makes no difference.

## 8. Not modelled

* ARM processor: its control is bound to the datapath, the forwarding and the memory's
  timing, and the repository says nowhere what an instruction should do; planned last.
  On the board it is an environment that reads and writes.
* Spy analyzer, lists and tuples, regex compiler: section 6.
* Of the modelled Spy parts: lists, tuples, `for`, lambda, list comprehension, unary and
  boolean operators, subscripts, `input`, `int`, `assert`, `isinstance`.
* Of the parser: features, the network and its training, file formats.
* RAM and PLL: vendor IP generated by the tool.
* Spy front end (conversion of a syntax tree, printing), CP/hw1 exercises: pure
  functions of a few lines without control; the LL parser: stubs.
* The other notebooks (NP/1, 2 and 4) and the R scripts: floating-point computations on
  arrays, gradient descent, plots. They have neither interleaving nor state beyond the
  weights, and most of the notebooks' lines are prose, stored output and images. By line
  count these notebooks and the sample programs of `CP/hw4/code/test_trans` (inputs of the
  compiler, not code of it) are the greater part of the repository's Python, so the models
  cover the parser notebook's control and little else of it; the logic of the repository
  is in its C, Verilog and OCaml.
* Test programs: a fixed sequence of calls; the models allow every sequence.
