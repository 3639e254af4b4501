# A TLA+ model of zmq_example

The repository is a small pipeline around ZeroMQ. Decoder programs
(`demo_file_decoding.c`, `demo_stream_decoding.c`) decode videos on a hardware
codec, write pictures to a ramfs and tell a picture server on port 8003 about
each one; the server (`demo_process_picture.c`, or `infer_sim_20240606.py` in
its place) consumes the picture and deletes the file. `clist.c` is the list the
C server queues messages in. There are no tests, and the documentation is the
usage texts and the comments of `clist.h`.

## Inventory

| Part | State | Operations | Talks to |
|---|---|---|---|
| picture server (`demo_process_picture.c`) | `list`, `sign`, `exit`, mutex, condition variable; a message in each thread | `thread_recv`, `thread_proc` (6 threads by default), `signal_handler`, `main` | decoders (REQ/REP on 8003), the ramfs, `clist` |
| `clist.c` | rings of heap nodes, `count`, `typesize` | alloc, free, clear, push, pop, remove, assign, reverse, copy; empty, front, back, at, find, equal | called by the picture server under its mutex |
| file dispatcher (`demo_file_decoding.c`) | `active`, `exit`, the directory, a pool of child processes | `main`, `replier_process`, `check_thread`, `requester_process` | its children (REQ/REP on an ipc socket, fork, waitpid) |
| stream dispatcher (`demo_stream_decoding.c`) | `active`, `index`, a FILE shared by fork | `main`, `replier_process`, `check_thread`, `requester_process` | its children (fork, waitpid, the file offset) |
| decode session (both programs) | codec session, FFmpeg contexts, `exit`, counters | `demo_decode_file`, `recv_thread`, `save_yuv` | codec (queues), picture server |
| infer_sim (`infer_sim_20240606.py`) | `msgs_q`, a queue of 32 | `zmq_server`, `handle_thread` | decoders, the ramfs |
| `xml.c` | a buffer and a position in it, a call stack, the tree on the heap | `xml_parse_document`, `xml_open_document`, `xml_parse_node` and its parts, `xml_document_free` | its caller; the one use, in the picture server, is compiled out (`#if 0`) |
| command lines (all three C programs) | what each option was given | `parse_opt` | `main`, and through the options the decode session and the dispatchers |

What is hard here, and what makes each part correct:

* *Picture server.* A condition variable with an extra flag, a test of `exit`
  outside the mutex, and a signal handler that takes the mutex, on whichever
  thread the kernel picks. No wake-up may be lost, no picture removed twice or
  forgotten, no decoder answered before its picture is queued, and a signal
  should end the program.
* *clist.* Pointer surgery on rings with a sentinel, loops that free or move the
  node they stand on, `count` kept beside the ring.
* *File dispatcher.* Two threads update `active` without a lock; children leave
  on a timeout, on a name that starts with `exit`, or by dying, at any moment of
  the hand-out.
* *Stream dispatcher.* `exit()` of a child moves the file offset the parent
  reads addresses from, at a line's end or in the middle of a line.
* *Decode session.* Sender and receiver thread share the codec session, which
  must outlive the receiver; retries, an end-of-stream packet, counters from
  which file names are made, error paths that release what was acquired.
* *infer_sim.* A bounded queue that holds decoders back; threads that end on an
  exception while the process stays.
* *xml.c.* A position that is clamped to the last byte, which is then read again;
  loops and a recursion that stop only if every error is noticed; error paths
  that release what the call has so far.
* *Command lines.* Options in any order and more than once, defaults, values that
  are no numbers.
* *The programs together.* Decoders die at any moment, and the consumer is stopped
  and started again while they run: its list is in memory only, a request that
  reached it is not sent again, and `zmq_recv` of a decoder has no timeout. The
  ramfs should not fill up with pictures that nobody will remove, and no picture
  may be overwritten while the consumer knows of it.

`PROJECT.json` lists each of these at its line ("hazards") with the properties
that catch it.

## Modules

| Module | Models | Remarks |
|---|---|---|
| `PictureService` | what a consumer on port 8003 promises | abstract: submit, accept, acknowledge, serve, finish; no threads |
| `PictureServer` | `demo_process_picture.c` | one action per critical step; implements `PictureService` |
| `InferSim` | `infer_sim_20240606.py` | implements the same `PictureService` |
| `Deque` | what `clist.h` offers | abstract: a list is a sequence; a call takes effect between invocation and return |
| `CList` | `clist.c` | next and prev of every cell, one step per loop iteration; implements `Deque` |
| `DispatchService` | what the file dispatcher promises about the files | abstract: hand, finish, leave, lose; no sockets or counters |
| `FileDispatch` | processes of `demo_file_decoding.c` | a decode is one step; implements `DispatchService` |
| `StreamDispatch` | processes of `demo_stream_decoding.c` | a decode is one step |
| `DecodeService` | what a decode promises | abstract: tell, be answered, return, fail, crash; no packets or threads |
| `DecodeSession` | `demo_decode_file`, `recv_thread`, `save_yuv` of both programs | `opt` says which program, and its `-k` and `-s`; implements `DecodeService` |
| `CommandLine` | `parse_opt` of the three C programs | a fold over the arguments; gives `DecodeSession` its options |
| `Pipeline` | the programs together | composes `DispatchService`, decoders as in `DecodeService`, the ramfs, and a consumer that stops and is started again |
| `XmlDocument` | what the parser is held to | abstract: when a text is the print of a document or begins as one, and the tree it stands for; no parser |
| `Xml` | `xml.c` | the recursion is a stack of calls, one step for each part of a node |
| `MCPictureServer`, `MCCList`, `MCDecodeSession`, `MCXml` | instances for TLC | symmetry, the sample video and command lines, the sample texts |
| `PictureServerProofs`, `InferSimProofs`, `FileDispatchProofs`, `StreamDispatchProofs`, `DecodeSessionProofs`, `PipelineProofs`, `CListProofs`, `XmlProofs` | -- | theorems about the module in the name |

The server modules contain the decoders as clients (`ClientSubmit`), each with
one request outstanding; `DecodeSession` contains the server as two external
actions; `FileDispatch` and `StreamDispatch` take "a decode ends, or its process
dies" from `DecodeSession`. What each detailed module is shown to implement is
what `Pipeline` puts together, so that the properties of `Pipeline` are about the
programs and not about one part with the others left open.

### PictureServer

`rpc` and `wpc` are the program points of `thread_recv` (with the end of
`main`) and of each `thread_proc`, at the granularity at which other threads can
interfere: the read of `exit`, each lock, each critical section, each unlock.
`pthread_cond_wait` is three steps: release and sleep (`ProcWait`), be removed
from `waiters` by a signal, a broadcast or spuriously, take the mutex again
(`ProcWake`). `DeliverSignal(t)` suspends thread `t` (`victim`): `WorkerGoto` and
`MainGoto` refuse steps of the victim until `HandlerReturn`. If the victim was
blocked in `zmq_recv` the call fails with `EINTR`; the code does not look at its
result and queues the zeroed message `Blank`. Signals do not nest and only one is
delivered at a time.

A message stands for its JSON text and for the file that it names; its kind says
whether `cJSON_Parse` succeeds (`save_yuv` copies file names into the text
unescaped). After the socket is closed, requests stay in `inbox` for ever.

### CList

A sentinel is written as the list it belongs to; a freed cell has `Null` in its
fields. A call without a loop over changing nodes is one action; `clear`, `free`,
`assign`, `copy`, `remove` and `reverse` take a step per iteration, with the local pointers
`node` and `next` of the code in `loop`. The caller may make any call in any
order, and `before` remembers what the lists were when it made this one, because
`Deque` has a call take effect at its end; it does not pass NULL, and it does not copy a list to itself, which would
free the nodes being read. `assign` stops before `last` ("copy value from first
to last items", says `clist.h`); it has no caller, and the model does as the code
does.

### FileDispatch and StreamDispatch

`++dctx->active` and `--dctx->active` are two steps each, a read and a write: the
Makefile does not optimise and the field is a plain `int`. `raced` remembers
whether an update fell between another's read and write, so that the safety
properties can say what holds without an overlap, and the violation run what an
overlap does. `waitpid` returns a dead child, 0, or -1 when there is no child
to wait for; the code treats -1 like a dead child and so do `CheckWait`,
`DrainOne` and `CheckRound`. A dying child leaves its request at the REP socket;
a reply to a dead child is dropped. `maxpross` is what `-p` was, 0 included.

`FileDispatch` implements `DispatchService` with `todo` as `Undelivered` (the
directory, the entry at hand, and replies on their way), `held` as `file`, and
`gone` as the children that are dead. The service does not depend on `active`, so
it holds whatever the race makes of the counter.

In `StreamDispatch` the parent and every child have a copy of the stdio buffer
and one file offset together. `exit()` gives the unread part of the child's copy
back by a relative `lseek`, as POSIX asks and glibc does. The buffer is a sequence
of bytes, each named by its place in the file (after a rewind a place may be there
again), and what is told apart of a byte is whether it is a newline (`Ends`).
`fgets` takes bytes out of it (`CopyByte`) until it has a newline or as much as it
may return (`UrlBytes`), and when the buffer is empty it reads from the offset on
(`FillBuffer`), which is mostly in the middle of a line: `url` then holds the first
part. At that point a child that was forked when just this part was unread may end,
and the parent reads the whole line again behind its first part. A FILE that has met
the end of its file stays there (`eof`). An address is `url` with its newline, which
the code cuts off; an empty line is one, too, and gets a child.

### DecodeSession

The set-up is a table of the calls that may fail (`Stages`): what each acquires
and what the error path after it leaves behind. The bit stream filter gives one
packet for one. The codec is a queue of packets and a queue of frames in the same
order; it may die, as may the picture server.

A frame is one that the receiver took from the codec ("key" or "delta"), or what
`save_yuv` put in its place: whether a frame is in the memory of the hardware
(`ams_frame_is_hwframe`) is left open, and `ams_decode_retrieve_frame`, which is
external like the codec, gives another frame ("image") or NULL ("null") for it.
`save_yuv` does not look at the result and goes on with it: the picture is written
and told, or `fopen` fails, and `ams_free_frame` is called with what was retrieved,
never with the frame that it replaced. What becomes of that one is the library's
affair, and `replaced` counts it. With NULL the library may also end the process
(`NullCrash`), in the write or in the free.

`opt` is what `parse_opt` made of a command line; `MCDecodeSession` applies
`CommandLine!ParseOpt` to seven of them, and those that are accepted are the
initial values. With `-s 0` and no `-k` the first frame divides by zero and takes
the process with it (`ReceiveTraps`). The refinement of `DecodeService` maps
`state` to `Seen`: a session is "asking" from `zmq_send` until its reply, and
"decoding" in all its other steps until it ends.

### CommandLine

An argument is a letter with what `atoi` makes of its value (for a path, nothing
is told apart), and `ParseOpt` folds `Take` over them, as the loop around
`getopt` does; anything unknown prints the usage and ends the parse. The
assumption `ParseOptAsDocumented` of `MCDecodeSession` compares it with the usage
text for all three programs and every sequence of up to four of eight arguments:
a line is accepted exactly if the mandatory options are there and none is
unknown, and the last value of an option counts, or its default.

### InferSim

`put` and `get` are atomic. `RecvRaises` and `HandleRaises` are the uncaught
exceptions: of `recv_string` for a text that is not UTF-8, of `json.loads`, and of
`os.remove`.

### Pipeline

Files go to processes by the actions of `DispatchService` itself; a decoder
writes a picture (`WritePicture`), tells the consumer (`AskConsumer`), takes the
reply, ends, or dies with its process (`ProcessGone`, `AbandonFile`), in the
states of `DecodeService`. `save_yuv` is two steps here, because a death between
`fclose` and `zmq_send` leaves a picture that nobody was told of. The request of a
dead process may have left it already, or not. The name of a file is in the text
of its messages as it is, and `BadNames` are the files whose name makes that text
one that the consumer cannot parse: it skips such a message, answered as it is,
and the picture stays (`demo_process_picture.c:86-92`,
`RemovePicture`, `Unreadable`).

`ConsumerStops` is a stop of either consumer at any moment: what is in its list
or in a worker's hands is lost with the process; a request that had reached the
process, or a reply that had left it, may be lost with the connection; a request
that is still in a decoder's socket stays there, and is delivered when the
consumer is started again (`ConsumerStarts`; the decoder does not notice, its
socket reconnects). Nobody sends a request twice.

### Xml

A text is a sequence of `Symbols`: markup characters, the space, letters that
stand for a run of bytes, and members of `Assignments` that stand for
`key="value"`. Where a loop over bytes stops (`Run`, `Solid`) is defined by what
it looks for, with the clamping of `xml_parser_consume` in `Clamp`. A call of
`xml_parse_node` is a record on `stack` with the program point it has reached, the
tag, the content and the children it holds. A tree is the sequence of its nodes in
the order in which `node_creation` makes them, children before their parent, each
with its depth; that says which node is whose child. An attribute points into the
tag of its node and is a pair of the offset there and the symbol. `live` counts
allocations; `leaked` counts those that nothing refers to any more (the attributes
of a call that fails).

What the tree has to be is said in `XmlDocument`, of positions in a text and without
a parser. A document is the sequence of its elements in the order in which they end;
an element has a name, the words after it in its tag (attributes, other words, the
slash of an element without a closing tag), content, its parent, the first element
inside it, its depth, and the places of its tags and its content. `IsPrint(d, text)`:
as far as the text goes, there are the tags and contents of d in their places and
nothing else but white space, which may be anywhere around them. `Whole`: the text goes
that far. `TreeOf`: the nodes. Each member of `Inputs` has its text and the document it
is a print of, whole or cut off (`DocumentsAssumption`), or `Unknown` for a text with a
fault. A print has one space before each word of a tag and none before `>`, names
without a slash, and content in elements without children only; what the code makes of
a space before `>` or a slash in a name is under the disagreements.

No definition is recursive over trees, and the recursion of the parser is in the
stack; this is what makes the module one that can be proved about. `ToGo` is how
many steps are left at most, for `NearsEnd`, a theorem: six for every byte that is still to come, for every
call what it has before it at its program point (`Rank`), and three for a node
that the caller has not taken yet.

## Runs

Runs that pass, with their bounds:

| Run | Question | Bounds |
|---|---|---|
| `PictureServer` | Are wake-ups, pictures and replies safe in every interleaving? Does it implement `PictureService`, does every picture go and every decoder go on, and what can become of it after a signal? | 1 decoder x 2 pictures, 2 workers, 1 signal, 1 spurious wake-up |
| `InferSim` | Does the queue bound the ramfs? Does it implement `PictureService`? Who waits for ever, and when? | 2 decoders x 3 pictures, 2 handlers, a queue of 1 |
| `CList` | Are the rings whole, is what is read from them right, does every call do what `Deque` says, and end? | 2 lists, 3 nodes, 2 values, 2 sizes, arrays of up to 2 |
| `FileDispatch` | What do `active` and the hand-out guarantee? Does it implement `DispatchService`? Does the parent end? | a file and one named `exit...`, `-p 2` and `-p 0`, 5 forks, 1 death |
| `StreamDispatch` | Is every byte of the file tried, and every line whole and once if nothing is rewound; is every child waited for? | 7 bytes: an address, an empty line, a line longer than `fgets` takes and without a newline; a buffer of 4 bytes, addresses of 3, 6 forks |
| `DecodeSession` | Frames, pictures and resources of a decode; what is lost; does it implement `DecodeService`; when does it end? | both programs, five accepted command lines (`-s 2`, `-s 0`, `-k`), frames in hardware or not, 6 packets of all kinds, queues of 2, retry limit 2 |
| `Pipeline` | Which pictures stay on the ramfs, is one ever overwritten, and which decoder waits for ever? | 2 files of up to 2 pictures, one with a name that spoils its messages, 2 processes, the consumer stops twice |
| `Xml` | Does the parser give back the printed tree, refuse what is cut off, account for the heap, and end? | 16526 inputs: prints of trees of up to three levels, with and without white space in and around them, all their prefixes, and two levels with a byte missing or a space too many |

Why the bounds are enough: with two workers one can sleep, hold the mutex or be
interrupted while the other takes a message; two pictures of one decoder are in
the list and in a worker's hands at once, and a second decoder is what the proofs
are for (every safety property of this run is a theorem for any number); one signal reaches every program point of every thread,
and a second one finds `exit` set. Three nodes make a list with a middle, or a
list and another to copy it to. A pool of two with a death lets the increment of
one fork meet the decrement for another child. A queue of one, queues of two and a
retry limit of two are full, and reached, within the inputs given. The buffer of four
bytes ends with the file's fourth, the first of a line that goes on behind it, and
is filled again elsewhere after a rewind. Two stops of
the consumer let a decoder be answered by the second one and be forgotten by the
third. Trees of three levels have a call between two others on the stack, which
can fail with children it has kept. No counter of the code is cut off inside a run
except by the named bounds `MaxRequests`, `MaxSignals`, `MaxSpurious`,
`MaxDeaths`, `MaxForks`, `MaxStops`, `Nodes` and, in `Pipeline`, `Numbers`;
`Size`, `BufBytes`, `UrlBytes`, `MaxPross`, `QueueSize` and `Limit` are parameters of the
programs or of their input. Where `MaxForks` is used up, the parent stands still before the fork, which
only the liveness properties could notice: the runs leave room for every child
they need (five for the seven bytes, if nothing is rewound). Deadlock is checked in the `CList` run; the other programs may stop,
having nothing left to do.

Fairness is weak fairness of the threads and processes (the operating system
schedules them; no lock is needed for ever), and never of clients, signals,
spurious wake-ups, failures or deaths. The mutex is not assumed fair: with
`WF_vars(WorkerStep(w))` a worker whose lock is enabled on and off may starve,
and the liveness properties hold all the same. In `DecodeSession` the codec
decodes, and the server replies, unless dead. In `Pipeline` a decoder and the
consumer's threads are scheduled while they exist, each picture by itself (the
list is first in, first out, and removing one does not hold up the others for
ever); nobody has to start the consumer again. In `Xml` one thread runs the
parser.

What the liveness of `Pipeline` says: a picture leaves the ramfs unless its decode
died, the consumer stopped, or the consumer was told of it in a text that it cannot
parse (`PicturesDrain`); a decoder that asked is answered
unless the consumer stopped and it is `Deaf` from some point on (`AnswersCome`):
its request went down with a consumer, or is in its own socket with no consumer
running.

`ShutdownOutcome` deserves a word. After SIGINT the program ends, or it stops
for ever in one of three ways: the handler waits for the mutex of the thread it
interrupted (`SelfDeadlock`); the main thread had tested `exit`, was not yet, or
no longer, in `zmq_recv` when the signal came, and waits for a request
(`BlockedInRecv`); a worker that tested `exit` before the handler ran waits after
it (`Stranded`). TLC shows that there is no fourth.

## Disagreements found

Each is a run that TLC must find violated, and a "finding" in `PROJECT.json`:

| Run | What the repository says | What the code does |
|---|---|---|
| `PictureServer_stranded` | `proc exit!` of every worker joined | a second worker may sleep through the shutdown |
| `CList_remove` | delete the item at a position | deletes the first equal item |
| `FileDispatch_leftbehind` | wait for all children to exit | returns before a child does, after a lost increment |
| `StreamDispatch_once` | the input file lists the addresses, one process for each | a line that the stdio buffer cuts is joined to its own first part and given to no child, if a child ends while `fgets` has that part; lines that were in the buffer as a whole are given twice |

Not runs of their own, but visible in the models:

* the handler may wait for its own thread's mutex (a disjunct of
  `ShutdownOutcome`);
* the same lost increment of `active` lets one child more than `-p` live (why
  `CounterExact` has a premise); `-t` of the file program, documented as a time
  limit, is read by nothing;
* the example `-p 8 -k` of `demo_stream_decoding.c:535` has an option the program
  does not know, and the example of `demo_file_decoding.c:567` gives its arguments
  without letters: both get the usage (`StreamLines`, `FileLines`);
* in `xml.c` a space before `>` is consumed in its place ("Consume `>'", :534)
  and the `>` is left to what follows; `<a/>` keeps the slash in the name
  ("Drop `/'", :721; only after a space is it left out, which is how the sample
  texts print it); and `exit_failure` ("so free all allocalted resources",
  :792) leaves the attributes, which `HeapAccounted` counts as `leaked`.

## Proofs

The theorems hold for every value of the constants that satisfies the named
assumptions of the module (`NamesAssumption`: names that are not messages are not
messages, no file is no file; `WorkersAssumption`, `FiniteAssumption`: finite sets
of threads; `NodesAssumption`: finitely many addresses that malloc can return;
`InputsAssumption`: texts are sequences of symbols, and the absent string is none;
`SymbolsAssumption`: markup and the space are symbols; `DocumentsAssumption`: the text
of an input with a document is a print of it, or the beginning of one;
`VideoAssumption`, `OptionsAssumption`: packets and options are such;
`FilesAssumption`: no file is no file, and the names that spoil a message are names of
files; `FileAssumption`: the newlines of a file are bytes of it; `BoundsAssumption`,
`SizesAssumption`, `NumbersAssumption`: numbers are numbers, and buffers not empty). TLC evaluates each of them in the runs. No theorem rests on
a bound: they are parameters, any number.

`PictureServerProofs`, for any sets of decoders and workers:

* `TypeCorrect`: `TypeOK` and `ControlInv` (where a thread can be while it holds
  a message, owes a reply or sleeps) -- together inductive (`NextTyped`).
* `MutualExclusion`: `MutexInv`, the mutex is held exactly by the thread, or the
  handler on a thread, between a lock and its unlock. Inductive over `TypeCorrect`:
  a handler that owns the mutex interrupted a thread that did not.
* `SignalsNotWasted`: as long as no exit is requested and a worker sleeps,
  the list is not longer than the number of workers on their way to it. It needs
  the other two: whoever changes the list is inside the mutex, so one step takes
  one message and one hunting worker, or adds one message and wakes one sleeper.
  `FiniteSetTheorems` supplies what a set loses with an element.
* `RepliesFollowPush`: `AckedIsQueued`, a decoder that waits for nothing has
  its picture queued or consumed. Its strengthening, `RequestInv`, says where the
  request of a waiting decoder can be.
* `NoMessageTwice`: `HeldOnce`. It needs `FreshInv`: a message number a decoder
  has not reached is nowhere in the pipeline or on the ramfs, so what
  `ClientSubmit` adds is new.
* `NoPictureOrphaned`: `FilesMatchPipeline`, an equivalence. The direction "no
  picture is removed while its message is elsewhere" rests on `HeldOnce`.
* `Invariance`: all of these as the one invariant `IInv`.
* `Implements`: `ImplementsService`, every step is one of `PictureService` or a
  stutter. `RecvPush` is `Accept` because the message at hand is not at the socket
  any more (`HeldOnce`), or `AcceptBlank` after an interrupted `zmq_recv`;
  `RecvSend` is `Acknowledge` because the request it answers is the only one of its
  decoder (`RequestInv`).
* `StandsStillDone`: `StillMeansDone`, what `ShutdownOutcome`, `PicturesRemoved` and
  `ClientsAcked` say of the states in which nothing goes on. It rests on who can
  stop with the mutex in hand (only the thread that the handler suspends,
  `MutexFree`) and on `SignalsNotWasted`: if all workers sleep, the list is empty.
* `ComesToEnd`: `NearsEnd`, the other half: between two pictures, signals or spurious
  wake-ups the threads take a bounded number of steps, in any order. `ToGo` counts
  them: what main, handler and each worker have before them, and what a request, a
  message in the list and a set `sign` will cost. A push pays for the worker that it
  wakes and the `sign` that it sets, a broadcast for all workers (`StepsMoved`,
  `OneMoves`); so workers that find the list empty again and again are no livelock.

`StreamDispatchProofs`, for a file of any length with its newlines anywhere, any size
of the buffer and of an address, and any number of forks:

* `TypeCorrect`: `TypeOK` and `CountersInv` (the counter never passes the number
  of forks; what `fgets` has of a line fits, and is there exactly before a fork; a
  FILE at its end has no buffer).
* `NoAddressPassedOver`: `EveryLineTried`. Of bytes, without a premise
  (`NoByteLost`): every byte before the shared offset is in the parent's buffer, in
  what `fgets` has, or in an address that was tried; an `exit()` only moves the
  offset back, which makes it weaker. Of lines, as long as nothing moved the offset
  while the parent read: buffer and `url` are the file in its order (`InOrder`), so
  that `Done` bytes are in addresses, and `CutAt` says that the next one begins a
  line, or goes on in one that is too long. A line that ends in the address at hand
  is then that address (`LineAtHand`), wherever the buffer cut it, and every line up
  to `Done` was tried (`LinesInv`).
* `GivenOnce`: `OnceUnlessRewound`, from the same invariant: what a child has is at
  most `Done`, and what is at hand is behind it.
* `NoChildLeftBehind`: `WaitsForAll`. Child numbers above `index` are unborn, so
  a fork adds one element to `Unreaped`, and a reaping takes one.
* `ComesToEnd`: `NearsEnd`. `ToGo`, a number that is 5 * `Size` + 3 at first, goes
  down with every step but one kind: the exit of a child that moves the offset back
  while the parent reads. Nothing in the program bounds how often that happens.

`InferSimProofs`, for any decoders, handlers and queue size:

* `NothingOrphaned`: `TypeOK`, one request per decoder (`RequestInv`), and the
  message of every removable picture at the socket, with `zmq_server`, in the
  queue or with a handler (`OnTheirWay`).
* `QueueBoundsRamfs`: `RamfsBounded`, by counting: a message that is not yet in
  the queue or past it belongs to a decoder that waits, each of which has one.
* `Implements`: `ImplementsService`, by the same step simulation.
* `StandsStillDone`: `StillMeansDone`. A full queue keeps a handler going, and an
  empty one `zmq_server`, so the two cannot wait for each other.
* `ComesToEnd`: `NearsEnd`. A picture costs five steps, from `recv_string` to
  `os.remove`, and every step is one of those.

`FileDispatchProofs`, for any set of files, any `-p`, number of forks and deaths:

* `TypeCorrect`: `TypeOK`.
* `CounterCounts`: `CounterExact`, while no two updates overlap. It is not
  inductive: `check_thread` discounts a child also when `waitpid` found none.
  `CounterInv` adds that it waits only while `active` counts one, and where the two
  threads can be together.
* `NoneLeft`: `NoneLeftUnlessRaced`, from `CounterInv` at the parent's end.
* `Implements`: `ImplementsDispatch`. `PlaceInv` says that a file is in one
  place, `PeerInv` which child the REP socket owes its reply; each step is then a
  step of the service or a stutter.
* `StandsStillDone`: `StillMeansDone`, `ParentEnds` for the states in which nothing
  goes on; `EndInv`: a child that waits is heard while the parent feeds, and
  `check_thread` runs until it is told to exit, which it is before the join.

`DecodeSessionProofs`, for any video, options, retry limit and queue size:

* `TypeCorrect`: `TypeOK` with the relation of the retry counters to the limit.
* `ReceiverInside`: `SessionOutlivesReceiver`; where sender and receiver can be
  together, and that the sender holds the session until the join.
* `AllReceived`: `NothingLost`, from `QueueInv`: packets in the codec, frames in
  it and frames received add up to packets sent, and the empty packet is last.
* `FreedOnce`: `FramesFreed`. A frame that was taken is freed, replaced, at hand, or
  the last; a frame that was retrieved is freed or at hand, also in a process that
  died. `LeftBehindExactly`: `LeftBehind`, from what is held
  at each stage (`HeldInv`). `NumbersRise`: `PicturesNumbered`.
* `Implements`: `ImplementsDecode`.
* `StandsStillDone`: `StillMeansDone`. The empty packet is not lost before the join
  (`EndInv`), so that a codec that lives gives `recv_thread` its last frame.
* `ComesToEnd`: `NearsEnd`. Seven natural numbers, compared from the first on, of
  which every step of the threads, the codec and the server lowers one and keeps
  those before it. What it excepts are the retries in which `recv_thread` of the
  file program finds no frame and counts nothing (`Idles`), and deaths. With
  `StandsStillDone` this is `SessionEnds` but for fairness.

`PipelineProofs`, for any sets of files, processes and picture numbers, and
however often the consumer stops:

* `TypeCorrect`: `TypeOK`.
* `OneOrphanADeath`: `OrphansKnown`, for any set of `BadNames`: a picture that stays
  and was told of in a text that cannot be parsed is not counted to a death. It needs
  a file held by one process (`HeldInv`),
  one request or reply for each decoder (`AskedInv`), and what is asked for or in
  the backlog among the pictures told, below the one being written (`NumbersInv`).
* `NoRewrite`: `NeverRewritten`, from `NumbersInv`, deaths and restarts included.
* `StandsStillDone`: `StillMeansDone`. Until the consumer stops for the first time
  whoever asked is in its hands, and only a living decode is writing (`EndInv`). What
  is left on the ramfs then belongs to a dead decode or is `Unreadable`.
* `DecodesAsPromised`: `ImplementsDecodes`, the decode of every file is one of
  `DecodeService`, whatever happens around it. (TLC does not take a property of
  this form; for one file it was checked as a refinement, before the proof.)

`CListProofs`, for any sets of lists, nodes, values and arrays:

* `TypeCorrect`: `TypeOK`.
* `RingsWhole`: `LinksInverse`. Alone it is not inductive: a pop must not free a
  sentinel, and `reverse` must not leave its ring. The invariant behind this part
  describes rings as sets: every allocated cell has an owner (`Owners`), and a set
  closed under next that contains a list contains all that it owns (`Connected`).
  `EraseKeeps` and `InsertKeeps` say that the two pointer operations keep such
  rings, and every call is made of them.
* `LoopsStayInside`: `LoopPointersLive`; the node a loop goes on with has the list
  of the call as its owner (`LoopInv`).
* `CountsRight`: `CountsAccurate`. `count` is the cardinality of what a list owns,
  but for the target of a clear until the clear ends (`CountInv`), and
  `ReachedIsOwned` says that this is what one comes to by next.
* `Implements`: `ImplementsDeque`, every call does to the sequence of items what
  `Deque` says, in one step, and all its other steps stutter. The second part of the
  module turns rings into sequences: the nodes of a ring, without repetition, each
  the next of the one before and the sentinel at both ends (`Circle`, `OrderInv`).
  `InsertInCircle` and `EraseFromCircle` say what the pointer operations do to the
  sequence; `NodeAdded`, `NodeFreed` and `NodeMoved` what the operations made of
  them do to the items. For each loop an invariant relates what is in the list now
  to what was in it when the call was made (`ClearInv`: a suffix of it; `AssignInv`
  and `CopyInv`: a prefix of what it is to become; `RemoveInv`: nothing equal among
  the items passed; `ReverseInv`: the items passed turned round, then the others);
  together they are `StageInv`.
* `ReadsRight`: `ReadsAgree`, empty, back, front, at, find and equal read from the
  ring what is in the sequence, although some of them trust `count` and others the
  sentinel. It follows from `OrderInv` and `CountsRight`.
* `ComesToEnd`: `NearsEnd`, `CallsReturn` but for fairness. A call is in a later
  part after each step, or its loop has fewer nodes or items before it; the place
  of the loop pointer in the ring is what `StageInv` knows, and `MovedSpot` says
  that `reverse` finds behind the node it moved what was there before.

Following a pointer n times (`Ahead`, `Walk`) is a recursive function of n. The
induction that says what it computes is over a set of numbers, those for which it
goes wrong: if there is one there is a least one (`LeastNat`, from the
well-foundedness of proper inclusion of finite sets), which needs no theorem with
an operator for a parameter.

`XmlProofs`, for texts of any symbols and any length, well-formed or not, but for the
last theorem, which is about prints and what is left of them when they are cut off:

* `TypeCorrect`: `TypeOK`; the position does not leave the buffer, and nothing is
  returned but trees. `TagOpenAhead`, `TagCloseAhead` and `ContentAhead` say where
  each part of the reading leaves the position: never behind where it was, and
  after an opening tag ahead of it. The last byte needs the argument that the code
  rests on: it is read twice, as `<` and as `>`, and cannot be both.
* `HeapIsAccounted`: `HeapAccounted`. With `ControlInv` (what a call has at each
  point; a call that waits for a child has no content yet; what was leaked was
  leaked by a call that failed, and then those that wait for it fail) it is
  inductive. The sums it is made of are recursive functions: `TotalIs` and
  `TotalOfBoth` say, by the same induction over sets of numbers (`LeastNumber`),
  what the sum of a concatenation is, and `OnTop`, `TakenOff` and `NodesSizes` what
  a stack and a tree hold with one more and one less.
* `ComesToEnd`: `NearsEnd`. This is termination in a form that needs no fairness: a
  natural number that every step makes less, so that no run has more than 6 *
  Length + 3 of them. Three shapes of steps are enough for all ten actions: a call
  goes on (`CallGoesOn`), is left (`CallReturns`), or makes another
  (`CallDescends`).
* `ParsesEveryDocument`: `ParsesDocuments`. Any document, of any depth and width, with
  any names, words, contents and white space, and cut off anywhere: the parser returns
  exactly its tree if the text has the whole of it, and NULL if not. The argument has
  three parts. First, what is read of one tag or content that is in its place:
  `ReadsOpeningTag`, `ReadsClosingTag` and `ReadsContent` say that it is read to its
  end and the position left behind it if the text goes that far, and that reading fails
  if not -- in spite of the last byte, which is what there is to read from then on
  (`NextIs`, `LastRead`: it is `>` or white space there, and neither begins anything).
  `NameOfTag`, `AttributesOfTag` and `TagText` say the same of the inside of a tag.
  Second, what is next: `ClosingFollows` and `OpeningFollows`, that the loop over
  children goes on exactly where the document has another child. Third, the invariant
  `CourseInv`: the parser is on course or lost. `OnCourse`: there are a path `o` from
  the innermost element on the stack to the root and a number `n`, so that elements 1
  to n have ended; each call on the stack has the tag of its element and exactly those
  nodes that its children have made so far (a part of `TreeOf`, from the first element
  inside it to the last that has ended); and the position is, but for white space,
  where the document goes on (`AtOpen`, `AtBody`, `AtChildren`, `AtChild`, `AtClose`).
  `Lost`: the text is not whole, and every call fails or waits for one that does. The
  sequence of ended elements takes the place of an induction over trees: a step of the
  parser ends one element or none. TLC had found the invariant true in every state of
  the run before it was proved.

`StillMeansDone` of five modules is the part of their liveness properties that
needs no fairness: what is true where nobody can go on. Each module says so of its
threads one by one (`MainBlocked`, `WorkerBlocked`, ...), because the prover has no
rule for ENABLED; TLC compared `StandsStill` with ENABLED of the steps that the
fairness of the module is about, in every state of the instances, and found them
the same (for the loops that poll, with ENABLED of the steps that change
something).

`TypeOK` of these eight modules, `MutexInv` of `PictureServer`, `StillMeansDone`
and `NearsEnd` are proved, after TLC had found no state or step against them, and
are not among the runs.

Every safety invariant, action property and refinement that a run checks is proved.
Only model-checked: the liveness properties, since the prover has no rule for
fairness.

## Not modelled

* `usage` and the Makefile; `getopt` and `atoi`, of which the models see the
  results. Negative values of `-s` and `-p` are left out (`OptionsAssumption`,
  `BoundsAssumption`). The server with `-t 0` has no worker: `CommandLine` accepts
  it, `WorkersAssumption` excludes it from `PictureServer`.
* The functions of `xml.c` that read a node or a string of the parsed tree: they
  change nothing. Attribute values with a space in them, which the parser splits
  and drops, and values without quotes.
* What the codec library does with a hardware frame after
  `ams_decode_retrieve_frame` (it is not in the repository).
* Heap use of cJSON, log output, times, file contents and names, but for the
  newlines of the address file and the names that spoil a message. `store_2_file`
  and `open_codec_context` have no caller.
* NULL arguments of `clist` calls, which return at once, and the functions that
  only read a field (`begin`, `end`, `rbegin`, `rend`, `size`, `typesize`).
* ZeroMQ's own timeouts and reconnection, except for what `Pipeline` says of a
  consumer that is started again; KeyboardInterrupt in `infer_sim`.

## Plan

Done: the modules above, first the core (`PictureServer`, `PictureService`), then
`CList`, the dispatchers, the session, `InferSim`; then the services of dispatch
and decode with their refinements, the command lines, `Pipeline`, `Xml`, and the
proofs: of every safety property and every refinement that a run checks. What is
left:

1. *Pipeline and `PictureService`*: the consumer of `Pipeline` shown to implement
   `PictureService` until its first stop. The list of the service is a sequence and
   the backlog of `Pipeline` a set, so one of the two has to change first.
2. *Loops in safety form*: what `NearsEnd` is for six modules, for `FileDispatch`,
   whose two polling threads go round without a step that counts.
3. *Streams in `Pipeline`*: addresses handed out by fork instead of by request.
