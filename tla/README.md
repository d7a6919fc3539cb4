# ATLink in TLA+

ATLink is a header-only C++ library that sends AT commands to a modem over a
serial line, waits for their answers, and hands unsolicited result codes (URCs)
to the application. This directory models its concurrent core, its serial
device, and the visitors that write commands and parse answers, model-checks them
with TLC and proves the most important promises with TLAPS. Every definition is
translated from the code under `src/`;
`PROJECT.json` maps each one to the lines it stands for.

## The system

    application threads        loop thread              poller thread
          |                        |                          |
     sendCommand  --- mtx,cond -- handle  <--- events ---  notify(RxReady)
          |                        |                          |
     sem.acquire  <-- release -- receive / dispatchUrcs    poll(fd)
                                   |                          |
                              DeviceIO::read  <---- tty ---- modem

| Component | State | Operations | Hard parts |
| --- | --- | --- | --- |
| `core/fsm/Orchestrator.h` | `mtx`, `condvar`, `state`, `events`, `rxbuf`/`leftover`, `coolDown` | `sendCommand`, `loop`/`handle`, `receive`, `dispatchUrcs`, `notify`, `shutDown`, `timerCallback` | several callers and one loop share the machine; pointers into a caller's frame; a stream of mixed records read in arbitrary pieces |
| `core/fsm/{Idle,SendCommand,WaitForResponse}.h` | the variant, with the request's payload | `process`, `start`, `handle` of `RxReady` / `TxReady` | who is told when a send fails or a request ends |
| `core/Device.h` | none (owns the Orchestrator) | forwards | |
| `core/Urc.h`, the application's dispatcher | none | `dispatch` | what it consumes decides what the parser sees next |
| `platform/linux/{Mutex,CondVar,Semaphore}.h` | the pthread objects | lock, wait, notify, acquire, release | spurious wake-ups |
| `platform/linux/MessageQueue.h` | `queue`, mutex, condvar | `put`, `putFront`, `get` | the notification comes after the mutex is given up |
| `platform/linux/Timer.h` | `running`, `stopFlag`, `generation`, `worker` | `start`, `stop`, `isRunning`, the worker | stop, restart and expiry race |
| `platform/linux/DeviceIO.h` | `fd`, `run`, `subscriber`, `poller` | `read`, `write`, `subscribe`, `pollLoop`, destructor | the poller reports unread bytes for as long as they are unread |
| `core/{Packet,Response,ResponsePack}.h`, `utils/Deserializer.h` | the cursor of the visitor | `accept`, `visit`, `rewind` | alternatives are tried in order on the same input |
| `core/Command.h`, `utils/Serializer.h` | bounded output buffer | `visit` | overflow, escaping |
| `core/Types.h` | `LineText`, `Sequence`, `FixedBufStream`, `QuotedField` | `parse`, `stringify`, `operator<<`, `clear` | cut texts, the NUL |
| `protocols/standard/*.h`, `core/FinalResultCode.h` | none | the packets of the AT standard | each lets the visitor visit something else |
| `utils/EnumStringConverter.h`, `core/Enum.h` | constant tables | `parse`, `stringify` | a binary search with a comparison that is not an order on strings |
| `examples/linux/src/main.cpp` | `g_stop`, four threads | start, Ctrl-C, exit | the order in which threads end and objects are destroyed |
| logger, platform API, registry, build files | | | nothing to check: output, forwarding, compile-time selection |

What makes each correct: the engine answers every caller with its own answer,
one request at a time, loses no wake-up and follows no dangling pointer; the
queue loses nothing and reorders nothing; the timer is silent after `stop` and a
request that waits for it is sent; the descriptor lives as long as its poller and
what arrives is read; a buffer is never overrun, what was written can be read
back, and what is read does not depend on how it was cut into reads; the lookup
finds the record that is there; the application ends.

## Modules

| Module | Models | Correspondence |
| --- | --- | --- |
| `Orchestrator` | the engine, the three states, the device, the line and the modem | variables carry the names of the members and locals; `pc` and `lpc` say where a caller and the loop thread are; one action per atomic step: `Call`, `Lock`, `GateWait`, `GatePass`, `Process`, `Store`, `Unlock`, `Acquire` are `sendCommand`; `LoopGet` ... `LoopStore` are `loop`, `handle` and, between `LoopRead` and `ParseDone`, `receive` / `dispatchUrcs` |
| `CommandService` | nothing of the code: the abstract service callers rely on | requests are served one at a time, each answered once or lost |
| `MCOrchestrator` | nothing: TLC's instance of `Orchestrator` | the symmetry of the callers |
| `MessageQueue` | `MessageQueue.h` | a section under the mutex is one action, `NotifyOne` comes later; `got` is the history of what was handed out |
| `Timer` | `Timer.h` | `owner` walks through `stop` and `start`, `worker` through the lambda; `fired` is the history of the callbacks, by the start they belong to |
| `CoolDown` | `Timer` composed with the machine: `canSend`, `timerCallback`, the handlers of `TxReady` | `machine` is the state of the machine, `txReady` counts the events, `loop` tells whether the loop has one in hand |
| `DeviceIO` | `DeviceIO.h` and the line, which may hang up | `io` walks through constructor and destructor, `poller` through `pollLoop`; `unread` is the kernel's buffer, of which `Read` takes what there is room for |
| `ExampleApp` | `main.cpp` over `DeviceIO` and a coarse engine | `main`, `at`, `dev`, `poller` are the four threads; `reply` is what the modem still has to send, `rxbuf` what was read and not parsed, `answer` what has become of the call |
| `Packet` | `Packet.h`, `Command.h`, `Response.h`, `Urc.h`, `FinalResultCode.h`, `protocols/standard` | a packet is the sequence of items it lets a visitor visit; `Must` items end `accept` when they fail, `May` items are the visits whose result is thrown away |
| `Serializer` | `Serializer.h`, `FixedBufStream`, `QuotedField` | `next` is the item visited, `out` what is written, `room` the size of the buffer; one action per overload of `visit` |
| `Deserializer` | `Deserializer.h` | one operator per overload of `visit`: whether it succeeded, the cursor, what it stored |
| `ResponsePack` | `ResponsePack.h` | `alt` and `step` are where `tryAll` and `accept` are, `length` is the visitor's cursor, `value` what the pack holds |
| `Codec`, `MCCodec` | the two visitors together, over a line that delivers in pieces; TLC's characters and texts | `origin` tells whether the host's command or the modem's text is read |
| `EnumLookup` | `EnumCustomStringConverter` | `Halve` is one iteration of `std::lower_bound`, `Decide` the rest of `lookup` |
| `OrchestratorProofs`, `AnswerProofs`, `MessageQueueProofs`, `TimerProofs`, `AppProofs`, `LookupProofs`, `CodecProofs` | | the theorems |
| `Induction` | nothing of the code | induction over the natural numbers and functions defined by recursion, for the last two |

Abstractions. Bytes are parts of records: a response, a final result and a URC
consist of two parts each, so a read may end inside a record or between two.
Parsing is whether the record at the front is complete and of the wanted kind.
A response counts as complete when all of it has arrived: every line of a
`MultiLineResponse` and every `Response` ends in a terminator that must be there, and
`SplitKeepsVerdict` checks at the level of characters that nothing is taken before.
A command is its caller and the number of the call. The dispatcher is one of
three kinds: consumes nothing, consumes URCs, or consumes any line (a pack that
ends in `AnyUrc`). In `ExampleApp` a record is not cut, but an answer is: it is a response
and a result, a result alone (`ERROR`), or nothing, and `DevHandle` handles one event as
`handle` and `receive` do: it reads what the buffer has room for, takes what it can from the
front, and forgets what it took unless it took both. In `EnumLookup` letters are
numbers. At the text level a text is a sequence of characters, of which a few are
enough to tell the visits apart, and a
tag or the name of an enum value is one character: it is only ever written,
searched at the front, or skipped as a whole. (Names one of which is a prefix
of another are the subject of `EnumLookup`.) `INT_MAX`, the storage of a line and of a quoted
field are constants. The packets of the unit tests serve as the ones with a
quoted field, because no packet of the library has one. The modem, the serial line,
`string_view` and `lower_bound` are marked external in the map.

What holds by the code and was kept visible: nothing starts `coolDown`, so in
`Orchestrator` `CanSend` is constantly true, the machine never rests in `SendCommand`
and `TxReady` is never queued. `CoolDown` lets somebody start and stop the timer at will:
it says what the machine makes of a cool-down once one is started.

## Runs

| Run | Question | Bounds |
| --- | --- | --- |
| `safety` | does every reply reach its own caller, one request at a time, is a wake-up lost, a result swallowed? `TypeOK`, `NoOrphan`, `LiveFrame`, `GateHolds`, `OwnAnswer`, `NoLostWakeup`, `ResultKept`, `ServedUntilAnswered`, and the refinement `ServiceSpec` | 3 callers, a dispatcher that takes any line, `ERROR` replies, failed writes, stop, pieces, a receive buffer of three parts |
| `returns` | which calls return? `CallReturns`, `InputDrained` | 2 callers, with and without a response, answers in pieces, a receive buffer of four parts: a response with its result fills it, so a leftover in front of an answer splits it |
| `queue` | is a wake-up or a message lost, is one handed out twice or out of order? `NoLostWakeup`, `HandedOutOnce`, `InOrder`, `Drained` | 2 producers, 2 consumers, 2 messages each |
| `timer` | does the timer keep its promises, and is a request that rests during a cool-down sent? `SpawnIsFree`, `SilentAfterStop`, `RunningMeansAlive`, `FiresOnceForCurrent`, `Ends`, `StopReturns`, `RestingIsAnnounced`, `RestingIsSent` | 3 starts: one to replace another that replaces a third; requests without bound |
| `app` | in which order does the program end, and does it? `NoCallAfterLoop`, `CallsEndBeforeDestruction`, `DescriptorOwned`, `CtrlCStops`, `SendsOn`, `ArrivedIsRead`, `DestructorReturns` | answers whole, in two pieces, without a response or not at all; 2 URCs, a receive buffer of 3 records (an answer and a URC), 2 queued events, a TTY that fails at any point of its configuration, writes that fail, a modem that is unplugged |
| `codec` | is what is written whole, and is what is read right? `OutputFits`, `WritesWhole`, `RoundTrip`; `CursorInUnlessIllQuoted`, `FirstMatch`, `SplitKeepsVerdict` | every text of up to 5 chunks out of 4 to 6 for each of 4 packs; quoted fields of up to 3 characters filled by up to 2 operations; buffers of 8 sizes around the length of the command |
| `lookup_prefix_free` | does the search find what is there? `Partitioned`, `FindsPrefix`, `RoundTrip` | all sorted tables of up to 3 strings of up to 2 letters, all inputs of up to 3 letters |

Two callers are enough for every conflict at the gate between one that waits and
one that is served; the third in `safety` makes `notifyAll` differ from
`notifyOne`. Two parts per record are the fewest that can be split. In `codec` five chunks
are a whole answer of two records with a line break in front, or one with something in
front that a failed alternative consumes; a line and a field are two or three characters
long so that they overflow.

Exemptions that the properties of `codec`, `app` and `timer` name:

* `IllQuoted`: the text in front of the parser is one where a quoted field is due and
  is missing or does not fit. `parseStringLiteral` reports two characters more than it
  copied whatever it found; `quoted_cursor` shows what follows.
* A quote inside a field: it is written as `\"` and read as the end of the field.
* `Hopeless`: the pending call can not end, because the command was not written, the modem
  does not answer it or is gone, a URC stays at the front of the buffer, or part of the answer
  was parsed in a read of its own: either the response came first and was forgotten, or there
  is none, as with `ERROR` (the runs `split_answer` and `error_reply` show both step by
  step).
* `Room = 0`: the receive buffer is full of what the dispatcher of the example leaves in it,
  and `ArrivedIsRead` can not hold any more (`DeviceIO.h:115` reads nothing into a buffer
  without room).
* `missed`, and a timer that was stopped: the worker calls back before it clears `running`
  (`Timer.h:71` and `74`). A request that comes in between, after an idle machine has
  ignored the `TxReady`, rests until the timer is started again; and nobody tells a
  request that rests when the timer is stopped.

Runs that end in a violation show where the code and what it says of itself
disagree:

| Run | What happens |
| --- | --- |
| `split_answer` | the response is read before its final result arrives: `receive` forgets it has seen the response, and the call blocks for ever |
| `error_reply` | a command with a response is answered `ERROR`: `receive` still wants the response |
| `failed_send` | a command could not be written: the machine is idle again, the caller blocks |
| `quoted_cursor` | a read ends right before a quoted field: the cursor moves past the end of the text, and the next visit throws `std::out_of_range` out of `loop` |
| `lookup_prefixes` | `SIM_PIN2` is parsed as `SIM_PIN` |

The liveness properties of the passing runs name these cases: `CallReturns` holds of
every call whose command was sent, as long as the loop runs and no response and
final result are read apart (`HalfRead`). The run `returns` leaves `ERROR` replies out,
which `error_reply` covers. `SendsOn` and `CtrlCStops` of the example hold
unless the call is `Hopeless`: the example's
dispatcher returns 0, so the first URC that is read blocks every later answer,
the AT thread never returns from `sendCommand`, which has no timeout, and `main`
waits for it after Ctrl-C. A silent modem has the same effect. `main.cpp` says that
"device.loop() has no stop mechanism"; it has one, `shutDown`, and line 166 uses it.

## Fairness

`Orchestrator`: each thread runs on when it can (weak fairness per caller and for
the loop); `poll()` reports unread bytes (weak fairness of `Poll`); the line
delivers what was sent (`ModemEmit`). Strong fairness of taking the mutex: a mutex
that is free again and again is granted in the end; without it a sleeper that
keeps waking up spuriously could keep the others out for ever. No caller has to
call, no URC has to come, nothing has to wake up spuriously or to be stopped.
`MessageQueue`: `notify_one` follows `push_back` in the same thread, and consumers call
`get` again as `loop()` does. `Timer`: both threads run, and a duration ends.
`CoolDown`: as `Timer`, and the loop runs. `ExampleApp`: every thread runs, and the
line delivers what the modem has decided to send, which may be nothing; `poll` is
interrupted or times out again and again at most while nothing is there (strong
fairness of `PollReady`). Nothing
is assumed of the modem's presence, of Ctrl-C or of writes.

## Proofs

For every value of the constants (any set of callers, any bounds, any kind of
dispatcher and modem), from the assumptions that the modules name:

* `OrchestratorProofs`. Inductive invariant `Inv`:
  `MutexInv` (only the holder of `mtx` is inside a critical section),
  `ClientInv` (what a caller's locals are at each of its steps),
  `LoopInv` (`next` belongs to the section under way),
  `FrameInv` (the payload of `WaitForResponse` is the pending call of a caller that
  blocks with its semaphore at 0), `NoOrphan`, `NoLostWakeup`, `GateHolds`, `TypeOK`.
  None of the properties is inductive alone: that no caller is orphaned needs
  that the gate lets one pass at a time, that needs the mutex, and that a frame is
  alive needs that nobody else is served. The proof has one lemma per action;
  from `Inv` follow `TypeCorrect`, `SpecMutualExclusion`, `SpecNoOrphan`,
  `SpecLiveFrame`, `SpecNoLostWakeup`, `SpecGateHolds`, and, action by action,
  `SpecImplementsService`, the refinement of `CommandService`.
* `AnswerProofs`. `AnswerInv`, inductive beside `Inv`, follows the answer from the
  modem to the caller. What a stretch of the line holds is told by four operators that
  distribute over `\o` (`JoinFacts`), so that a read, which moves parts from one buffer to
  the next, changes nothing: `Owners` (whose answer is in it), `Results` (whose final
  result begins in it), `Ended`, `ResultLast`. `OwnersInv`: the line holds answers to the
  pending request only. `OrderInv`: behind a final result there are only URCs.
  `KeptInv`: the final result of the pending request is on the line or in its caller's pack.
  `FilledInv`, `VerdictInv`, `ReturnInv`: what the loop claims to have parsed is in the
  caller's objects, and a caller that is let go has it. The heart of it: the machine
  becomes idle only when both parts of the answer were parsed, the result is the last of
  them, hence nothing stale is left when the next command is written. From it
  `SpecOwnAnswer`, `SpecResultKept`, `SpecServedUntilAnswered`.
* `MessageQueueProofs`. `SpecNoLostWakeup` counts: every push adds a thread that
  will notify, every notification that finds a sleeper turns it into one that
  will look, every pop takes one message and one such thread. `SpecHandedOutOnce` is about
  what was handed out followed by what is queued: a pop moves the border and changes
  nothing else, a put adds a message with a number above all its producer has used, at the
  border or at the end. `SpecInOrder` needs that all of it is sorted per producer as
  long as nobody calls `putFront`; then everything a producer has put before a message
  that was handed out stands in front of it, and was handed out too.
* `TimerProofs`. The invariant ties the thread object, the flag and the
  generation to where the owner is: a thread that can act is owned, the flag is
  set from arming to the worker's end, a worker that can act belongs to the last
  start. From it `SpecSpawnIsFree`, `SpecSilentAfterStop`, `SpecRunningMeansAlive`,
  `SpecFiresOnceForCurrent`.
  The rest is about `CoolDown`: every step of the composition is a step or a stutter of
  the timer (`CoolDownIsTimer`), so the theorems about `Timer` hold in it.
  `SpecRestingIsAnnounced` needs what the owner does next: as long as it has not taken
  effect, the worker of the last start has not given up (`ArmedInv`), so a request that
  rests has a worker to announce it (`RestInv`).
* `AppProofs`. Only the AT thread asks the loop to end, and only when it is done
  (`SpecNoCallAfterLoop`); `main` goes on only when it has joined the AT thread
  (`SpecCallsEnd`); the constructor starts the poller last and the destructor joins it
  before it closes the descriptor (`SpecDescriptorOwned`).
* `Induction`. Numbers, escapes, sentences and the ends of a packet are defined by recursion
  over data. The library states induction of an operator, which the provers cannot
  instantiate; but that every set of naturals that is not empty has a least element follows
  from the well-foundedness of `<`, and from it induction stated of a set
  (`SetInduction`, `BoundedInduction`) and that a function defined by recursion satisfies its
  equations (`BoundedRecursion`). A proof by induction defines the set of the numbers it
  holds for.
* `LookupProofs`. `LookupInv`: everything before `first` is smaller than the input and
  everything from `first + len` on is not, for tables and strings of any length. That the
  comparison is fit for a binary search (`SpecPartitioned`) needs that no string of the
  table is a prefix of another (`Shadowing = FALSE`, the hypothesis of these theorems; the
  run `lookup_prefixes` shows what happens otherwise): two strings that are not
  prefixes differ at a first letter, and the comparison with the input is decided at or
  before it. From both `SpecFindsPrefix` and `SpecRoundTrip`.
* `CodecProofs`, the serializer. `WriteInv`: what is written is `Sentence(next - 1)`, the
  pieces of the items visited, and a refused piece would have left no character to
  spare. It needs that every piece is a text (`CommandPieces`: digits by induction over
  the number, escapes over the text) and that sentences grow (`SentenceLonger`). From it
  `SpecWritesWhole` and, with `TripInv` (below), which bounds the field's content,
  `SpecOutputFits`.
* `CodecProofs`, the deserializer. Every visit is sound (`VisitSound`): it
  succeeds exactly when the item has a text in front of the cursor, and stops at its end.
  That is not enough, since a sentence may be cut into texts in several ways (an
  optional CRLF that is not there leaves the blanks to the next item, or not), and
  the visitor follows one. `Covered` says that its cursor stands for all of them: where any
  cut can go on, it goes on alike from the cursor. `ParseInv` adds that the
  alternatives before the one on trial have no sentence. `CoverStep` carries `Covered` over
  a visit, from a shape that every packet of every pack has (`WellFormed`,
  `PacksWellFormed`): a number is followed by a literal that is no digit, a line is
  between an optional CRLF and a CRLF, only a CRLF is optional. TLC checked `ParseInv` as
  an invariant of the instance of `codec` before it was proved. From it
  `SpecCursorInUnlessIllQuoted` and `SpecFirstMatch`.
  Texts are over `Chars`, the digits, literals, names and characters the packets are made
  of, and any others: the provers do not know that a literal such as `"OK"` is in `STRING`.
* `CodecProofs`, an answer read in parts (`VerdictStands`, for every pack and whatever text
  follows). A packet ends with a CRLF, so all its sentences in a text have the same end
  (`OneEnd`). More text takes none of them away (`EndsLonger`): an optional CRLF could only
  appear where the text stops short of it, and while a sentence is still to come there is
  room for one (`OptionalHasRoom`). And it makes no earlier alternative fit: in the packs of
  results the tags are distinct and the one in the text decides (`TagFound`, `PackTags`); in
  the pack of URCs, whose last alternative takes any line, a named URC has no CR before its
  end (`CpinNoCr`), hence it cannot end behind the line that was taken
  (`CpinStaysAbsent`). With `ParseInv` that is `SpecSplitKeepsVerdict`.
* `CodecProofs`, what was written is read back. `NumberOf`: `from_chars` reads what `to_chars`
  writes, by induction over the number (`DecimalReadAs` follows the value digit by digit) for
  every number up to `IntMax` of either sign. `NothingToEscape`: a text without a quote is its
  own escape. Every piece of the command stays where it was put (`PieceThere`), and a visit
  of its item from there takes exactly the piece and stores the value it was made of
  (`ReadPiece`); a number ends because a comma follows (`CommaFollows`), a string fits
  because streaming never fills more than `Capacity` (`FillFits`). `TripInv` says that the
  cursor is where as many pieces end as items were visited and that the candidate holds as
  many values; it is inductive beside `WriteInv` and `ParseInv` (`SpecTripInv`), and TLC
  checked it on the instance of `codec` first. From it `SpecRoundTrip`.

The assumptions on the constants are the ones of the modules: bounds are natural numbers,
a line and a quoted field have room for a character, `INT_MAX` is at least the largest code of
an enum (500), the chunks that arrive are texts.

With these every safety property that a passing run checks, invariant or action property, is
a theorem. Only model-checked: the liveness properties (`CallReturns`, `InputDrained`,
`Drained`, `Ends`, `StopReturns`, `RestingIsSent`, `CtrlCStops`, `SendsOn`, `ArrivedIsRead`,
`DestructorReturns`), since fairness and `ENABLED` are out of the prover's reach.

## Not modelled

* The logger (`api/Logger.h`, `linux/Logger.h`, `DeviceIO::print`): output, which no other
  component reads.
* The platform facade, registry and concept checks, `Detector`, `Overload`,
  `ResponseHandler`: compile-time selection without state.
* The choice of a serial port in `main.cpp`: user interface.
* `waitFor`, `tryLock`, `notifyOne` of the primitives and `setHandler` of the timer: no
  caller, or one before anything runs.
* Addresses: `LineText` and `FixedBufStream` point into the object that owns the storage, and
  a copy keeps the pointer of the original. The models hold values, so a pack's value is
  what was parsed, not what a reader of the stale pointer sees.
* What happens after `device` is destroyed: the detached loop and the poller may still use
  it until the process ends. `ExampleApp` lets them run on and claims only that no call is
  pending then (`CallsEndBeforeDestruction`).

Hazards that no property covers are listed in `PROJECT.json` with the reason.

## Plan

1. The lemmas that liveness rests on and that are not temporal: from every state in which a
   message is queued or an answer has arrived, some step of the loop is possible.
2. Larger instances where the machine allows: three callers with two calls each.
