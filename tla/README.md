# A verification project for the signed-OTA device firmware

The repository is an ESP32 application (`main/`) on a vendored copy of the
Arduino core (`components/arduino-esp32`). On every boot the application asks a
server for a firmware image, streams it into the other OTA partition with the
`Update` library, and restarts into it; the configuration (`sdkconfig`) requires
images to be signed, on update and on boot. This directory holds TLA+ models of
that system, the TLC runs that check them and the proofs TLAPS checks.

## Inventory

| component | state | operations | hard behaviour |
|---|---|---|---|
| `UpdateClass` (`libraries/Update`) | `_error _buffer _bufferLen _size _progress _command _partition _target_md5`, the flash, the OTA data | `begin write writeStream end abort setMD5 clearError canRollBack rollBack` | resets between flash operations, failing erase/write/read, torn erases and writes, size arithmetic in `size_t`, calls in any order |
| `FirmwareUpdates.cpp`, `Main.cpp` | where a download stands | `StartFirmwareDownload`, `processFirmwareUpdateResponse`, restart | one step of several failing, wrong content length, reset at any point |
| `HttpRequestManager.cpp` | globals: pending flag, completion status, time of the request, callbacks, buffers | `httpRequest`, `checkForHttpResponse`, `handleHttpResponseComplete`, `CancelHttpRequest` | poll against main thread, requests made in callbacks, timeouts against late data, loss of WiFi and of the connection |
| `lib/Timer` | slots of events, `millis()` | `every after oscillate pulse pulseImmediate stop update` | callbacks that change the table that is being walked, wrap of the clock |
| `Logging.cpp` | `_threadLoggingLock` | `CT_LOGx`, `CT_LOG_LINE` | a home-made spin lock |
| `WifiManager.cpp` | connecting flag, "can't connect" mode, start time | `AttemptConnect Reconnect WaitForConnectResult DisplayConnectToWifiStatus ForgetWifiNetwork` | timeouts in a 16-bit and in a wrapping clock, a status that changes between two looks |
| WiFi station (`WiFiGeneric.cpp`, `WiFiSTA.cpp`) | `_sta_status_group`, the event queue, the driver's configuration | `begin disconnect _eventCallback _setStatus` | three tasks, a queue of pointers to one variable, automatic reconnection |
| `WiFiClient.cpp` | socket, receive buffer (`_fill`, `_pos`, `_failed`), `_connected` | `connect read peek available flush write stop connected` | bytes that take three ways through a buffer, partial sends, a client that stops itself |
| response parsing in `HttpRequestManager.cpp` | the line, what the headers said, `responseBuffer` | the poll, line by line and byte by byte | packet boundaries, timed reads, a connection that breaks |
| version check in `FirmwareUpdates.cpp` | `cachedFirmwareCheckResult`, `highestVersionOnAPI` | `FirmwareUpdateAvailable`, `SetHighestFirmwareAPIVersion` | a cached answer that outlives its question, a copy without its terminator |
| `HTTPUpdate`, `ArduinoOTA` | `_state`, `_size`, `_cmd`, `_md5`, the open update | `handleUpdate runUpdate`, `handle _onRx _runUpdate` | what one client leaves in the updater is found by the next; timeouts and retries |
| other Arduino libraries | `cbuf`, resolver, BLE, file systems, ... | - | not modelled |

How they interact: `setup()` calls `StartFirmwareDownload()`, which calls
`httpRequest()` with `processFirmwareUpdateResponse` as process callback;
`checkForHttpResponse()` reads the headers of the response and calls it; it
drives `Update`; `Update` drives the flash through `Esp.cpp` and the OTA data
through `esp_ota_set_boot_partition()`. Nothing in this snapshot calls
`checkForHttpResponse()` or `handleHttpResponseComplete()`: that the first is
polled from a background thread and the second from the UI thread is what the
comments in `HttpRequestManager.cpp` (lines 405 and 418) say, and both the
threaded and the unthreaded reading are modelled. Nothing calls
`ConnectToWifiDisplay()` either, the one way into
`DisplayConnectToWifiStatus()`; `httpRequest()` calls
`WaitForConnectResult()`. The main loop runs `timer.update()`. So no property
assumes that the polls or the display are called: what is said of them is what
holds whenever they are.

What makes each part correct: an image gets selected only whole and verified,
and a digest is kept to whatever the client does (Update); a restart only into
what was sent, and a failure that leaves nothing behind (FirmwareUpdates); one
answer per request, its own, and none forgotten (HttpRequestManager); events
that fire when and as often as asked (Timer); a lock that is never left behind
(Logging); a status that follows the station, and waits that end (WiFi station,
WifiManager); no byte lost, repeated or overtaken (WiFiClient); the body and
nothing else, however it arrives (response); the order of versions (version
check); an updater that every client leaves free (HTTPUpdate, ArduinoOTA).
`PROJECT.json` lists every component, the ones left out with the reason, and
the hazards with the line where each one bites.

## Modules

* `Updater` models `UpdateClass` with the flash. The object belongs to one task,
  so calls do not interleave, but a call is cut into one action per flash
  operation because the flash outlives a reset between two of them
  (`PowerLoss`). `pc` is the call in progress, `flush` the place inside
  `_writeBuffer()` (`CheckMagic`, `EraseSector`, `WriteFlash`), `left` the loop
  variable of `write()`. A byte of flash is a `Cell`: blank, the magic byte,
  garbage, half erased (`Torn`) or "the right byte of image i here". Programming
  follows NOR flash (`Programmed`): only blank bytes take any value. A write
  that fails may have programmed any prefix, and an erase that fails, or that a
  reset cuts short, may have left any of the sets `Tears` of bytes of its sector
  half erased (`HalfErased`). `peek()` in the middle of an image may see the
  magic byte (`NextMayBeMagic`). `remaining()` wraps like `size_t` (`Minus`).
  `Deliverable` is the client's side: it offers `Surplus` bytes more than fit
  the declared size; the code itself compares with `remaining()` only. External,
  modelled from their use and from `sdkconfig`: what
  `esp_ota_set_boot_partition()` and the boot loader accept (`Verified`), the
  choice of the boot loader (`Restart`), and the refusal of the flash driver, by
  a panic, to touch the running partition
  (`CONFIG_SPI_FLASH_WRITING_DANGEROUS_REGIONS_ABORTS`, `Panic`).
* `AtomicUpdate` is what the two app slots promise: the idle slot loses its
  image, gets the offered one in one step or not at all, and is selected only
  when it holds a genuine image. `Updater` implements it (`Abstract`, with
  `Slot(p)`, the genuine image whose bytes slot p holds, as refinement mapping).
* `FirmwareUpdates` extends `Updater` by the handler of the firmware response.
  The content length comes from a header that is read into an uninitialised
  record, so it is any of `Lengths`. The removal of a leading newline before
  `begin()` only changes whether `writeStream()` finds the magic byte first,
  which `WriteStream` leaves open.
* `UpdateClients` extends `FirmwareUpdates` by the sessions of `HTTPUpdate` and
  `ArduinoOTA` on the same `Update` object, all in the task of `setup()` and
  `loop()`: one session at a time, but each finds what the one before left.
  The request of `HTTPUpdate` is reduced to the answers that get as far as
  `begin()`; the nonce and the digest of `ArduinoOTA` to whether the answer is
  accepted, and its data come from whoever answered. Both may be told not to
  restart (`rebootOnUpdate(false)`, `setRebootOnSuccess(false)`): a success then
  leaves the new firmware selected while the old one runs on, which the history
  variable `kept` notes.
* `VersionCheck` models the comparison; a version text is the sequence of what
  stands between its dots, and `NextSegment` is what `strtok()` finds next. A
  text that does not fit the copy of `CopySize` bytes with its terminator
  (`Fits`) may get any verdict (`Verdicts`). `Number` is the reference order:
  the first three numbers of a text, found by counting (`Rank`), as the digits
  of one.
* `HttpRequestManager` models the globals of a request and the two threads,
  `mainPc` and `pollPc`. With `Background = FALSE` the poll runs only between
  calls of the main thread. A success or error callback may make the next
  request: `callers` is the stack of what `httpRequest()` returns to, and the
  caller then finishes as if nothing had happened. Which request an error was
  noted for (`failed`) is kept apart from whose callbacks are installed. The
  process callback makes no request: the one there is, the firmware's, restarts
  or returns.
* `ResponseReader` models the reading of one response by the poll: which parts
  of the text have arrived is a variable, so every packet boundary is a case.
  What `readBytesUntil()` returns after its second of patience is judged like a
  line (`cut`). A connection that breaks makes `available()` of
  `WiFiClientSecure` negative once, which the poll takes for data (`Breaks`);
  the body then gets a byte that nobody sent (`NoByte`). The value of a header
  is read from a fixed place of its line, so text before the name gives any
  number (`LengthAfter`). `WellFormed` says what a response is: a status in its
  first line only, at most one `Content-Length`, which fits the line buffer, and
  an empty line, the first of which ends the headers (`HeadersOf`).
  `HttpRequestManager` has the outcome as one step.
* `WiFiStation` models the driver's events on their way: the event loop of the
  IDF takes one into its variable and queues a pointer to it; the
  `network_event` task follows the pointer, which by then shows the latest
  event, and which may change between two looks at it (`Receive`,
  `Overwritten`), sets the status in two steps and may call `disconnect()` and
  `begin()`, both forms of which may fail. The radio is external and may do
  anything.
* `WifiManager` extends it by the application. A call is cut where it reads the
  status again. `CantConnectMode()` has only a commented body, which is used.
  The clock is followed during an attempt and during a wait only; each of them
  finds it at any value, and between two looks it moves by 1 to `MaxDelay`
  (`Round`), for the loop that waits delays 10 ms. `age` and `timely` are
  history variables.
* `WiFiClient` models one TCP connection at a time. Bytes are numbered by the
  peer, so that order and loss show; `fillBuffer()` is a set of outcomes
  (`Fills`). A `read()` on a client that has stopped itself is a reset
  (`NullRead`).
* `Timer` models the slots; `update()` visits them one by one (`at`), a callback
  (`inCallback`) may call the timer again. A slot's `pin` is the event's own
  `pinState`, the level it wrote last; events may share a pin. `waited`, `fired`
  and `ended` are history variables for the properties.
* `Logging` models the lock with the test and the set as separate steps. The
  read in the loop is a data race: `ReadOnce` chooses the build.
* `MC*` modules give small sets. `*Proofs` modules extend a model and hold its
  theorems: `UpdateProofs` (in three parts: what an update touches, what the
  flash holds of the image, the clients), `HttpRequestManagerProofs`,
  `ResponseReaderProofs`, `VersionCheckProofs`, `TimerProofs`, `LoggingProofs`,
  `WifiManagerProofs`, `WiFiClientProofs`.

Definitions commented "Slip" are wrong versions of the definition after them.
They are used by no specification; replacing the right one by the wrong one has
to make a run fail (`mutants` in `PROJECT.json`).

## Runs

Passing:

| run | what it shows |
|---|---|
| `updater` | for clients that keep to the declared size and call `end(false)`: `PartialNotBootable`, `TouchesTargetOnly`, `SelectsWhatWasSent`, and the slots refine `AtomicUpdate`, with torn erases and writes and resets |
| `updater_any` | clients that deliver a byte too many, write nothing or use `end(true)`: `BusyAgrees`; an `end()` that was given a digest selects the whole image with that digest or fails (`DigestProtects`); every call returns |
| `update_clients` | the download, `HTTPUpdate` and `ArduinoOTA` in turns, with lengths a byte wrong, timeouts, flash failures and resets, restarting after a success or not: a restart only into what was sent (`RestartsIntoSent`) and, for ArduinoOTA, into what the invitation named (`InstallsInvited`); failures leave the old firmware selected and the updater free (`FailuresAreClean`, but for a faulty `x-MD5`); every session ends |
| `http` | at most one answer per request, its own, with callbacks that make requests; none is dropped without an answer or a status to report, but for one made in a callback (`NoRequestForgotten`) |
| `response` | unless the read of a line ran into its timeout: a success is the body from its start (and one byte nobody sent if the connection broke then), the length of a line that starts with `Content-Length` is learnt; a response that is there as a whole is taken as a whole unless the connection breaks; the poll ends |
| `timer` | counts, the level a pulse leaves, no early firing, none overlooked, across the wrap of the clock |
| `logging` | a lock that is set has an owner and is freed, by threads that log without end |
| `wifi` | the status settles on the state of the station, and catches up with it, although events overwrite each other; attempts are not given up too early; waits end, but for deadlines near the wrap |
| `rx` | no byte received goes astray, none sent is repeated or overtakes another, a sound connection is kept, calls return |
| `version` | the verdict agrees with the order of versions for every text that fits its copy, and is stale only after a change |

Violations, each a disagreement between the code and a comment of the
repository (quoted in `findings`):

| run | the code |
|---|---|
| `updater_end_error` | `end(true)` ignores that its flush failed (`ErrorFailsEnd`): the erase fails, the update is reset, and it goes on to select the previous image of the slot, with success as answer |
| `http_thread` | with a background poll the response of one request reaches the callback of the next |

The constants of the models show more of this kind, which have no run of their
own; each is one change of a `.cfg`:

* `Surplus = 1` in `MCUpdater.cfg` with `TypeOK` or `TouchesTargetOnly`:
  `write()` and `writeStream()` compare with `remaining()`, which does not count
  the bytes in the buffer, so a client that delivers a byte too many passes the
  declared size and `remaining()` wraps;
* `SlowCallbacks = TRUE` with `NeverEarly`: an event that a slow callback arms
  is younger than the time `update()` works with, and fires in the same pass;
* `OneWriter` (`Logging`): test and set of the lock are two steps, so two
  threads print at the same time;
* `MinChunk = 0` with `TouchesTargetOnly`: `write(data, 0)` on a complete image
  erases a sector of it, or the one behind the partition;
* `EndModes = {TRUE}` with `PartialNotBootable` or `ImplementsAtomicUpdate`:
  `end(true)` puts the magic byte in front of a partial image, and may complete
  an image that is not the one of this update;
* `ClockAtZero = TRUE` with `NoRequestForgotten`: a request sent when
  `millis()` reads 0 is never polled and never times out;
* `RearmSelf = TRUE` with `FiresAsOftenAsAsked`: a callback that stops its own
  event and arms its slot again has the new event counted as fired.

That a thread that waits for the log lock gets it is claimed nowhere: the others
may take it again and again, and a build that reads the lock once, before the
empty loop (`ReadOnce = TRUE`), never comes back.

Met while modelling, and visible in the actions: `canRollBack()` answers true
for an image that `esp_ota_set_boot_partition()` refused; `writeStream()` after
a `write()` that filled the buffer asks for 0 bytes and reports a timeout; a
request without WiFi stays pending (`NoWifi`); `pulse()` leaves the pin at its
starting value, not at the inverse as its comment says; error texts are copied
by the length of the empty destination, so no error text arrives. The
exceptions that the properties name are of this kind too: after AUTH_EXPIRE the
status still says connected, so that nothing reconnects (`StatusSettles`); an
attempt that begins after `millis()` has outgrown a `short` is given up at once
or never (`timely`); a wait whose deadline lies in the last 10 ms before the
wrap of `millis()` can miss it (`Endless`); a request that a callback makes is
forgotten (`NoRequestForgotten`); `flush()` with bytes in the receive buffer
stops a sound connection or never returns (`SoundConnectionKept`, `CallsReturn`
of `WiFiClient`); `write(Stream)` leaves a hole after a write that ran out of
tries (`cut`); a faulty `x-MD5` leaves the update open (`FailuresAreClean`); a
server that pauses for a second behind the first character of a line ends the
headers, and header text is handed out as the body (`cut`); one character is
taken for an empty line, so a header line whose last piece of 255 is one
character does the same (`ReaderAssumption` excludes it); a broken connection
adds a byte to the body (`SuccessIsPrefix`); a version text of 16 or more
characters is read past its end (`Fits`); `FirmwareUpdateAvailable()` keeps its
first verdict (`StaleOnlyAfterChange`). `setup()` installs a firmware on every
boot without comparing versions, so with a working server the device restarts
for ever; the repository does not say what should end this.

### Bounds

* Flash: three partitions of two sectors of two bytes. That is the least with a
  sector boundary inside a partition, a first and a later sector, and a
  partition behind the target. Images are 3 bytes (ends inside a sector), 4
  (fills the partition) and 5 (does not fit). Writes are 1 to 3 bytes, so that
  one call crosses a sector. `SizeT` is larger than everything but wraps. A torn
  erase leaves any set of bytes of its sector half erased. The data partition is
  written in `update_clients` only; the theorems cover it.
* Clients of the updater: partitions of one sector of two bytes and images that
  fill them, a firmware and a text that is none; declared lengths a byte too
  short, right and a byte too long; one retry; torn erases of the second byte.
  Deeper flash geometry, and unsigned images, are the business of `updater`.
  About a million states.
* Response: six responses (short lines, split line, empty body, text before
  `Content-Length`, other status, no status), a line buffer of 4; a content
  length is counted in units, and the one that nothing has set is 0, 1 or 2
  (`MaxLength`).
* WiFi: one network, two events under way, three reasons that go the three ways
  of `_eventCallback()` (status and no reconnection, status and reconnection,
  no status and reconnection); patience of one tick, rounds of one or two, a
  `short` of 4 values and a clock of 5, so that the first times fit a `short`,
  others do not, and a round can jump over the last value. About a million
  states.
* WiFiClient: a receive buffer of 3, reads of 1 to 4 and four bytes per
  connection reach all three ways through `read()`; chunks of 2 and writes of up
  to 3 make `write(Stream)` go round twice.
* Version check: up to five segments of 0, 1 or nothing around 0.1.0; a copy of
  8 bytes, which five numbers do not fit.
* HTTP: three requests, made by the application or in a callback, the second
  with a process callback; timeout of two ticks; three polls without a
  connection instead of 25.
* Timer: two slots, a clock modulo 3, periods 1 and 2, three events per
  behaviour, so that a slot is used again; the clock stops when an event has
  fired twice (`MaxFired`). The largest run (12 million states).
* Logging: three threads, lines of two pieces, calls without end.

### Fairness

* `Updater!FairSpec`: a call that has started goes on. Nothing is assumed of the
  source of the data (`StreamRead` is not fair); `readBytes()` has a timeout.
* `UpdateClients!UcFairSpec`: a session that has begun runs on. Nothing is
  assumed of servers: every wait for data has a timeout. The download counts as
  a session from its response on, for nothing polls for that in this snapshot.
* `ResponseReader!FairSpec`: the poll runs on; the server may fall silent.
* `WifiManager!FairSpec`: a `WaitForConnectResult()` that was called goes round
  its loop, and the two event tasks are scheduled (weak fairness). Nothing is
  assumed of the radio, nor that the application calls anything.
* `WiFiClient!FairSpec`: a call that has started goes on.
* `HttpRequestManager` has no fairness, for nothing in this snapshot calls the
  poll; that no request gets lost is a safety property (`NoRequestForgotten`).
* `Logging!FairSpec`: a thread that prints goes on printing. Nothing is assumed
  of the ones that wait, nor that anybody logs. A waiting thread of higher
  priority on the same core would starve the one that prints, and is not
  covered.

## Proofs

Every safety property of the passing runs but `DigestProtects` is a theorem, for
every value of the constants that satisfies the named ASSUMEs (sizes are
positive, sets are what they are used as, responses are `WellFormed`) and the
hypotheses below. A hypothesis is there because the property fails without it;
the list of constants above gives the counterexample.

| module | theorems | hypotheses |
|---|---|---|
| `UpdateProofs` | `UpdaterInvariant`, `UpdaterTypeCorrect`, `UpdateTouchesTargetOnly` | `HonestClient`: no more is delivered than declared (`Surplus = 0`), no empty write |
| | `AnyClientInvariant`, `BusyAlwaysAgrees` | none: any client |
| | `UpdateImageInvariant`, `SelectsOnlyTheSent`, `UpdaterIsAtomic` | `KeepsToSize`: `HonestClient`, and `end(true)` is not used |
| | `PartialNeverBootable` | also `FirmwareFits`: images with a magic byte fit the partition |
| | `ClientsInvariant`, `RestartsOnlyIntoSent`, `OtaInstallsInvited`, `ClientsFailCleanly`, `ClientsAreAtomic` | `HonestClient` |
| `HttpRequestManagerProofs` | `HttpTypeCorrect` | none |
| | `OneAnswerPerRequest`, `OwnAnswer` | no background poll |
| | `NeverForgotten` | also: no request is sent when `millis()` reads 0 |
| `ResponseReaderProofs` | `ReaderInvariant`, `SuccessAlwaysPrefix`, `LengthAlwaysDeclared`, `WholeAlwaysTaken` | none |
| `VersionCheckProofs` | `VersionInvariant`, `VerdictAlwaysRight`, `WrongOnlyWhenStale` | none |
| `TimerProofs` | `TimerTypeCorrect` | none |
| | `TimerNeverEarly`, `TimerOverlooksNone` | callbacks take less than a tick |
| | `TimerPulsesInvert`, `TimerFiresAsAsked` | no callback stops its own event and arms its slot again; for the second, no event is asked to fire 0 times (it may fire once) |
| `LoggingProofs` | `LoggingInvariant`, `LockAlwaysHasOwner` | none |
| `WifiManagerProofs` | `StatusAlwaysSettles`, `NeverGivesUpEarly` | none |
| `WiFiClientProofs` | `ReceivingInvariant`, `NothingAstray`, `SoundConnectionIsKept`, `SendingInvariant`, `WireAlwaysFollows`, `WiFiClientTypeCorrect` | none |

The arguments.

* **Updater.** `TouchesTargetOnly` is not inductive: that the area about to be
  erased lies in the target needs `progress < size <= PartSize`, which needs the
  accounting `progress + bufferLen + left <= size` of all three places a byte
  can be in, in every step of every call; and that the target does not run needs
  `TargetChosen` over the whole update, for `running` changes only by a reset,
  which ends the update. With a client that does not keep to its size that
  accounting is lost; what is left (`AnyInv`) is that the counters are integers,
  that the buffer is there just when an update is, and that the partition that
  runs stays as it is. The last is the doing of external code, the flash
  driver's panic and the boot loader's choice, and only a part of the invariant.
* **The image in the flash.** `ImageInv` says what the target holds at every
  step of an update: the first `progress` bytes of the image, the first of all
  blank until `end()` has checked the rest, and erased sectors behind. A torn
  erase or write ends the update, and leaves nothing that could pass for the
  bytes of an image (`HalfDone`). From it
  follow that `end()` selects what was sent, that a part of an image never
  boots, and the refinement: `Slot(p)` maps the flash to the genuine image a
  slot holds, an erase to the loss of the idle image, the magic byte to its
  arrival, `esp_ota_set_boot_partition()` to the selection, and every other
  step to a stutter.
* **Clients.** The sessions share one updater, so each lemma about a step of the
  updater is used three times: a step inside a session works on, fails,
  returns or succeeds (`OwnKinds`), a session keeps to its size
  (`SessionIsHonest`), and `SessionInv` says which calls may be open at which
  place of which client and what digest the updater has. A firmware other than
  the running one stays selected between sessions only after a success (`kept`).
* **Requests.** Without a background poll a request is open in one place at a
  time. The invariant (`HttpLife`) ties the completion flag, the callbacks and
  the place of both loops to the number of answers given. That none is forgotten
  needs in addition that whoever ends the work on a request has answered it or
  noted its status (`Tended`), and that of the calls a callback interrupts only
  the outermost can be `handleHttpResponseComplete()` (`Outermost`).
* **Responses.** The reader has no memory of where a line began, so the
  invariant keeps it: the piece in `line` is the text behind `From`, and `From`
  is the start of a line or lies a multiple of `LineMax` behind it (`OnLine`).
  A single character that a '\r' ends is then the last piece of a line whose
  length leaves 1 when divided by `LineMax` (`LineOfPiece`), which only the
  empty line has, and its '\n' never is anything else
  (`SingleIsEmptyLine`, `EmptyLineIsSingle`): the headers end neither early nor
  late, and the body is read from its first byte (`BodyRead`). The line of the
  length is one piece (`LengthPiece`), and the digits of the piece are those of
  the response (`SameDigits`). A response that is there as a whole is never cut,
  and its status is the first piece (`StatusPiece`).
* **Versions.** `VersionParts` goes from segment to segment like `strtok()`, the
  reference counts; that the k-th segment found is the one of rank k
  (`PartsAreDigits`) needs that ranks grow by one at a segment and stand still
  between two (`RankNext`, `RankGrows`). The loop compares from the left, the
  reference one number, and `LastDigit`, used twice, joins them
  (`ComparisonIsRight`). `VersionInv` then says whose verdict is kept, and that
  it is right if that text fits the copy. The least element of a set of numbers
  (`LeastExists`) is taken from the library's `WFMin`, which has no operator as
  parameter.
* **Timer.** Elapsed time is a difference modulo the clock. `ClockInv` says that
  `update()` works with the clock's time (`ClockStands`), that an event has
  waited at least as long as the wrapping clock says (`WaitCounted`), and that
  the slots behind `at` fired in this pass or are not due (`Served`). Distinct
  ids, the count of an event against its firings and the level of its pin
  against its count are invariants of their own, each kept by a callback that
  changes the table under the pass.
* **Station.** Events reach the status through one overwritten variable. The
  link is up just when the *latest* event the driver posted says so
  (`LinkReported`), and the status follows the latest of the events that are
  not under way (`EventFollowed`), so the two agree when none is. `ClockInv`
  does the same for the age of an attempt and the 16-bit start time.
* **WiFiClient.** `got \o Unread \o queue` stays the same sequence whatever way
  `read()` takes (`TakenBytes`, from the one fact about `fillBuffer()` that
  `Outcome` states); `flush()` and `stop()` cut out a middle or a last part of
  it (`Without`, `Front`), the peer appends. `SoundConnectionKept` needs that
  `flush()` asks for no more than the socket holds (`Flushing`) and that a
  failed buffer has a reason (`Failing`). A `write()` counts what it passed over
  (`Counting`), and what is on the wire is right behind its next byte as long as
  nothing was left out (`Sending`).

The inductive invariants were checked with TLC on the instances of the runs
before they were proved. The proofs led to changes of form, none of meaning:
`NoByteAstray` states order and completeness of the bytes separately instead of
comparing with a filtered sequence; `VersionParts` and `Number` have no filter
and no sum any more, and `Digits` counts. Two assumptions had been hidden in the
responses of the run and are now stated (`WellFormed`): where status and length
may stand, and that the line of the length fits the buffer.

Only model-checked are the liveness properties (`CallsReturn`, `SessionsEnd`,
`PollEnds`, `LockIsFreed`, `StatusCatchesUp`, `WaitsEnd`), as fairness is out of
reach of the prover, and `DigestProtects`: for clients that do not keep to the
declared size the invariant about the image in the flash does not hold, and the
one that would replace it has not been found.

## Not modelled

LED pin, progress callback and printed texts of `UpdateClass`; the text of HTTP
requests and of errors; formatting of log lines; the bound of `responseBuffer`,
which the code does not look at; what `strtrim()` and `strstr()` see behind a
line of 255 characters, which has no '\0' of its own; access point, scans,
`WiFiMulti`, UDP and the resolver of the WiFi library (a late answer to
`hostByName()` after its timeout is written to a variable that is gone: a
candidate for a later module); TLS, and of `WiFiClientSecure` all but what
`available()`, `read()` and `connected()` answer; a process callback that makes
a request.

The repository is mostly a vendored Arduino core: register and SDK headers,
BLE, Azure, file systems, displays, which `main/` does not use and which carry
no logic of this program. The share of all lines that is modelled is therefore
small; of `main/` nearly all live code is. `PROJECT.json` gives the reason for
each part left out.

## Plan

1. Done: `Updater`, `AtomicUpdate`, `FirmwareUpdates`, `HttpRequestManager`,
   `Timer`, `Logging`.
2. Done: `UpdateClients` (with `HTTPUpdate` and `ArduinoOTA`), `VersionCheck`,
   `ResponseReader`, `WiFiStation`, `WifiManager`, `WiFiClient`.
3. Done: proofs of the safety properties of all modules, and that the updater
   and its clients implement `AtomicUpdate`.
4. Left: a module of the resolver (`hostByName()` and its late answer), and
   `WiFiMulti`.
