# A TLA+ development of the SolarEdge monitoring programs

The repository holds `semonitor.py`, which talks the SolarEdge protocol to
inverters (over RS485, RS232, TCP, or from a recorded file), and the programs
that consume its output. This directory holds TLA+ modules translated from the
source, the TLC configurations that check them on small instances, and theorems
checked by TLAPS. `src/...` below is relative to the repository's root;
`PROJECT.json` maps every definition that models code to the lines it models.

## 1. Inventory

### semonitor.py as a program

| Component | State | Operations | Hard part | What makes it correct |
|---|---|---|---|---|
| Run mode (`se/env.py:78-157`, `semonitor.py:231-272`) | `args`, `mode.serialDevice`, `networkDevice`, `passiveMode`, the opened source | validation blocks of `getArgs`, opening of the source, dispatch | every block overwrites decisions of the one before; the source is chosen by its name, the loop by the mode | `-m` has a port and slaves; replies only where there is a device |
| RS485 master (`semonitor.py:122-158`) | `threadLock`, `masterEvent`, one `threading.Timer` per grant | `masterCommands`, `masterGrant`, `masterTimerExpire` | three threads, an event nobody owns, a timer that races with a release | one slave on the bus at a time; every wait bounded; every slave polled |
| Read loop (`semonitor.py:42-113`) | `eof`, `msg`, the stream position | `readData`, `processMsg` | runs one frame behind the wire; reconnects in the middle of its own loop | nothing lost, repeated or reordered; answered means written |
| Framing (`se/msg.py:26-135`) | the stream | `readMsg`, `readBytes`, `parseMsg`, `validateMsg`, `formatMsg`, `sendMsg` | a message ends where the next begins; exceptions become end of file | a well formed message is returned as sent |
| Network source (`se/files.py:13-36`) | listeners, the accepted socket, its timeout | `openDataSocket`, `closeData` | connections that break or go silent inside a message | the server keeps serving |
| Transaction numbers (`semonitor.py:206-218`) | `seseq.txt` | `nextSeq` | read, increment, truncate, write: killed anywhere | numbers increase across executions |
| Command mode (`semonitor.py:122-136,145-187`) | position in `-c`, the source, timer and event of the grant | `doCommands`, `masterGrant` | responses are matched with commands by position only; one read per command, whatever it returns | every message that is read is written once, in order; the response written belongs to the command; the commands end |
| Record file (`se/msg.py:67-79,135-150`) | the file | `readBytes`, `sendMsg` | written by two threads, one of them outside `threadLock`; what is sent lands between the bytes of what is read | the recording can be replayed |
| Device data (`se/data.py`, `se/datadevices.py`, `se/dataparams.py`) | class definitions, dictionaries of values | `parseData`, `parseDeviceData`, `parseDevTable`, `merge_update` | definitions changed while parsing; one bad record aborts the message | a line reports the records of its message, all of them and no others; what a definition has become depends on the longest record only |
| Firmware image (`-u`, `semonitor.py:45,91-92,115-120`) | `updateBuf` | slice assignment, `writeUpdate` | offsets and lengths come from the wire | the image is what was sent |

### Programs around it

| Component | State | Hard part |
|---|---|---|
| `utilities/se2influx.py` | two bounded queues, three threads, a shutdown event | threads that end while others block on their queue; files rotated under the reader |
| `conversion/se2state.py` | the current state and its file | a file that is truncated first; totals computed before an event changes what they are computed from; input read again after a restart |
| `conversion/se2csv.py` | the columns and the file of each device type | the columns are those of the first report; a later one that has another attribute ends the program |
| `utilities/se2file.py` | the current output file | switching files at the date; it does not run on Python 3 (line 72 opens text without a buffer) |
| `scripts/`, `services/`, `test/test.sh` | none | pipelines that are killed daily and restarted: the crashes of the models |
| `se2graphite`, `se2MQTT`, `pickle2graphite`, syslog helpers | none worth the name | input and output only |
| `se/network.py` | leases | dead code: nothing imports it |

### How the parts interact

`main` builds the mode, opens the source, and calls `readData` directly (passive
mode), `doCommands`, or starts a read thread and, with `-m`, a master thread.
The two threads share the serial device, `threadLock` (held by the master around
the sending of a grant, by the reader around the processing of one message) and
`masterEvent`. The event is set by the reader when it processes a
`MASTER_GRANT_ACK` and by the timer's thread; it is cleared by the master. The
number of a grant comes from `nextSeq`, whose file outlives the process. The lines
that `readData` writes are the input of the other programs: through a pipe, or by
following the file.

## 2. Modules

| Module | Models | Depends on |
|---|---|---|
| `SeMsg` | a message as the program tells messages apart (its *kind*), and `nextSeq` as a function on the file's content | |
| `BusArbiter` | abstract: the bus is offered in turn, and, until a timeout, only when nobody has it | |
| `RS485Master` | master thread, timer threads, read thread, lock, event, device, slaves; refines `BusArbiter` | `SeMsg`, `BusArbiter` |
| `RS485MasterProofs` | its theorems | `RS485Master` |
| `SeqFile`, `SeqFileProofs` | `nextSeq` statement by statement, with kills and restarts | `SeMsg` |
| `RunMode` | the validation blocks, the opening and the dispatch | |
| `DoCommands`, `DoCommandsProofs` | the program with `-c`, from its options to its end: `RunMode`, then `doCommands` and `masterGrant` drawing their numbers by `SeqFile`, an inverter, kills and restarts; refines `SeqFile` | `RunMode`, `SeqFile` |
| `ReadData`, `ReadDataProofs` | `readData` + `processMsg` as a server of successive connections, or on a file | `SeMsg` |
| `Se2Influx`, `Se2InfluxProofs` | `utilities/se2influx.py`: reader, writer, logger with its rotation, main thread, two queues, one event | |
| `Framing`, `FramingProofs` | the bytes: `readMsg` in its two ways of finding the end of a message, `readBytes`, `parseMsg`, `validateMsg`, `formatMsg`, `recordMsg`, while another thread sends | |
| `Crc` | `calcCrc` and its table, against the CRC computed bit by bit | |
| `DeviceData`, `DeviceDataProofs` | `parseDeviceData`, `ParseDevice` with its growing definitions, `merge_update`, the line of output | |
| `Se2State` | `conversion/se2state.py`: values, totals, the state file, kills and restarts | |
| `Se2Csv` | `conversion/se2csv.py` as a function of the lines it reads | |
| `Pipeline`, `PipelineProofs` | `semonitor.py`, `se2state.py` and `se2csv.py` joined by the lines | `DeviceData`, `Se2State`, `Se2Csv` |
| `MCRS485Master`, `MCReadData`, `MCFraming`, `MCPipeline` | sets of message kinds, payloads and records for the instances | |

### Correspondence

*Framing.* In passive mode and over RS485, `readMsg` collects bytes until the
last four are the magic number, which begins the **next** message
(`se/msg.py:47-55`). The receive side is therefore a sequence `rx` of frames
whose head is the frame being accumulated; `ReadMsg` needs a second one. The
first element is what precedes the first magic number. `ReadEof` is the path
through `nextByte == b""`: `readBytes` turns an exception into it
(`se/msg.py:75-77`), and what has been collected is returned. A message is a
kind, with the sender or the connection it came from; its bytes and the CRC are
abstracted to "rejected by `validateMsg`" (`bad`), "all zeros" (`zeros`), "the
parser raises" (`raises`) or what `processMsg` distinguishes.

*Framing (the module).* Here the same code is modelled with its bytes. A stream of
messages, damaged messages and stray bytes is put together by the environment
(`PutMessage`, `PutDamaged`, `PutStray`, `EndStream`) and begins, in passive mode,
inside a message. `ReadByte`/`ReadEof` collect up to the magic number;
`ReadActive`/`ReadActiveEnd` believe the length in the header (`se/msg.py:34-44`).
`Caller` is what `readData` does with the result, `validateMsg` and `parseMsg`
are operators on sequences. The magic number, the checksum and the payloads are
constants: any function serves as checksum. A header is one function byte and one
length, the sequence number and the addresses are left out: nothing in the
framing depends on them. Over kinds instead of bytes, this is what the modules
above assume of `readMsg`: a readable message is handled once and in order
(`ReadsAll`), an unreadable one is `bad`. `SendOther` is a grant or a command that
another thread sends, between any two bytes of what is read: `sendMsg` records it
there. Answers are recorded where the reader is. `sent` and `readable` are histories:
the messages put into the stream whole, and those of them in whose bytes the magic
number does not appear; `readMsg` cuts the others in two.

*Crc.* `tableCrc` is the loop of `calcCrc` over the table of the source; `Crc16`
computes the same checksum a bit at a time, from the parameters in the comment at
`se/msg.py:154-156`. The three `ASSUME`s compare all 256 entries, the function on
data that reaches every entry, and say that a changed byte is seen; TLC evaluates
them with every run of `Framing`, whose checksum is `tableCrc` over the bytes that
are modelled (`MCFraming!Checksum`).

*RS485Master.* One action per group of statements between two points where
another thread can be observed: `AcquireForGrant` .. `Sleep` are the statements
of `masterGrant` and the loop of `masterCommands` in order, `TimerExpire` and
`TimerSet` the two halves of a `threading.Timer` (its wait times out; then it
calls the function, if it was not cancelled in between). A timer that has
already decided when it is cancelled becomes a `late` one and sets the event
at any later time. `GrantFails` is an exception in `nextSeq` or the write: the
`with` gives the lock back and the thread dies. `ReadMsg` .. `ReleaseAfterMsg`
are the read thread; the exception handler of `readData` (lines 65-70) is the
`abort` control state under `-x` and nothing otherwise. The slaves, the noise,
the echo of an RS485 adapter and the failure of the device are external. A
slave only transmits between a grant that reached it and its release.

*SeqFile.* `open(..., "w")` truncates when it is called and the number
reaches the file when it is closed, so the file is `Torn` in between.
A `Torn` file makes `int("")` raise a `ValueError`, which `except IOError` does
not catch (`ReadFails`).

*RunMode.* One action per validation block, in order, over all combinations of
type, source, `-m`, `-c` and the number of slaves; then the two decisions of the
main program.

*DoCommands.* `Options`, `Open` and `Call` are the main program, in all the modes
of `RunMode`; what follows is the mode with `-c`. `at` is the statement: `DrawSeq`
is a statement of `nextSeq` (`SeqFile`), `SendCommand` the write, and with `-m`
`SendGrant`, `ClearEvent`, `WaitEvent` and `TimerExpires` are `masterGrant`, whose
event only the timer can set here, since nobody reads meanwhile. `ReadFirst`,
`ReadNext` and `ReadRest` are `readMsg` looking for magic numbers (what the run mode
decides, `-t 4`): the first thing it returns is what precedes the first magic number,
and a message comes out when the next one begins. `ReadByLength` and the actions
after it are `readMsg` believing the length (`se/msg.py:34-44`), before anything of the
message is validated. `InStep` says that the read is at the beginning of a message,
`Astray` that it takes something else than the length of a message for one:
`ReadWrongLength` meets a message that is longer or shorter than its header says, and
ends inside of it or of a later one; `ReadOutOfStep` is what comes behind, or a serial
port opened inside a message; and either may ask for bytes that are not there, which a
serial port waits for without a limit (`Waits`). `ReadTimesOut` is the socket's 120 s, after which its file object
refuses to read again (`dead`). The source is a queue `line` of which `taken` messages
have been read, and `begun` says that the magic number of the next one has been read
too. `Response` is `parseMsg`, which makes function 0 of a message that is not valid;
`WriteResponse` writes it all the same, unless `parseData` raises or the output cannot
be written, which nothing catches (`ResponseFails`). `Kill` is at any point, the file of the sequence number
included; `StartAgain` has the same options. The inverter (`Answer` .. `Close`) is
external: it answers in order, late or not at all, sends messages of its own, damaged
ones, or ones with bytes too many or too few, with `-m` only when it has been granted the bus, and goes away.

*ReadData.* `Open` is both the opening by `main` and the reopening in the middle
of the loop (line 56): the last message of the old connection is processed
**after** the next one has been accepted, and the answer goes to whoever is
connected then. `SkipMsg`/`SkipEof` is the skip at line 48; its `eof` makes the
loop body never run. `Timeout` is the socket's 120 s, `Truncated` a connection
that ends inside a message. A reply that could not be sent stays in the buffer of the
file object (`broken`); `close()` writes it again, outside the `try`
(`semonitor.py:55`), and what it raises ends the program (`CloseRaises`).

*Se2Influx.* stdin is a pipe and the text buffer of the process: `readline()`
takes what is in the pipe and returns the first line, while `select()` sees only
what is left in the pipe. `put()` waits while the queue is full; the time-out of
`get()` (`WriterEmpty`, `LogEmpty`) and the look at the event in its handler
(`WriterCheck`, `LogCheck`) are separate steps, since any thread can run between
them. `MainPoll` is one round of the loop of `run()`. A line is a number; that it
is converted and written, or dropped because it is not what is expected, leaves
the writer in the same place and is one action (`WriterWrite`). `WriterFails` is a line
that raises something nobody looks for, as one that is no JSON object does, and
`WriterBlocks` a data base that takes a request and does not answer, for which the
docstring says that the thread may block for ever (`se2influx.py:140-142`); that one
is switched by the constant `CanBlock`. `LogSizeFails` is the look at the size of the log
(lines 253-254), which is outside of every `try`. The size of the log is
abstracted to a choice after each write, and the time in the name of a
compressed log to "the same second as the last one, or not". The compressed logs
are sets of lines: the newest, which a rotation in the same second writes over,
and the others.

*DeviceData.* A message is a sequence of records; a record has a type, the
identifiers it is stored under, the length in its header, how much of that the
message holds, and a value. `ParseRecord` is one round of the loop of
`parseDeviceData` that does not raise, `RecordRaises` one that does and the
handler in `readData` that gives the message up, `WriteLine` the end of the loop
and `writeData`. The bytes are counted but not told apart: `Need` is the bytes
that the fields of a type take, and a definition is the list of the lengths it
has had, whose last element is `defnLen`. `NotText` are the batteries whose name, the only text in a record, is not UTF-8.
`Learn` is what `parseDevTable` does to
the **class** of the record (`self._defn.append`), also when the record raises
afterwards. `Over` and `With` are `dict.update`; `Merged` is the assignment of a
record to its dictionary and `merge_update` for what `ParseDevice` parses.
`ParseDevice(data)` runs `__init__` twice for a type with a class: the second time
finds the definition as long as the record and changes nothing, and is not
modelled.

*Se2State.* `ReadLine` is the body of the loop up to `writeState`, whose two
statements are `Truncate` and `Write`, with `Kill` in between them or anywhere
else. `AfterLine` keeps the order of the code: values, powers, totals, event. An
average is kept as the sum and the number it is made from. `from` and `best` are
histories: the lines that the state was made from, and the highest total for
the day written since `-i`. Lines are read from the beginning (a file), or from
wherever the pipe has got to.

*Se2Csv.* The program is sequential and ends with its input; what it leaves is a
function of the lines: `writerow` for each device of a line in the order of `sorted()`
(`BaseNames` lists the names in that order), and for each line (`writerows`, `se2csv`,
recursive functions over the names and over the lines). The file of a
type is opened with its first report, truncated or with `-a` appended to, and has the
attributes of that report as columns, whose names are written there with `-t`;
`DictWriter` raises for any other attribute. The text of a row is the values by column;
a file is its rows and the places of the header rows (`FileFor`).

*Pipeline.* A step of the parser, which may add a line, or of the reader. It
`EXTENDS` the one and takes an `INSTANCE` of the other over the shared `lines`.
`CsvKeepsReports` evaluates `se2csv` on the lines of every state, at once, and in two
executions cut anywhere of which the second has `-a`, with `-t` and without. It speaks
of places: the report `<<k, i>>` is what the k-th line has under the i-th name, and among the rows of its type
it is at the place it has among the reports of its type (`Place`).

## 3. Runs

Bounds are the constants in each `.cfg`. All are named in the modules.

| Run | Question and result |
|---|---|
| `rs485_bus` | 2 slaves, a receive buffer of 2 frames, loss, corruption, echo, device failure, a parser that raises, and a master suspended for the length of its timeout between two statements. `BusExclusion`, `ReplyWhileOthersSilent` and the inductive invariant `IndInv` hold. 5.4 M states. |
| `rs485_live` | Under `FairSpec`, with `-x`, echo and device failure: `EverySlavePolled` and `LockIsReturned`; `WaitIsBounded`; `ImplementsArbiter`: the threads refine `BusArbiter`. The bus loses nothing here: to the arbiter, a slave that is skipped looks like one whose offer was lost, and with two slaves a loss would hide the skip. The theorem `Refinement` covers the bus that loses. |
| `rs485_release` | Finding: the release of slave 1, held back from a round that timed out, ends the wait for slave 2. |
| `commands` | All options; with `-c` two commands, with and without `-m`, on a socket, a serial port (opened at the beginning or inside of a message) or what cannot be written to; one disturbing message (its own, damaged, of another length than its header says, or one that does not parse) and one lost command per execution, one kill at any statement and one restart. `RepliesHaveDevice` of the mode, `Increasing` of the numbers, `OutputIsLine` and `ResponseOfCommand` of the output, and under `FairSpec` `CommandsEnd`. 1.3 M states. |
| `commands_rs485` | Finding: over the RS485 framing the response written for a command is what came before its answer, function 0 for the first; the answer to the last command is not written. |
| `read_server` | A file, or 3 connections, of up to 2 messages of 4 kinds, broken or timed out inside messages, with a failing output: `IndInv`, `InOrder`, `AckedIsWritten`, `OutputInOrder`, and under `FairSpec` `HandledEventually` and `ListensAgain`. 363 000 states. |
| `read_exit` | Finding: a connection that breaks before its first complete message ends the server. |
| `influx` | Queues of one line, three lines, every failure, and a data base that never answers: `WriterInOrder`, `LogKeepsAll`, `LeftBehind`, and under `FairSpec` `EndsAtEof` and `BufferIsRead`. 171 000 states. |
| `influx_hang` | Finding: when the writer or the logger has ended, the reader waits in `put()` and `run()` for the reader. |
| `framing` | Up to 3 whole, damaged or stray pieces after the rest of a message, payloads that are empty, are the magic number or hold a part of it, in the three modes of reading, and one message sent by the other thread at any point: `ReadsAll`, `ActiveInStep`, the inductive invariant `IndInv`, and `ReplayLosesFew`: a recording, read again, gives the messages back but for one for each thing sent. The checksum is the program's. 3.3 M states. |
| `framing_replay` | Finding: a recording that has answers in it does not give the messages back. |
| `pipeline` | 3 messages out of 14, which hold records of every type, complete, longer than defined, shorter, cut off or with a name that is no text, through parser and reader, the one restarted once and the other twice: `DefinitionIsLongest`, `RefusedAfterLonger`, `LineReports`, `NotMixed` of the lines, `TotalsAgree`, `EdayIsHighest`, `LastReading` of the state, `ShownWasReported` from end to end, and `CsvKeepsReports` of the csv files. 1.0 M states. |

*Why the bounds are enough.* Two slaves are what it takes for one's grant to
meet another's; two frames are the one that is held back, as the release of the first
slave, and the one of the other slave that pushes it out. `MaxLate = 1`
allows a cancelled timer to strike the following grant; a second one would only
set the same event twice. Three connections let the last message of one be
processed on the next and lost with it, and the third go on. Three lines with
queues of one are one in a full queue, one in the reader's hand and one behind it;
the queue of the program (10000) only takes longer to fill. Two commands are what
it takes for the answer to one to be read for the other; `MaxSeq = 2`, with a file that may
hold any number at first and the four draws of an execution with `-m`, lets the
numbers wrap before a restart, after it, or in both executions. Three pieces of a
stream are one before, one damaged and one after, and the message sent between their
bytes is at any place in any of them. Three messages are what a definition that
grows in one, refuses in the next and is read after a restart in the third needs,
and what a value, an event and another value need; a record has one of two
lengths around the definition. The theorems of section 5 remove the bounds where they exist.

*Deadlock* says little of this system. TLC looks for it in the RS485 runs, where the
bus can always do something, and where the main thread waits in `block()` for ever when
the others have died (`Blocked`); that nobody waits for somebody who waits is
`WaitIsBounded`, `LockIsReturned` and `EverySlavePolled`. The other modules really
stop (end of the file or of the input, refused options, no further connection, no
further message or start within the bounds).

## 4. Fairness

`RS485Master!FairSpec` gives weak fairness to each statement of each thread (an
operating system runs every runnable thread, and a timer whose interval is over
expires) and strong fairness to the two acquisitions of `threadLock`: the
lock is held for a few statements that never wait, so a thread that keeps asking
meets it free again and again; Python's lock is not first-come-first-served, but
the holder waits for bytes or for an event before it asks again. The slaves, the
noise and the device have no fairness: `EverySlavePolled` holds with slaves that
never answer, through the timer alone. `ReadData!FairSpec` gives weak fairness to
the program's steps and none to the inverter; `Open` has none either, since
nobody needs to connect. `HandledEventually` therefore asks for the next message
or the end of the connection: without one of them the code does not return the
message. Its left side names only what the inverter and the network do.
`Se2Influx!FairSpec` is weak fairness of what each thread does next; failures are
never owed, and the input may stop for ever. Nor does the data base owe an answer: by
default the client has no limit of time, and the docstring of `writer` says that it may
block for ever. `EndsAtEof` and `BufferIsRead` therefore hold only as long as the writer
is not blocked for good, and say so. `DoCommands!FairSpec` gives weak fairness
to the program, which has one thread, to its timer, and to the inverter's answer to
a command it has heard: without an answer a serial port is read for ever (it has no
timeout), which `CommandsEnd` says of a lost command. Fairness leaves out a read from a
serial port that has gone astray, after a message of the wrong length or from a port
opened inside one: it may wait for bytes that never come (`Waits`), which `CommandsEnd`
names as well. A socket needs no answer, since its timeout ends the wait. `ReadData`
owes the end of a connection by `ReadEof` or `CloseRaises`, not by the one of
them. Kills, restarts and the end of the connection are owed by
nobody.

## 5. Theorems

| Theorem | Says |
|---|---|
| `RS485MasterProofs!TypeCorrect`, `Inductive` | `Spec => []TypeOK`, `[]IndInv` |
| `Exclusion`, `RepliesInTurn`, `BoundedWait`, `ReaderGoesOn` | the four safety properties of the runs, for every number of slaves, buffer size and set of message kinds |
| `Refinement` | `Spec => Arbiter!ASpec` |
| `SeqFileProofs!NumbersIncrease` | `SeqSpec => []Increasing` for every `MaxSeq` |
| `DoCommandsProofs!ImplementsSeqFile`, `CommandNumbersIncrease` | `Spec => SeqSpec`: the numbers of commands and grants are drawn as `SeqFile` has it, and therefore increase |
| `RepliesAreWritten`, `MasterModeIsSound` | what the options decide: replies only where there is a device, master mode has a port, slaves and the passive framing |
| `SystemTypes`, `ResponsesFollowTheLine`, `ResponseIsOfItsCommand` | `[]SystemTypeOK`, `[]OutputIsLine`, `[]ResponseOfCommand` for any number of commands, of disturbances and of restarts |
| `ReadDataProofs!Inductive`, `NothingLost`, `AnswersAreKept`, `OutputIsInOrder` | `[]IndInv`, `[]InOrder`, `[]AckedIsWritten`, `[]OutputInOrder` for any number of connections and messages |
| `Se2InfluxProofs!TypeCorrect`, `LinesInOrder`, `NothingLeftBehind`, `LogComplete` | `[]TypeOK`, `[]WriterInOrder`, `[]LeftBehind`, `[]LogKeepsAll` for queues of any size and any number of lines |
| `FramingProofs!FoundAgain` | what `formatMsg` makes of a message is accepted by `validateMsg` and read back by `parseMsg` as the message it was, whatever follows it and whatever the checksum is |
| `FramingProofs!EndsWithFirstMagic` | `[]IndInv`, the types and `FirstMagic`, for every stream, checksum and magic number |
| `FramingProofs!ReadsEveryMessage` | `[]ReadsAll`: in streams of any length, cut, changed and with stray bytes, every message that arrives whole is handled, once and in order, and nothing else is |
| `FramingProofs!StaysInStep` | `[]ActiveInStep`: reading by the length, in streams of any length that are not damaged, whatever the payloads are |
| `FramingProofs!RecordKeepsMessages` | `[]ReplayLosesFew`: the record file, read again, gives the messages that were handled, in order, less at most one for each thing the program sent, wherever between the bytes it was recorded |
| `DeviceDataProofs!TypeCorrect`, `DefinitionGrows`, `RefusedForALonger`, `OneRecordEach`, `LinesAreReports` | `[]TypeOK`, `[]DefinitionIsLongest`, `RefusedAfterLonger`, `[]NotMixed`, `[]LineReports` for any set of messages and any number of them |
| `PipelineProofs!SystemTypeCorrect`, `TotalsOfValues`, `EdayNeverLower`, `LastValues`, `ShownIsReported` | `SystemSpec` implies `[]SystemTypeOK`, `[]TotalsAgree`, `[]EdayIsHighest`, `[]LastReading`, `[]ShownWasReported` for any messages, devices and restarts |
| `PipelineProofs!CsvOfReports` | `SystemSpec => []CsvKeepsReports`: the rows are the reports of the lines, in order and each once, up to where an execution raises; it raises only if two reports of a type have not the same attributes, and otherwise two executions, cut anywhere, give what one gives, in the same columns, with the header rows of `-t` at the head of a file and where the second began |

Assumptions are the named `ASSUME`s of the modules: at least one slave, a
receive buffer of at least two frames, at least one connection, queues of at
least one line, Boolean
switches, slaves that do not send `MASTER_GRANT_ACK` except as their release,
messages of which only the last record may be cut off, and values of devices that are
integers under the names of their definitions (`FieldsAssumption`; the fields
themselves are in the constant `Messages`, a NaN is not a value there). The same
assumption says that records of three-phase inverters, and events, have the same fields
each time, as one list of names per type in `dataparams.py` gives them. The names of
devices are a finite list (`NamesAssumption`) in which every device of the messages is
once (`OrderAssumption`). The magic number
consists of different bytes (it is `12 34 56 79`). `DamageAssumption` is what the
theorems `ReadsEveryMessage` and `RecordKeepsMessages` need of the checksum: it differs
when one byte of the data has been changed, and the number that stands for it is not one
that stands for a byte of data or a header. The second is a convention of the model, in which the sixteen bytes
of a header and the two of a checksum are one number each, so that the magic
number is never found across them. The first is the property of a CRC that `Crc`
evaluates; without it a damaged message would be taken for another one, as it would be
on the line. TLC evaluates both for the program's checksum. `BoundedWait` also assumes `SlowMaster = FALSE`: the scheduler does not
suspend the master for the ten seconds of the timeout between `start()` and
`clear()`.

*The argument for the bus.* `BusExclusion` is not inductive: the grant is given
because an *event* was set, and nothing in the event says who set it.
`IndInv` follows the slave whose turn it is. While the bus is back with the
master (`BusBack`) nobody holds it **and** nothing a slave sent is still on the
receive side or with the read thread (`BackInv`); while it is out, everything on
its way comes from the current slave, and a release is the last thing that slave
has sent (`RoundInv`). A release can then only be of the current grant, and
processing it re-establishes `BackInv`. All of this holds until the first
timeout, which is why the properties say `~timedOut`: from then on a release may
be held back into another slave's turn (`rs485_release`). `ThreadInv` says which
control states go together and that a pending wait has its timer.

*The argument for the read loop.* `InOrder` says that the history of sends is
the history of returned messages followed by what is on the receive side.
`LoopInv` adds that only the first frame can be the bytes before the first magic
number, that it is there exactly while it is skipped, and that the receive side
is empty when a connection is opened, so that the skip never drops a message.
`OutputInOrder` is not inductive: nothing in it says that the message in hand is later
than those written. `OutputInv` adds that messages are sent in the order of their
places (`LogInv`), that the message in hand is the last one handled (`InHandInv`), and
that what is written was handled before a message that is still to be processed
(`WrittenInv`), also while the program waits for the next connection with it.

*The argument for the numbers.* `FileInv`: when the file is readable it is not
behind any number sent, and between `ReadSeq` and `Issue` the local number is
ahead of all of them. A kill between the truncation and the write leaves no
readable file, so nothing is ever reused.

*The argument for the commands.* The numbers need no invariant of their own: a step of
`DoCommands` is a step of `SeqFile` or leaves its variables alone. `StageInv` says what
each block of the validation leaves to those that follow. `OutputIsLine` is not inductive, since a response is written after
it has been read and the line grows in between: `ReadInv` says of every response, and
of the one in hand, that it is the message at its place among those taken (`AsRead`),
so that nothing the inverter sends afterwards touches it. Reading by the length it says so
only up to the first message of a wrong length among those taken (`Intact`), which what
is taken later does not change. For `ResponseOfCommand`,
`AskInv` (its `InOrder`) says that the inverter has been asked, and answers, in the order
of the commands: as long as it only answers, its p-th message is for the p-th command
or a later one, and since the next command is sent only after a read has returned, a
message that was read p-th is for the p-th or an earlier one. Reading stops for good
with the first time-out (`Step`), which is where a late answer could otherwise move to
a later command.

*The argument for the forwarder.* `EndInv`: without a failure of the writer or
the logger the event is set only after the reader has ended, so that nothing is
put after it; a thread that takes from a queue ends only after the event and
after having found the queue empty, and what the queue has got since is `late`.
For the log, the invariant `KeptInv` of the proof adds that the file is emptied
only when all of it is in the newest compressed log, and that the logger takes a
line only when it has none in hand. `WriterInOrder` is inductive: a line moves from the
beginning of one sequence to the end of the one before it (`MoveHead`), and only the
line that arrives changes the whole.

*The argument for the bytes.* `FirstMagic` is inductive with `TypeOK`: a byte is
added to what does not contain the magic number, so that the only place where it
can appear is the end, where `ReadByte` looks. `FoundAgain` needs no
induction: the header says where the data ends and the checksum begins.

`ReadsAll` says nothing of what is still in the stream, and cannot be inductive.
`DelimInv` adds where it is (`Ahead`): in the bytes read and not yet handled, followed by
those not yet read, each message that is still to be handled stands as it was sent, after
a magic number or at the very beginning, in their order; and **every other** number
that could be taken for a header is `Broken`. That a header is broken must
still hold after more bytes have come and after earlier ones have been taken away.
It therefore says why: the magic number of the next message lies before the end of this
one (`Cut`), the place of the checksum holds another number (`Changed`), or the bytes so
far end before the message does and are all bytes of data (`Open`), so that whatever is
put there next, a stray byte or a magic number, leaves it open, cut or changed. With
each piece of stream `PutHeader`, `CutShort`, `ByteChanged` and `HoldsMagic` say which of
the three its header is. With each magic number that is read (`FirstMagicAt`), what
precedes it is the next message when that begins at the first byte (`SegmentWhole`), and
otherwise nothing valid (`SegmentNothing`), and what follows is `Ahead` again
(`AheadCut`). The end of the file is the same without a magic number (`AheadLast`): only
one message can be left.

`ActiveInStep` needs less: `InStep` says that what has not been read is the messages not
yet handled, one after the other and nothing else, by the positions at which
they begin. The length in the header of the first is then the distance to the second, and
no prefix of them is an incomplete header.

`ReplayLosesFew` speaks of the end, when the whole record file is there. The invariant of
the proof, `DelimRec`, says what it would give at any moment, with `Rec`: up to a place
in the file, at the beginnings of messages received there are messages that were handled,
in their order, and so many are missing. What is appended changes nothing before a magic
number (`SameMessage`), so that only what follows the last one has to be told:

- `Fresh`: no magic number has been read, and the file is what has been read;
- `Live`: the file ends with what has been read since a magic number, so that the message
  is found in it when it is handled (`LiveCut`);
- `Dead`: something that the program sent was recorded between the bytes of the message.
  What stands between the last magic number of the file and the next one then begins with
  an answer or a grant, and no message received is found there (`ApartSpan`). What had
  been read of the message before the first thing was sent may be all of it, when only
  stray bytes or the next magic number were still to come; then it is found, and nothing
  is lost. Otherwise it is lost, once however often something is sent: `Owes` carries
  which of the two it is until the message has been handled (`DeadCut`, `DeadEnd`).

An answer is recorded when a magic number has just been read, so that the next message is
`Dead` from its first byte; this is why a file with answers loses that many. Whether what
was recorded first is already the message is known because a valid message stays the one
it is (`ParseNext`): of the bytes before a magic number, no shorter part is another one.
Reading by the length, messages are recorded whole and nothing is sent between their
bytes; but what is found by magic numbers is less than that, because data may contain
one, which is what `Readable` leaves out (`ActiveRec`).

*The argument for the definitions.* `DefinitionIsLongest` is inductive with
`TypeOK`: `Learn` appends exactly when the record is longer than all before it,
in the steps that raise as well. `RefusedAfterLonger` follows from it for every
step. `NotMixed` is not inductive: a merged entry keeps what the newer record
does not have. `OutInv` adds that an entry with a rest was made when the class had
been extended already; definitions never shrink while a message is parsed, so that
the next record has a rest too and replaces it. For `LineReports` the same is said of
the message that is being parsed: what it has stored so far is what the records so far
say (`OutReports`).

*The argument for the state.* `ReaderInv` holds of the values in memory and of those in the
file alike, since the file is only ever a copy of the memory (`KeptInv`): the devices
are those of the lines used, each with the value of the last of these that has it, or
zero under an event; the power of an optimizer is that of the last line of all; the totals
are those of the values. `EdayIsHighest` needs the statement between two writes as well
(`EdayInv`): until it is written, the new total is in memory and `best` still the old one.
`ShownWasReported` composes two components: what the parser promises of its lines
(`LinesReport`) is a theorem of `DeviceData`, whose specification every step of the pipeline
obeys (`ParserAlone`), and `ReaderInv` says which line a value is from. The sums are folds,
which are recursive functions; `PipelineProofs` expands them to their equation, shows
that it has a solution on finite sets by an induction over the size of the set, stated for
the set of sizes with that property (`NatSetInduction`), and from then on reasons with
the equation: a sum is of integers, and that of equal values is equal.

*The argument for the csv files.* `CsvKeepsReports` is not about a step of the pipeline but
about what a program makes of its lines; it is proved of any sequence of lines
(`CsvOfLines`) and then of those the parser writes. `se2csv` and `writerows` are recursive
functions: `ByLineExists` and `ByNameExists` show that their equations have a solution,
after which an execution is a sequence of steps, one for each name of each line. `Good`
is what each step keeps (`GoodOne`), said of the reports `N` met so far: there are reports
`T`, the first of `N`, of which the rows are, each at its place (`Wrote`); `T` is all of `N`
unless the execution has raised, in which case none is added. A report that comes after
all others takes the next place of its type and changes no other (`WroteOne`), which is
why the order of the names matters. If the reports of a type have the same attributes
(`Uniform`), those are its columns in every row, and nothing is refused (`Even`); this also
holds of files an earlier execution has left, so that one with `-a` begins where that one
ended (`GoodAgain`). `HeadsFrom` is kept beside it: with `-t` an execution adds one header
row to a file, at the place where it opens it, and without none. What remains is that reports differ only if the records do: inverters
with one and three phases, or an entry with a rest. The latter needs an invariant of the
parser, `OutShaped`: a rest is in an entry exactly when a record **of the same message**
under the same identifiers is longer than the fields of its type (`LongUnder`), which is
what `Mixed` compares between messages. That is not obvious, since the definition may have
been extended by a message that was given up and is in no line; but a definition that is
longer refuses shorter records, so that whatever has a rest is itself long (`ItemsShape`,
with `DefinitionIsLongest`).

*Only model-checked*: `EverySlavePolled`, `LockIsReturned`, `CommandsEnd`,
`HandledEventually`, `ListensAgain`, `EndsAtEof`, `BufferIsRead` (liveness under
fairness is out of the prover's reach), and what `Crc` says of the checksum, which is
evaluated: `Bitwise` cannot be reasoned about. Every safety property of the passing runs
is a theorem.

## 6. Where the code and its documentation disagree

Five are runs whose counterexample TLC finds (`findings` in `PROJECT.json`).
Reading the source for the models showed others, which no run states:

- `semonitor.py:149-152`: `clear()` follows `start()`. A master suspended for
  the whole timeout in between erases the timer's `set()` and waits for ever.
  `SlowMaster` is the switch; `BoundedWait` is the theorem without it.
- `semonitor.py:69-70`: `-x` ("halt on data exception", `README.md:243`) ends
  the read thread only; the master goes on granting to slaves nobody hears.
- `se/env.py:150-151`: without `-m`, the mode becomes passive whatever the
  blocks for `-t n` and `-t 2` decided before (lines 123-128, 134-135). The comments at
  `semonitor.py:253` ("only reading from file or serial device"), at 256 ("reading and
  writing to network or serial device") and at `se/msg.py:35` ("active mode that is not
  rs485"), and `README.md:30-41,85-89`, say that Ethernet and RS232 are active, that is,
  read by the length, in a thread of their own. They are so only with `-c`. No property
  asks for the one or the other: `RunMode` has what the code does. A server therefore uses
  the passive framing, and the last message before a pause is answered only when the
  next one begins or when the 120 s timeout has cut the connection, that is, on
  the next connection.
- `se/env.py:153-157`: `-c` with a file or stdin is accepted, against
  `README.md:281`.
- `utilities/se2influx.py:117` ("Any data gets sent to our output queues"): lines
  that arrive together are read into the buffer together; all but the first wait
  there until more input comes or the input ends. `BufferIsRead` is what holds.
- `utilities/se2influx.py:267-273` and the purpose of the log ("useful if we need
  to later replay data", lines 224-225): a second rotation in the same second
  writes over the first. `LogKeepsAll` names exactly these lines as lost.
- `semonitor.py:176-180`: a command whose answer does not come, or comes garbled, has
  function 0 written as its response; one whose answer does not parse ends the
  program, whatever `-x` says: nothing catches the exception here.
- `se/msg.py:40-43`: in command mode on Ethernet and RS232 the length is believed before
  the checksum is looked at. After a damaged length the bytes that are read are no message
  any more, and a serial port, which has no timeout, is read for ever if the length is
  more than what comes. `OutputIsLine` and `CommandsEnd` say up to where they hold.
- `semonitor.py:53` ("connection was broken, wait for a reconnect and continue"): when a
  reply could not be sent on the connection, `close()` may raise, and the program ends
  without `-x`. `ListensAgain` excepts it.
- `semonitor.py:174`: with `-m`, the grant after each command always waits for its
  whole timeout: the thread that would read the release is the one that waits.
- `semonitor.py:235`: a file called `network` is never read; the program listens.
- `semonitor.py:216-217` and `README.md:304-306` ("to persist the value of this
  sequence number across multiple executions"): after a kill between the
  truncation and the write, every later execution fails with a `ValueError`
  (`SeqFile!ReadFails`).
- `semonitor.py:154`: over this framing the last release on the bus is held back
  until another frame comes, so that a slave that has released it is timed out all
  the same when nobody sends.
- `se/datadevices.py:214-223` ("convert any remaining undefined bytes"): one record
  longer than its class defines makes the class longer; every later record of the
  normal length is refused with "You have defined more bytes", and its message is
  lost, until the program is restarted. `RefusedAfterLonger` is what holds.
  The comment at 118-121 says why an unknown device has a definition of its own;
  two records of the same unknown device may be reported as a mixture, which is why
  `NotMixed` is about classes.
- `se/datadevices.py:220-223`: all appended entries have the same name, so only the
  bytes of the last one are reported.
- `se/datadevices.py:248`: the name of a battery is decoded as UTF-8 and nothing catches
  the error: the record is refused and its message lost, although it is complete.
- `se/datadevices.py:103-106`: the search for a class finds `ParseDevice_Explorer`
  for a record of type 0xffff, whose `_dev` is meant as "dummy value" (line 646). No
  record of the model has this type.
- `se/data.py:197`: the bytes of an event are cut off at the length of an inverter's
  record; an event that is longer than its own fields raises.
- `conversion/se2state.py:59` ("start with values from the file if it exists"): when
  it does not, `stateDict` is not defined and the first line ends the program; when
  it is empty, after a kill, the `JSONDecodeError` does.
- `conversion/se2state.py:66` ("read the input forever"): the first line with a
  three-phase inverter, which has neither `Vac` nor `Pac`, ends the program.
- `conversion/se2state.py:92` ("zero current energy and power for devices when an
  event occurs"): the power of an optimizer, computed at line 80, keeps its value
  until the next line. `LastReading` says what the two have in common, that the power is
  zero from the next line on, and nothing of it in between.
- `conversion/se2csv.py:39-40`: with `-a -t` the names of the columns are written again,
  in the middle of the file, by each execution.
- `utilities/se2influx.py:347-358`: `--queue_size` and `--max_log_size` have no type, so
  that what the command line gives for them is a string. The first comparison with the
  size of the log (line 254) then raises and ends the logger (`LogSizeFails`); the first
  `put()` into a queue whose size is a string raises and ends the reader, a case that is
  not modelled: `QueueSize` is a number.

## 7. Not modelled, and the plan

Planned:

- The other small parsers of `se/data.py`, and the date and tag conversion of
  `se2influx.py`: functions of a line.

Not modelled, for a reason:

- `-u`, the firmware image: `updateBuf` is a list of numbers (`semonitor.py:45`) that
  `writeUpdate` passes to `b"".join` (`semonitor.py:116-120`), which raises on Python 3;
  no image is ever written.
- `utilities/se2file.py`: line 72 opens a text file without a buffer, which Python 3
  refuses; the first line of input ends the program.
- `conversion/se2graphite.py`, `se2MQTT.py`, `pickle2graphite.py`: they do not run on
  Python 3.
- `se/network.py`: nothing imports it. `se/commands.py` after line 281: tables that nothing
  reads.
- Formatting, logging and printing; the byte layouts of device records, and the class
  that explores unknown ones.
- The pipelines of `scripts/`, whose restarts appear as crashes. `semonitor.py` without `-a`
  truncates its output when it is started again (`semonitor.py:250`); `DeviceData` and
  `Pipeline` keep the lines, as with `-a` or a pipe.
- `Framing!validateMsg` leaves out the inverse of the length (`se/msg.py:106-110`), a second
  check of the same number, and takes only the functions that the streams have.
