# moondbg in TLA+

moondbg is a debugger for MoonBit programs built over `lldb-dap`. It has two
frontends: a REPL, and a Debug Adapter Protocol (DAP) server for VS Code. This
directory holds TLA+ models of its session logic, the TLC models that check
them, and theorems about them checked by TLAPS.

    tlc -workers 2 -config LiveBreakpoints.cfg MCLiveSession.tla
    tlc -workers 2 -config LldbContract.cfg MCLldbSystem.tla
    tlapm LldbContractProofs.tla

## 1. The system

    VS Code <--DAP--> dap_frontend (LiveSession) ------------------\
                                                                    > lldb-dap --> program
    user <--> REPL (repl.mbt) --> debugger (DebugSession) --> lldb_dap/

The two frontends share the DAP client (`dap/`), the function breakpoint driver
and the condition bindings (`lldb_dap/`), and the value decoding; each has a
session of its own.

| Component | State it keeps | Operations | What makes it hard | What makes it correct |
|---|---|---|---|---|
| **LiveSession**, `dap_frontend/live*.mbt` | lifecycle flags, `execution_revision`, the router `pending`, four job queues, active and deferred breakpoint requests, held stops, the condition under evaluation, frame handles | the editor's requests, lldb-dap's responses and events, jobs of four workers, deadlines, shutdown | five sources of messages in any order; late responses; stops before the answer of the breakpoint they hit; work cancelled while a worker does it; errors in the middle of a handler | each request answered once; resumes do not overtake breakpoint edits; stops neither lost nor skipped; data of the current stop only; `terminated` once |
| **ConnectionSession**, `dap_frontend/session.mbt`, `server.mbt`, `live_launch.mbt`, `prepare_launch.mbt`, `launch/process.mbt` | the handshake, the launch under way, the bounded inbox, the build with its process and two streams | initialize, the connection test, launch, the build and its cancellation, the hand over to LiveSession | the loop waits for a build that may wait for the loop; messages of a build that is over; frames read ahead | one answer each; nothing left of a build; the live session starts clean |
| **DebugSession**, `debugger/` | phase, execution and stop numbers, the stable stop with its stack and selection, desired breakpoints, results of the last synchronization | run, resume, settle a stop, page the stack, select, read, add / enable / disable / delete / condition, quit | every call of the backend may fail; paging until a frame is found; three-way results of a synchronization | a usable session after every failure; the dictated frame; the list agrees with the program |
| **LldbSession, DapExecution, DapSessionMachine**, `lldb_dap/session.mbt`, `execution.mbt`, `state.mbt` | the prepared and the active execution, machine state, stop epoch, frame ids, variable cache, condition bindings | prepare, launch, resume, wait for a stop, skip on a false condition, restart, recover, close | timeouts of the preparation, events while a request waits, recovery | the contract `backend.mbt` states |
| **Breakpoint synchronization**, `lldb_dap/breakpoint*.mbt`, `family_breakpoint.mbt`, `function_driver.mbt` | adapter outcomes and physical IDs of each logical breakpoint | group replacement of sources and functions, families one by one | a failure in the middle | rejected means unchanged; anything else is uncertain |
| **DAP client**, `dap/` | sequence numbers, buffered responses | send, route | responses out of order or twice | each response reaches its request |
| **REPL**, `repl.mbt` | the command being executed | read a line, await its command, print | none beside the backend's: it awaits each command, so one operation is in progress; ctrl-C only discards the input line | every command comes back to the prompt |
| **End-to-end tests**, `tools/repl_e2e.py`, `tools/fake_dap.py` | the terminal's text and how far it was looked through; a marker file and a trace that several fake adapters share | type, expect, wait for the trace, check at the end | processes the test does not schedule: the adapter prepared ahead, the one being closed | no schedule makes a test fail or wait for good |
| **Conditions, target discovery, mangling, values, rendering** | none | pure functions, output | edge cases of input | equal to a reference definition |

The other REPL files parse and print.

## 2. Modules

| Module | Models | Code it stands for |
|---|---|---|
| `LiveSession` | the DAP session's event loop and workers, with the editor, lldb-dap and the debuggee as its environment | `dap_frontend/live*.mbt`, `lldb_dap/condition.mbt:34-65` |
| `ConnectionSession` | what is before a live session: handshake, connection test, build, hand over | `dap_frontend/session.mbt`, `server.mbt`, `prepare_launch.mbt`, `live_launch.mbt`, `launch/process.mbt` |
| `DebugSession` | the REPL's application session over the contract of its backend | `debugger/*.mbt` |
| `DebugBackend` | that contract as a specification | `debugger/backend.mbt` |
| `DapMessages` | requests, responses, events; a transport and its ends | `dap/*.mbt` |
| `LldbSession` | the lldb-dap backend | `lldb_dap/*.mbt` |
| `LldbSystem` | `LldbSession` with a user and lldb-dap processes that fail; shown to implement `DebugBackend` | lldb-dap is external |
| `FakeAdapter` | the test adapter as a function | `tools/fake_dap.py` |
| `ReplTests` | every end-to-end test, over `LldbSession`, the REPL and `FakeAdapter` | `tools/repl_e2e.py`, `repl.mbt` |
| `DebugSessionProofs`, `LldbSystemProofs`, `LldbContractProofs`, `LldbFailureProofs`, `ConnectionSessionProofs`, `LiveSessionProofs`, `LiveStopsProofs`, `LiveOrderProofs` | theorems | |
| `MC...` | constants for TLC | |

    DapMessages <- LldbSession <- LldbSystem --implements--> DebugBackend
         ^             ^
    FakeAdapter <-- ReplTests          DebugSession (assumes what DebugBackend says)

    ConnectionSession --hands its inbox to--> LiveSession

PROJECT.json maps every definition to its lines.

### LiveSession

*State.* `session` holds the flags of the record `LiveSession` (`live.mbt:36-57`),
`pending` the router, `breakpoints` the `FunctionState` and `PanicState` (active
requests, `deferred`, held `stops`), `conditions` the `ConditionState`,
`inspection` the `InspectionState`, `workers` the four tasks with their job
queues, `fromClient`, `toAdapter`, `fromAdapter` the pipes. `at` is where the
loop is: between messages, inside `drain_breakpoint_updates`, or past its end.
`client` and `target` are what the editor has been told and what the debuggee
really does: properties compare them.

*Actions.* One per request of the editor (`OnClient`), response or event of
lldb-dap (`OnAdapter`), message of a worker (`OnWork`: `OnRead`,
`On...Done`), and one for the deadline, the shutdown and each step of a worker.
The handlers are written as the code has them: the guards of `match` arms as
conjuncts, every call they make included, the error path of the loop
(`live_server.mbt:174-210`) as `Raise`. The drain is the one handler split in
steps, one held stop or one deferred request each, because each of them is a
whole handler; `at = "drain"` keeps the loop inside it, as in the code.

*The inbox.* The code merges its sources into one queue. Here the loop takes the
head of any source, which covers every merge order.

*Abstractions.* A breakpoint request replaces one location, which is absent,
unconditional, conditional or unparsable (`Kinds`). A worker job makes one
read; in the code it makes several, each through the same admission check and
the same check of the epoch when the reply is in. `scopes`, `variables` and
`evaluate` are one command, the steps are one command. A request's sequence
number is reused once the router has forgotten it. Panic classification reads
the top frame; its result is a choice.

*The environment.* The editor sends any request of the model at any time, with
the last frame handle it was given, valid or not. lldb-dap handles one request
at a time and emits events from a thread of its own: a breakpoint is in the
target before its answer is written, `continued` comes before or after the
response or not at all, and a `stopped` may overtake the response of the
`continue` it ends. `Faults` chooses what may go wrong: refusals, a failed
launch, a dead adapter, silence until a deadline, an editor that closes its end.
`PairedStops` adds one stop reported once per thread.

### DebugSession

*State.* `phase`, `execution`, `stopNumber`, `stop` are `DebugApplicationState`
and `StableStopState`; `points`, `nextId`, `results` the breakpoints of
`DebugSession` with the IDs that have a synchronization result of this stop;
`doing` is the operation that waits for the backend and what it holds in locals
meanwhile. Frames count from 1. Two variables are no variables of the code:
`installed`, what the backend has confirmed, and `refused`, the additions it
refused.

*Actions.* An operation that calls the backend is one action up to the call and
one action for each answer. `Reconfigure` is the part of `add_*`, `manage_breakpoint`
and `set_condition` that decides what the list shows during the call, what is
asked for, and what comes back on a refusal. `BackendFails` is `backend_failed`:
a `BackendFailure` leaves the session Ready, any other error leaves it Failed.

*Abstractions.* A breakpoint is its ID, its kind, its flag and its condition;
paths, lines and selectors matter only to the backend. A frame is project code,
other MoonBit code or hidden. The backend may answer any stack; the answers the
session refuses (`validate_extension` and the checks of the first window) are in
`SettleFails` and `LookFails`. Contract assumed of the backend
(`backend.mbt:23-66`): a rejected synchronization changed nothing.

### LldbSession and LldbSystem

*State.* `prep` is `LldbDapSession.preparation` with the state of its task,
`exec` its `execution`: the adapter it owns, `DapSessionMachine`, the
dispatcher's `inbox` of unmatched responses, the cached stack windows and frame
IDs, what the variable cache has read, the handles of families and those
active. `applied` are the desired breakpoints, `adapters` the processes with the
two streams of each, `view` what `DebugSession` knows. `LldbSystem` adds
`targets`, what each adapter's program really does and has installed, and the history `dropped`, the adapters a timeout
of the preparation left over; the client never reads them, properties compare with
them.

*Actions.* `op` is the operation in progress as the list of steps that are left:
a request to send and await, a wait for an event, a decision. `Launch`,
`Resume`, `Synchronize`, `Inspect`, `Extend`, `Quit` make the list in the order
of the code; `Proceed` is the client's next step, that is: send, take one
message, act on a response, wait, decide. Any message may come at any await.
Source files are replaced in the order of their first appearance, exact
functions in one request, families one command each, as
`synchronize_breakpoints` does it. `GiveUpPreparation` and `TimesOut` are the
timeouts of the preparation, of the launch and of `disconnect`.

*Abstractions.* What a condition says at a stop and whether a stop is a panic are
choices; a false condition resumes the program within the operation, so that one
operation may go through several stops, and `LastRequest` bounds how often the
adapter's program stops again. The four steps are one. A lookup of variables makes one `scopes` and one
`variables` request. Bodies of messages are left out but for the thread and
whether the stack is whole.

*The environment.* An adapter handles one request at a time. It answers
`launch` before or after `initialized` and before or after configuration,
`continue` before or after what it sets off; its program stops, exits or runs
on. `Kinds` is what may go wrong: a request is refused or answered in a way that
confirms nothing (its effect is done or not), the adapter dies, the program is
killed while loaded or stopped, a stop is reported twice, a response is sent
twice, a wait times out.

*Refinement.* `Contract` is `INSTANCE DebugBackend`: a call is the operation in
progress, `held` whether there is an execution, `config` what the *target* has
installed, not what the client believes. `Work` allows changes only of calls that
may make them. `DebugBackend` is what `DebugSession` assumes: a stop has the
breakpoints asked for, a confirmed synchronization those of the new
configuration, a refused one changed nothing, and after a failure nothing is
kept.

### FakeAdapter and ReplTests

`FakeAdapter` maps environment, marker file and request to the messages sent, the
records traced and the exit code. A test is a drive, a list of `send`, `expect`
and `wait_for_trace` steps, and what it checks in the end: number of adapters,
commands traced by each, texts counted on the screen, no process left. `Suite`
holds all sixteen. Tester, REPL with backend, preparation and adapters are
processes of their own. The tests that need a real lldb-dap run a program that
goes from one place to the next; elapsed times and bytes of the terminal are left
out.

### ConnectionSession

*State.* `at` is where the session is: `serve`, waiting in `await_preparation`
(`building`), waiting for the cancelled build (`stopping`), leaving the task
groups, or the live session. `session` is `ConnectionSession` with the sequence
numbers of the launch and of the disconnect that are not answered; `reader`,
`inbox`, `build` are the three tasks; a build runs moon twice, each time with a
process and two streams. `taken` and `passed` record the frames the loop and the
live session got.

*Actions.* One per request in `serve`, per message in `await_preparation`, and
per await of the reader, the build and the streams. A put waits for room; a
cancelled task ends at the await it is at, the process is killed and waited for.

*Abstractions.* Whether arguments are valid is a choice. In the run, commands
that are only answered are represented by a second `initialize` or `launch`, and
a broken stream by an unreadable frame. The live session only takes messages:
what it does with them is `LiveSession`. Not modelled: failing writes to the
editor, and in `build_group.c` a cancellation before the child's `setsid`.

## 3. What is checked

Deadlock is not checked: every session may end, and the editor, the user and the
program may stop for good.

| Run | Bounds | Question |
|---|---|---|
| `live_breakpoints` | 3 requests of {setBreakpoints, setFunctionBreakpoints, continue, pause}, 2 stops at a source breakpoint or at both kinds (and those of pauses), a deferred queue of 1, refusals, requests that parse | breakpoint edits around stops and resumes |
| `live_inspection` | 4 requests of {stackTrace, variables, continue, next}, 2 stops, refusals, timeouts | reads across resumes and stops |
| `live_launch` | 3 requests of {setExceptionBreakpoints, configurationDone, threads, disconnect}, 1 stop, failed launch, crash, end of input, refusals | start and end of a session |
| `live_served` | 2 requests of {setBreakpoints, setFunctionBreakpoints, continue, stackTrace}, also unparsable ones, 1 stop, silence of lldb-dap, fairness | liveness |
| `paired_overtake`, `paired_skip` | 3 requests of {setBreakpoints, continue}, 1 stop of two threads | two violations, see 5 |
| `session_stack` | stacks of at most 3 frames in windows of 2, 2 stops, no breakpoints, fairness | settling, paging, selection, failures |
| `session_breakpoints` | 2 breakpoints, 2 conditions, 2 runs, 2 stops | configuration and synchronization |
| `lldb_contract` | 3 operations, 1 fault of any of the 6 kinds, 10 requests after which a program stops no more (`LastRequest`), a source breakpoint with a condition and a family, fairness | the backend against its contract, with real processes behind it |
| `lldb_wedge` | 3 operations, 1 kill, a breakpoint of each kind | a violation, see 5 |
| `connection_build` | 4 frames of the editor, an inbox of 1, 1 chunk of output in two runs of moon, fairness | cancellation, a full inbox, hand over |
| `repl_tests` | the sixteen tests, each with all its schedules, fairness | do the tests pass on every schedule |

*LiveSession properties.*
`Accounted`: a request the loop has taken is answered, or exactly one of the
router, the deferred queue, the inspection jobs and the active replacements owes
its answer. `AnsweredOnce` is the same promise on the error paths.
`ExecutionOrdered`: when a resume is forwarded, no breakpoint request sent before
it is unanswered. `BreakpointIdsFirst`: the editor is shown a stop only when it
knows the IDs of what was hit. `OnlyFalseConditionsSkip`: the target is resumed
by itself only from a stop all of whose hits are conditional, whose conditions
are false there, and which was not shown. `InspectionIsCurrent`: frames and
values handed out were read at the stop the target is at, and the values through a
frame handle that came with frames of that very stop. `FunctionReplyIsOwn`: until
the program exits, a function request succeeds with what was installed for it and
for nobody else; after an exit the result may also be that of a request the exit
refused, see 5. `Agreement`, `NothingStranded`: when nothing is on its way,
the editor, the session and the target agree, and no stop, request or work is
left behind. `SilentAfterDisconnect`: once the editor has asked to disconnect,
lldb-dap is asked for nothing more but, when the loop has ended without hearing
that it did, to disconnect again (`live_server.mbt:213`). `TerminatedOnce`: the
editor hears of the end once.
`PutsEnd`: the loop never waits for room in a worker's queue while that worker
waits for the loop. A second job is put on a full queue when an exit has
cancelled the replacement whose job was not taken; the property says that the
worker then needs no read to come to its queue. The loop's own inbox has room for
128 messages (`prepare_launch.mbt:74`) and is unbounded here, so that this is the
half of a deadlock which is about the job queues. `Served`, `StopsSurface`:
liveness.

*DebugSession properties.* `PromptIsUsable`, `SelectionIsDictated`,
`AgreesWithBackend`, `ListedIsInstalled`, `StopEpochsAdvance`, and for liveness
`OperationsFinish`.

*Backend properties* (`LldbSystem`). `KeepsContract` is the refinement of
`DebugBackend`. `NothingLeaks`: every open adapter belongs to the execution or to
the preparation, or is one whose wait timed out just when it was ready; only the
execution's was asked to launch a program; none is open once the session is closed.
The exception is what the code does (`session.mbt:70-96`: the task ends while the
wait for it times out, its result is dropped, the adapter lives until moondbg ends).
`dropped` records these adapters where that happens, so that no other fault excuses
one. `FailsForCause`: without a fault no
operation fails or is refused, whatever the order of messages. `ViewIsCurrent`:
the frames `DebugSession` has are those cached for the stop the backend is at. A
second `stopped` event while stopped makes the cache forget the stack but keep
its frame IDs (`state.mbt:104`); the next window then fails an execution that is
healthy. This is allowed: it has a cause (`repeats`), and the session recovers.
`OperationsEnd`: liveness. `disconnect` of a restart has no timeout of its own;
an adapter that neither answers it nor dies is outside the fairness assumed.

*Properties of the tests.* `NoTestFails` and `TestsEnd`: on every schedule of
tester, REPL, preparation and adapters, each test passes and ends.
`OneLifePerAdapter`: no adapter is launched or configured twice.

*Connection properties.* `AnswersOwed`: each request taken is answered once,
except those the session still owes; at the end an editor that is still there has
the answers to all but a launch that `LiveSession` was given. A launch whose build
failed, was cancelled or met an unreadable frame, or that found no adapter, is among
the answered, and `terminated` is sent once for it, once for a finished test, and
never else. `BuildStopped`: "Do not claim disconnection
before the owned build has stopped" (`prepare_launch.mbt:153`). `LiveStartsClean`:
the live session, which fails on any message of a build (`live_server.mbt:127`),
is never given one. `FramesInOrder`: no frame is lost or overtaken between reader, inbox and
the two loops. `SessionEnds`: a disconnect is obeyed although the loop that waits
for the build no longer empties the inbox the build may be blocked on.

*Why the bounds suffice.* Two stops are needed for anything stale: a handle, an
answer or a condition of the first met at the second; four requests let the
editor read, resume, get a new stack and use its old handle. Three requests are
one to work on, one to defer, and one that overtakes or overflows the queue of
one. The 64 of the deferred queue and of the queue of inspections is a constant
(`QueueCap`), so that both fill up. Three frames in windows
of two give a first window without a frame to show, an extension that has one,
and one more after it. Two runs show that epochs go on over executions. Three
operations of the backend are a launch, one at its stop, and one after that has
failed; one fault of every kind at every moment reaches each error path, and the
recovery from it is then without further faults. Ten requests let a launch
skip a stop at a false condition and meet another one. Four frames are initialize,
launch, one refused during the build and a disconnect; the inbox of 1 (128 in the
code) blocks reader, streams and build on each other.

*Fairness.* `LiveSession!Fairness` is weak fairness of the loop's handlers, of
its deadline and shutdown, and of the workers: one cooperative runtime schedules
them, and the inbox loses nothing. Nothing is assumed of the editor, of lldb-dap
or of the debuggee; that is why `Served` needs the deadlines. A deadline exists
while a request is open, before configuration, and after the end
(`live_server.mbt:98-120`). `DebugSession!FairSpec` assumes that the backend
answers: its own timeouts are part of its contract. The program need not stop:
`launch` and `resume` are not among the operations that must finish.
`LldbSystem!FairSpec`: the client's tasks go on, and an open adapter handles its
requests and sends the responses it owes, unless a fault ends it; a program need
not stop, and `OperationsEnd` excepts one that runs. `ReplTests!Spec` has weak
fairness of each process. `ConnectionSession!Fairness`: the loop, the reader and
the timeouts run, and what is cancelled ends (a killed process group is gone, a
cancelled task wakes at its await); nothing is assumed of moon or the editor.

Each property has a mutant in PROJECT.json: a definition changed as a plausible
bug would change it, for which TLC finds the property violated.

## 4. What is proved

`DebugSessionProofs` proves, for every value of the constants that satisfies
`SessionAssumption` (naturals, a positive window, an unconditional condition),
that `Spec` implies

- `[]TypeOK` (`TypeCorrect`), `[]PromptIsUsable` (`PromptAlwaysUsable`),
  `[]SelectionIsDictated` (`SelectionAlwaysDictated`),
- `[]AgreesWithBackend` (`AlwaysAgreesWithBackend`), `[]ListedIsInstalled`
  (`ListedAlwaysInstalled`),
- `StopEpochsAdvance` (`StopEpochsAlwaysAdvance`).

None of these but the types is inductive. The invariant `IInv` adds:

- `OperationMatchesPhase`: launch, resume, arrive and settle run in Running, the
  others in Stopped. Without it an answer could come to a session that moved on.
- `StopMatchesPhase`: there is a stop exactly in Stopped, with the current epoch.
- `PanicIsSettled`: the stack of a panic is incomplete only if a project frame is
  loaded or no project is known, so that frames loaded later cannot dictate
  another selection. This is what makes `Reselects` (`state.mbt:182`) right.
- `IdsHandedOut`: every ID in the list, in a configuration under way or with a
  result is below `nextId`, so a new breakpoint's ID has no result.
- `RefusedHaveNoResult`: a refused addition has no result, nor has one that may
  still be refused.
- `BackendHasLive`: from the launch's outcome on, the backend has the enabled
  breakpoints it did not refuse; during a synchronization, those of the
  configuration that comes back on a refusal, without the one being added.
  `AgreesWithBackend` is the first half at the prompt.

The lemmas on stacks (`ExtensionKeepsFrames`, `FirstStaysFirst`,
`ExtensionKeepsSelection`) say that a prefix extension keeps the nearest frame of
any class once there is one; they hold for stacks of any depth. The proofs go by
phases, then by stop, then by breakpoints, one step per action of `Next`.

`LldbSystemProofs` proves `[]NothingLeaks` (`AdaptersNeverLeak`) for any
breakpoints, any number of operations, adapters and faults of any kind. Its
invariant (`Invariant`):

- `AdaptersAreOwned`: an open adapter outside the execution was asked to
  initialize at most, has no live program, and has an owner or is one of those
  `dropped`. The first half is what lets a prepared adapter become the execution's.
- `OneAtATime`: while there is an execution nothing is prepared, so that the step
  that takes the prepared adapter never replaces one. This is why each way to let
  an execution go must come before the next preparation.
- `NothingToDo`: without an execution the operation in progress can only wait for
  a preparation or close. It excludes that a step acts on an adapter that was
  let go.
- `NoneWhenClosed`: after `quit` nothing is open and nothing is left that opens
  one.

The proof sorts the client's steps into those within an execution (`Within`),
those that let it go, and those of the preparation; what the messages say does
not matter to it.

Its second part proves `[]TypeOK` (`TypesAreCorrect`) from exact types
(`TypesHold`), which the proof of the contract needs more than the types of
`TypeOK`. `Typed` says what each step, request and message carries, that requests
are numbered in the order they were sent, that the cached windows of a stop join,
and that only families in use are installed. The steps of a launch's configuration
and of a synchronization come from sets put in an order by `InOrder`;
`ConfigurationCovers` and `SynchronizationCovers` say that they cover each
breakpoint in use, respectively each whose use changes. That an order of a finite
set lists all of it goes by the least natural number without the property: an
induction on numbers can be had without the library's theorems, an induction over
data cannot.

`LldbContractProofs` proves that the backend with its adapters implements
`DebugBackend` (`ContractIsKept`, the property `KeepsContract`) and `[]ViewIsCurrent`
(`ViewStaysCurrent`), for any sources, functions and families, any number of
operations, adapters and requests, and every fault. The argument: the steps that
are left cover each breakpoint that is not as it is wanted; a step is dropped only
when the response to its own request confirms it; and nothing else changes
breakpoints. So with no step left the program has what was asked for. The
invariant `CInv` (`BreakpointsAreFollowed`):

- `Shaped`: which steps an operation may have left, and in which order. Without it
  a step could be dropped that was needed for a later one: a configuration before
  `launch`, a disconnect without the close after it.
- `Reached`: what an operation finds when it begins. `sync`, `find`, `locals` and
  `stack` begin at a stop, and between operations the program is stopped, or ended
  unnoticed (the state of the finding `lldb_wedge`).
- `Asked`: requests in an adapter are numbered in order, none is answered before it
  is served, and one that changes breakpoints is the one being awaited. A late or
  repeated response can therefore not confirm another step.
- `Unprepared`: an adapter that is not the execution's has no breakpoints, so that
  a launch starts from none.
- `Reflected`: a response on its way that confirms the awaited step finds the
  program changed as the step wanted.
- `Progress`: each breakpoint is as wanted, in the program and for families in
  `active`, or a step left covers it, or the execution is about to be released.
- `Windowed`: what `DebugSession` loaded of the stack is what is cached, unless the
  program went on and nothing is cached. The next page joins it.

The mapping of a step to `DebugBackend`: the user's calls are `Call` or `Refuse`;
the return of an operation answers with a stop or is done; discarding or closing the
execution, giving up and a failed preparation answer that the execution is over; a
failed lookup is unreadable; every other step of the client or of an adapter is
`Work` or a stutter (`StepIsAllowed`).

`LldbFailureProofs` proves `[]FailsForCause` (`NeverFailsForNothing`), for any sources,
functions and families and any number of operations, adapters and requests. The
invariant `CleanInv` holds as long as there was no fault, and needs the three
invariants above it. A failure of the backend comes from a response that is a failure,
a report it does not expect, an adapter at its end, or an operation that begins where
it is not allowed; each part excludes one of them:

- `Connected`: the adapter is up until it is disconnected. `Outstanding`: one request
  at a time is on its way, the one that is awaited, or the launch that `initialized`
  overtakes. `Answerable`: no response is a failure, and none answers a request twice.
- `Known`: what the backend takes the program to be is what it is, or what the
  messages still unread make of it. In `Running` the program may be at its stop
  already, then one `stopped` is to be read and nothing else; in `Exited` only reports
  of the end may follow. So every event is one its state accepts.
- `Chained`: the steps left follow each other as `Then` says, and `Planned`: the
  execution is in a state the next one is allowed in (`Where`). A launch, a resume and
  a look at a stop keep this from the first step to the last.
- `Framed`: the cached windows of a stop join, and a stop that is returned has a frame,
  so the window that `stack` loads is never one too far and no stop is returned empty.
- `Clear`: an adapter that is prepared answers `initialize` and does nothing else.

The proof has one lemma for what an adapter does (`CleanActs`), one for the steps of an
operation that go on with its execution (`StepStaysClean`), for those that let it go
(`EndStaysClean`), the preparation, and each call of the user.

`ConnectionSessionProofs` proves for any number of frames, any capacity and any
output `[]TypeOK` (with the bound of the inbox and what the reader holds),
`[]LiveStartsClean` (`LiveAlwaysStartsClean`) and `BuildStopped`
(`BuildAlwaysStopped`). Its invariant:

- `BuildIsOwned`: a process or stream exists only while the preparation waits for
  it, and outside a build there is no preparation. `BuildStopped` follows from it,
  since every answer to a disconnect and every end waits for the task.
- `OutcomeIsLast`: behind the outcome of a preparation there are frames of the
  editor only, so that taking it leaves a clean inbox.
- `NothingEarly`: the inbox is empty before a launch, and only a disconnect during
  a build sets `leaving`.

It goes on to `[]FramesInOrder` (`FramesAlwaysInOrder`) and `[]AnswersOwed`
(`AnswersAlwaysOwed`). `InOrder` says where each frame is by counting the editor's
messages in the inbox; a lemma each says that sending, reading, putting, taking and
serving keep it. With it each frame taken is the next that was sent, so that no
request is handled twice, and answers can be counted: `Settled` says that exactly
the requests handled and not owed are answered, and at the end all but a launch
handed over, `Stages` what is owed at each point of the session and that a build is
cancelled unless its launch is handed over. A session that ends with the input
(`EditorStays`) promises nothing. `OneAhead` holds because the reader, which outlives the build, holds
a frame only to put it, and LiveSession is given none before the build is over.

`LiveSessionProofs` proves for any number of requests and stops, any commands and
any faults `[]TypeOK` (`TypeCorrect`), `[]TerminatedOnce` (`EndsOnce`) and
`SilentAfterDisconnect` (`DisconnectIsLast`). Its invariant `SafetyInv`:

- `Types`: `TypeOK` made precise: the router is finite, each part holds only the
  requests it may be asked for, and each worker only its own kinds of jobs.
- `Ends`: the editor has heard `terminated` exactly when the session has ended,
  and a session that is over has ended.
- `Dated`: an inspection or a condition is read at a stop. After a disconnect no
  such job is current, so neither worker asks lldb-dap for more.
- `Closed`: a disconnect leaves no stop and no breakpoint request held back that a
  drain could perform later. `DisconnectIsLast` is the step of this; the loop's own
  disconnect belongs to its shutdown, after which nothing is sent.

Its second part proves `[]Accounted` (`RequestsAccounted`) and
`[]AnsweredOnce` (`NoSecondAnswer`) by counting. A request other than launch is
with one holder: on its way to the loop, in the router, deferred, queued for
inspection, or it is the breakpoint request of the function or the panic worker.
Its holders and its answers add up to one (`Balanced`), and each step passes it
on or answers it. What the count needs:

- `Sane`: no holder has a request twice, and only what the editor asked for is
  owed to it. Launch is answered apart (`LaunchOnce`).
- `Inflow`: the editor numbers its requests upwards, so a new one has no holder.
- `DrainsAtRest`: deferred requests are performed only when no breakpoint work is
  pending. Otherwise a second `setBreakpoints` would replace the one a worker is
  at, and nobody would answer that.
- `NoneTwice`: an error and a disconnect answer everybody at once. Afterwards the
  loop is left, the count no longer holds, and this is what is kept.

`LiveStopsProofs` goes on from it, for any number of requests and stops, any
commands and any faults. Its first part says once for all handlers what a step of
the loop sends and how it moves the session (`OwnStep`, `MessageStep`), and what
lldb-dap (`Effect`) and the debuggee (`Reports`) do; each later proof goes by these
few kinds of steps instead of by forty handlers. `FlowInv` adds to the invariants
above:

- `Addressed`: a request in the router or on its way is of the part it is answered
  to, so that a handler gets answers of the command it asked for.
- `StartsOnce`: `configurationDone` is sent once, before the target runs, and
  nothing follows a disconnect. Otherwise the target could start anew at a stop.
- `ExitsOnce`: there is one `exited`, at the end of the target.

With these it proves

- `[]PutsEnd` (`PutsAlwaysEnd`). `JobsInv` counts the jobs of the function and the
  panic worker: while the session goes on there is at most one for the active
  replacement and one that an exit has left, and an active replacement has one.
- `FunctionReplyIsOwn` (`FunctionsAnsweredForThemselves`). `OwnInv`: until the
  program exits, every job of the function worker is of the active replacement.
  `CausesInv`: afterwards it is, or it is of a request that was answered.
  `Truthful` and `Unsaid`: whoever has an outcome was answered, and the active
  replacement was not, so that its outcome in a step is an answer of that step.
- `[]BreakpointIdsFirst` (`IdsAlwaysFirst`). `EditsInv`: stops are held back only
  while breakpoint work is unanswered, or in the drain after it, and at most one
  replacement of source breakpoints is at work. `KnownInv`: who installed a
  breakpoint in the target, or is about to, was answered or owns the active work;
  who installed what a stop hit that has passed the loop was answered. The loop
  lets a stop pass only with no work active (`Passes`), where both are the same.
- `InspectionIsCurrent` (`InspectionAlwaysCurrent`). `DatesInv`: requests carry the
  revision they were sent at and a resume begins a new one, so that what is sent
  at a revision reaches lldb-dap before the resume that ends it. `RepliesInv`: a
  successful reply of the session's revision was read at the stop the target is at,
  and no resume is on its way (`AtRest`). `AwaitedInv` and `ResultInv` carry this
  over to the worker that waits for the reply and to its result, `FramesInv` to the
  frame handles and the jobs queued for them. `Settling` is the step of all of
  them: the target stays where it rests unless the session leaves its stop, and
  then the handles are dropped in the same step.

`LiveOrderProofs` proves `ExecutionOrdered` (`ExecutionNeverOutruns`) of a target that
reports each stop once (`~PairedStops`; the run `paired_overtake` shows that it fails
otherwise). A resume is performed by the loop or by the drain, each time with no
breakpoint work pending; what is left to show is that nothing deferred was sent
before it:

- `TokensInv`: of what tells whether the target stands still, one thing is on its way
  at a time, the resume, its refusal, or the stop not heard of yet; and a session that
  takes the target to stand is right. So no stop arrives while the session is at one.
- `HeldInv`: a stop whose conditions are evaluated, or that is held back, keeps the
  session stopped, there is one of them at most, and while the loop takes messages
  nothing waits in a queue unless some work is pending. This is what a second report
  of a stop breaks: it ends an evaluation without a drain.
- `LateInv`: deferred requests are in the order they were sent in, and before what the
  loop has yet to take. `configurationDone` is the exception: it may be deferred again,
  behind later requests, while the default panic breakpoint is installed.

Its second part proves `[]NothingStranded` (`NothingIsStranded`), under the same
assumption: a queue is not empty unless some work is pending (`HeldInv`), so that it
is enough to say in whose hands the work is. `UnderwayInv` is the conjunction of

- `JudgedInv`: the stop under evaluation is the one the session is at, and the
  condition worker has it queued or in hand.
- `ReplacingInv`: while a replacement of source breakpoints is marked as under way,
  its request is in the router.
- `TravelInv`: while lldb-dap lives, a request in the router is on its way, in
  lldb-dap's hands, or answered by a message the loop has yet to take. Only the launch
  may wait for the configuration.
- `FollowedInv`: an exit is followed by the event that ends the session. So nothing is
  required of a session that has seen the exit and not yet the end.

Its third part proves `[]Agreement` (`PartiesAgree`), under the same assumption. At
rest nothing is pending (`NothingStranded`), so it is enough to say what each side
waits for while they differ. `SightInv` is the conjunction of

- `ViewInv`: the editor is shown a stop exactly while the session is at one and
  nothing of it is hidden: it is not held back, its conditions are not being
  evaluated, and the panic breakpoint's frames are not awaited (`Seen`). For that, one
  resume at a time is ahead of the session (`AheadAlone`), one question about a panic
  is open and nothing else hides that stop (`SortingAlone`), and a resume the editor
  waits for is in the router (`ResumeKept`).
- `WhereInv`: a stopped target is known to be stopped, or the report, the resume or
  its refusal is on its way; likewise an exit, and a start that was asked for. The
  other direction, a session that takes the target to stand is right, is `TokensInv`.
- `PastInv`: no request carries a revision the session has not come to.

Its fourth part proves `OnlyFalseConditionsSkip` (`OnlyFalseOnesSkip`), under the same
assumption. A skip is sent on the word of the condition worker, which reads while the
session goes on, so its word must be about the right stop, place and breakpoints.
`TruthInv` is the conjunction of

- `RankedInv`: the worker has its jobs in the order of the stops they are for, none
  ahead of the session; one for the stop the session is at is the evaluation under way.
- `RuledInv`: all breakpoints hit by the stop under evaluation are still conditional.
- `PlacedInv`: the stop under evaluation, like every stop that is held back, is where
  the target is.
- `GoneInv`, `AskedInv`, `DeniedInv`: a verdict is asked for and given while the target
  stands at the stop it is about. lldb-dap answers an `evaluate` with the condition's
  value where the target is then, so no answer that was overtaken by a resume can pass
  for one of the next stop.
- `JudgmentInv`: what the worker has found false so far is false at that stop.

That no skip is seen by the editor is `ViewInv` of the third part.

Only model-checked are, of `ReplTests`, `TypeOK`, `NoTestFails` and
`OneLifePerAdapter`, and all liveness (`Served`, `StopsSurface`, `OperationsFinish`,
`OperationsEnd`, `TestsEnd`, `SessionEnds`), which TLAPS does not do under fairness.
The tests are fixed schedules over the fake adapter, a finite system that TLC explores
whole; `OneLifePerAdapter` is about what `SelectSeq` keeps, of which the library has no
facts that do not take an operator as a parameter.

## 5. Findings

lldb-dap emits one `stopped` event for each thread that has a reason to stop,
and `lldb_dap/state.mbt:104` accepts the repetition. `LiveSession` treats each as
a stop of its own. With `PairedStops` two statements of the comments fail; all
other runs are without it.

- `paired_overtake`: "execution cannot outrun installation"
  (`live_requests.mbt:81-82`). The second event clears `conditions.active`
  (`live_events.mbt:212-231`) and with it `breakpoint_work_pending`, but does not
  drain: a breakpoint request deferred behind that evaluation stays queued, and
  a `continue` sent after it is performed first.
- `paired_skip`: a stop with unknown or unconditional hits "must never be
  auto-continued" (`lldb_dap/condition.mbt:32-33`). The first event is shown to
  the editor, the second is a conditional hit of another thread; its false
  condition resumes the whole target.

`lldb_wedge` is a third disagreement. "After the program exits the REPL stays and
`run` may be executed again" (`docs/discussion/T-01...md:72`). When a stopped
program is killed and the backend reads `exited` while `synchronize_breakpoints`
awaits a response, the synchronization is confirmed and the execution is kept in
the state Exited. The next `continue` is refused (`OperationNotAllowed`, after
which nothing is recovered), the session becomes Ready, and
`prepared_execution` (`session.mbt:62`) takes the ended execution for the prepared
one: its guard refuses every run that follows. `DebugBackend` therefore says
`ended` of an execution, and `Refuse`.

Not a disagreement, but worth knowing: `complete_functions` compares the number of
points of a result with the active request, not whose result it is
(`live_functions.mbt:168`). Before `exited` this is enough, because the next request
is deferred until the worker's result is taken. `exited` refuses the active request
but leaves its worker at it, and requests are accepted until `terminated`
(`live_requests.mbt:108`): one sent in between is completed with the result of the
refused one, if it has as many points. The program is gone by then, so that the
breakpoints it is told of are never hit. `FunctionReplyIsOwn` allows exactly this.

## 6. Not modelled

- Conditions, mangling, runtime values, rendering, variables of the application
  session: pure functions and formatting without state. The protocols take their
  results as choices.
- Target discovery and the toolchain: file I/O; it may fail (`Decide`).
- Framing and JSON: pure I/O. A frame is whole or the stream is over.
- The VS Code extension (glue that starts the adapter) and the probes in `tools/`
  (scripts that print what lldb-dap does).
- In `LiveSession`: pages and ranges of the variable tree, breakpoint-changed
  events, requests of lldb-dap to its client, a breakpoint stop without hit IDs (it
  is examined like the panic breakpoint's, `live_panic.mbt:171-174`), and the bound of
  the inbox. In `LldbSession`: the same requests
  (always refused) and texts.
- In the REPL: parsing of arguments, completion, and the commands for frames and
  breakpoint management, whose operations are in `DebugSession`.
- A refusal in the middle of a synchronization (`function_driver.mbt:53`,
  `family_breakpoint.mbt:59`) reported as "rejected" would need a name the encoder
  does not produce; such a refusal is an uncertain outcome in the model, as for
  every name it does produce.
- Elapsed times: a timeout may fire whenever its wait lasts.
