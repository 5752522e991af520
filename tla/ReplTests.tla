------------------------------ MODULE ReplTests ------------------------------
(***************************************************************************)
(* The REPL with its lldb-dap backend, driven through a terminal by the      *)
(* end-to-end tests (src/tools/repl_e2e.py): a tester who types lines and    *)
(* waits for what is printed, the REPL that executes one command after the   *)
(* other, the preparation beside it, and the adapters, each a process of its *)
(* own.  The tests with the fake adapter run its model; those with a real    *)
(* lldb-dap run a program that goes from place to place.                     *)
(***************************************************************************)
EXTENDS LldbSession, FakeAdapter

CONSTANTS
    Missing,     \* function breakpoints that match no function
    Selected     \* the tests that are run

VARIABLES
    test,      \* the test that is run and what is left of its drive
    typed,     \* lines the REPL did not read yet
    screen,    \* what it printed
    cursor,    \* how much of it the tester looked through
    repl,      \* the command being executed
    listed,    \* the breakpoints of DebugSession, all of them enabled
    programs,  \* by adapter: its program
    marker,    \* whether the marker file of the test exists
    trace      \* what the fake adapters traced

world == <<test, typed, screen, cursor, repl, listed, programs, marker, trace>>
vars == <<backend, world>>

-----------------------------------------------------------------------------
(* Lines, what is printed, and the drive of a test.                          *)

Says(text) == <<text, 0>>
Prompt == Says("(moondbg) ")
Verified(p) == <<"verified", p>>
Pending(p) == <<"pending", p>>

\* Places: of a fake program, of one that made a step, or a breakpoint's.
Main == 0
Stepped == -1
Stopped(place) == <<"Stopped", place>>

DoStep(does, text, about) == [does |-> does, what |-> <<text, about>>]

\* PtyProcess.send, PtyProcess.expect
Type(text, p) == <<DoStep("send", text, p)>>
Expect(shown) ==
    [i \in DOMAIN shown |-> DoStep("expect", shown[i][1], shown[i][2])]

\* A command, what it prints, and the next prompt.
AskAbout(text, p, shown) == Type(text, p) \o Expect(shown) \o Expect(<<Prompt>>)
Ask(text, shown) == AskAbout(text, 0, shown)

Leave(text) == Type(text, 0) \o Expect(<<Says("Debugger exited.")>>)

\* wait_for_trace: a second adapter was asked to initialize, and the test checks
\* how many programs were launched.
AnotherAdapter(launches) == <<DoStep("trace", "initialize", launches)>>

\* Nothing is checked of a test but its drive unless it says so: how often
\* commands were traced, with which adapters, in which exchanges, and how often
\* something was printed.
Drive(drive) ==
    [drive |-> drive, env |-> Defaults, adapter |-> "fake", route |-> <<>>,
     patient |-> TRUE, traced |-> <<>>, adapters |-> {0, 1, 2, 3},
     exchanges |-> <<>>, printed |-> {},
     only |-> Awaited \cup {"initialize", "launch"}]

-----------------------------------------------------------------------------
(* The tests.                                                               *)

TheSource == 9
Failure == <<Says("adapter failed")>>
StoppedInMain == <<Stopped(Main)>>
Value == <<"value", 0>>

TestFakeAdapterFlow ==
    [Drive(Ask("help", <<Says("Commands:")>>)
           \o Ask("run", StoppedInMain)
           \o AskAbout("break", TheSource, <<Verified(TheSource)>>)
           \o Ask("print", <<Value>>)
           \o Ask("continue", <<Says("output begins"), Says("output"),
                                Says("output ends"), Says("Process exited")>>)
           \o Ask("run", <<Verified(TheSource)>> \o StoppedInMain)
           \o Ask("run", <<Says("Restarting program."), Verified(TheSource)>>
                         \o StoppedInMain)
           \o Ask("print", <<Value>>)
           \o Leave("quit"))
     EXCEPT !.env = [Defaults EXCEPT !.delayed = TRUE, !.duplicate = TRUE,
                                     !.late = TRUE],
            !.adapters = {3},
            !.exchanges =
               <<<<"initialize", "launch", "configurationDone", "stackTrace",
                   "setBreakpoints", "scopes", "variables", "continue">>,
                 <<"initialize", "launch", "setBreakpoints",
                   "configurationDone", "stackTrace", "disconnect">>,
                 <<"initialize", "launch", "setBreakpoints",
                   "configurationDone", "stackTrace", "scopes", "variables",
                   "disconnect">>>>,
            !.printed = {<<Verified(TheSource), 3>>, <<Says("Process exited"), 1>>,
                         <<Says("late-output"), 0>>}]

TestFakeSteppingCommands ==
    [Drive(Ask("help", <<Says("Commands:")>>)
           \o Ask("next", <<Says("Cannot")>>)
           \o Ask("step", <<Says("Cannot")>>)
           \o Ask("finish", <<Says("Cannot")>>)
           \o Ask("run", StoppedInMain)
           \o Ask("list", <<Says("source")>>)
           \o Ask("next", <<Stopped(Stepped)>>)
           \o Ask("step", <<Stopped(Stepped)>>)
           \o Ask("finish", <<Stopped(Stepped)>>)
           \o Leave("quit"))
     EXCEPT !.traced = [next |-> 1, stepIn |-> 1, stepOut |-> 1]]

TestFakeAdapterFailure ==
    [Drive(Ask("run", Failure) \o Leave("quit"))
     EXCEPT !.env = [Defaults EXCEPT !.mode = "exit-before-initialize-response"],
            !.adapters = {1, 2, 3},
            !.only = {"initialize"}]

FailingOnce(command) == [Defaults EXCEPT !.failOnce = command]

TestFakePreparationFailureRecovery ==
    [Drive(Ask("run", Failure)
           \o AnotherAdapter(0)
           \o Ask("help", <<Says("Commands:")>>)
           \o Ask("run", StoppedInMain)
           \o Leave("quit"))
     EXCEPT !.env = FailingOnce("initialize"),
            !.adapters = {2}, !.traced = [launch |-> 1]]

TestFakeRunningFailureRecovery ==
    [Drive(Ask("run", StoppedInMain)
           \o Ask("print", Failure)
           \o AnotherAdapter(1)
           \o Ask("print", <<Says("Cannot")>>)
           \o Ask("run", StoppedInMain)
           \o Ask("print", <<Value>>)
           \o Leave("quit"))
     EXCEPT !.env = FailingOnce("variables"),
            !.adapters = {2}, !.traced = [launch |-> 2]]

TestFakeContinueFailureRecovery ==
    [Drive(Ask("run", StoppedInMain)
           \o Ask("continue", Failure)
           \o AnotherAdapter(1)
           \o Ask("print", <<Says("Cannot")>>)
           \o Ask("run", StoppedInMain)
           \o Leave("quit"))
     EXCEPT !.env = FailingOnce("continue"),
            !.adapters = {2}, !.traced = [launch |-> 2]]

TestFakeDynamicBreakpointFailureRecovery ==
    [Drive(Ask("run", StoppedInMain)
           \o AskAbout("break", TheSource, Failure)
           \o AnotherAdapter(1)
           \o Ask("run", <<Verified(TheSource)>> \o StoppedInMain)
           \o Leave("quit"))
     EXCEPT !.env = FailingOnce("setBreakpoints"),
            !.adapters = {2}, !.traced = [launch |-> 2, setBreakpoints |-> 2]]

TestFakePreparationTimeout ==
    [Drive(Ask("run", <<Says("timed out")>>)
           \o Ask("help", <<Says("Commands:")>>)
           \o Leave("quit"))
     EXCEPT !.env = [Defaults EXCEPT !.delayed = TRUE], !.patient = FALSE,
            !.traced = [launch |-> 0]]

TestReadlineInterrupt ==
    Drive(Type("interrupt", 0) \o Expect(<<Prompt>>) \o Leave("quit"))

TestReadlineEof == Drive(Leave("eof"))

TestQuitDuringFakeAdapterPreparation ==
    [Drive(Leave("quit"))
     EXCEPT !.env = [Defaults EXCEPT !.delayed = TRUE],
            !.only = {"initialize"}, !.adapters = {0, 1}]

\* The breakpoints of the MoonBit program of the tests, in the order of their IDs:
\* main, line 13, sum, increment, identity with two instances, and missing.
TestMoonbitFlow ==
    LET AskStop(p) == Ask("continue", <<Stopped(p)>>)
        AskBreak(p) == AskAbout("break", p, <<Verified(p)>>)
    IN  [Drive(AskAbout("break", 1, <<Pending(1)>>)
               \o Ask("run", <<Verified(1), Stopped(1)>>)
               \o AskBreak(2) \o AskBreak(3) \o AskStop(2) \o AskStop(3)
               \o AskBreak(4) \o AskStop(4)
               \o AskBreak(5) \o AskStop(5) \o AskStop(5)
               \o AskAbout("break", 6, <<<<"rejected", 6>>>>)
               \o Ask("run", <<Says("Restarting program.")>>
                             \o [i \in 1 .. 5 |-> Verified(<<2, 1, 3, 4, 5>>[i])]
                             \o <<<<"rejected", 6>>, Stopped(1)>>)
               \o AskStop(2) \o AskStop(3) \o Leave("quit"))
         EXCEPT !.adapter = "lldb-dap", !.route = <<1, 2, 3, 4, 5, 5>>,
                !.printed = {<<Verified(5), 2>>}]

\* distance and is_parallel.
TestStructFlow ==
    LET Look(path) == AskAbout("print", path, <<<<"value", path>>>>)
    IN  [Drive(AskAbout("break", 7, <<Pending(7)>>)
               \o AskAbout("break", 8, <<Pending(8)>>)
               \o Ask("run", <<Stopped(7)>>)
               \o Look(1) \o Look(1) \o Look(2) \o Look(2) \o Look(3) \o Look(4)
               \o Look(5) \o Look(6)
               \o Ask("next", <<Stopped(7)>>) \o Look(2)
               \o Ask("continue", <<Stopped(8)>>)
               \o Look(7) \o Look(8) \o Look(9) \o Look(10) \o Look(10) \o Look(11)
               \o Leave("quit"))
         EXCEPT !.adapter = "lldb-dap", !.route = <<7, 8>>,
                !.printed = {<<<<"value", 1>>, 2>>, <<<<"value", 2>>, 3>>}]

TestAbnormalExit ==
    [Drive(Ask("run", <<Says("output"), Says("Process exited")>>) \o Leave("quit"))
     EXCEPT !.adapter = "lldb-dap"]

TestQuit == [Drive(Leave("quit")) EXCEPT !.adapter = "lldb-dap"]

TestAdapterFailure ==
    [Drive(Ask("run", Failure) \o Leave("quit")) EXCEPT !.adapter = "false"]

Suite ==
    [flow |-> TestFakeAdapterFlow, stepping |-> TestFakeSteppingCommands,
     failure |-> TestFakeAdapterFailure,
     preparation |-> TestFakePreparationFailureRecovery,
     running |-> TestFakeRunningFailureRecovery,
     resuming |-> TestFakeContinueFailureRecovery,
     breaking |-> TestFakeDynamicBreakpointFailureRecovery,
     timeout |-> TestFakePreparationTimeout,
     earlyQuit |-> TestQuitDuringFakeAdapterPreparation,
     interrupt |-> TestReadlineInterrupt, eof |-> TestReadlineEof,
     moonbit |-> TestMoonbitFlow, struct |-> TestStructFlow,
     abnormalExit |-> TestAbnormalExit, quit |-> TestQuit,
     adapterFailure |-> TestAdapterFailure]

RealTests == {"moonbit", "struct", "abnormalExit", "quit", "adapterFailure"}

\* main: --fake-only, --real-only, or both.
Tests ==
    CASE Selected = "fake" -> DOMAIN Suite \ RealTests
      [] Selected = "real" -> RealTests
      [] Selected = "all" -> DOMAIN Suite

The == Suite[test.name]

-----------------------------------------------------------------------------
TestsInit ==
    /\ Init
    /\ test \in {[name |-> name, todo |-> Suite[name].drive, verdict |-> "none"] :
                    name \in Tests}
    /\ typed = <<>>
    /\ screen = <<Prompt>>
    /\ cursor = 1
    /\ repl = [doing |-> "reading", about |-> 0, restarting |-> FALSE]
    /\ listed = {}
    /\ programs = <<>>
    /\ marker = FALSE
    /\ trace = <<>>

-----------------------------------------------------------------------------
(* The adapters.                                                            *)

Program == [at |-> 0, tables |-> {}]

TracedBy(a, records) ==
    [i \in DOMAIN records |-> [by |-> a, kind |-> records[i].kind,
                               command |-> records[i].command]]

\* Where a fake program is after a request.
PlaceAfter(req, at) ==
    CASE req.command = "configurationDone" -> Main
      [] req.command \in Steps -> Stepped
      [] OTHER -> at

FakeServes(a) ==
    LET out == Served(adapters[a], The.env, marker) IN
    /\ The.adapter = "fake" /\ adapters[a].requests # <<>> /\ IsUp(adapters[a])
    /\ adapters' = [adapters EXCEPT ![a] = out.adapter]
    /\ marker' = out.marker
    /\ trace' = trace \o TracedBy(a, out.traced)
    /\ programs' = [programs EXCEPT ![a].at = PlaceAfter(Head(adapters[a].requests), @)]

\* The delay outlasts whatever moondbg does without the adapter, and in the test
\* of the timeout that too.
FakeWakes(a) ==
    /\ The.adapter = "fake" /\ The.env.delayed /\ The.patient
    /\ op.name = "launch"
    /\ prep = Preparing(a) /\ adapters[a].requests = <<>>
    /\ adapters[a].messages = <<>> /\ IsUp(adapters[a])
    /\ adapters' = [adapters EXCEPT ![a] = Delayed(@)]
    /\ UNCHANGED <<programs, marker, trace>>

\* lldb-dap: a program goes to the next place of its route that has a breakpoint.
Ahead(program) ==
    {i \in DOMAIN The.route : i > program.at /\ The.route[i] \in program.tables}

Goal(program) == CHOOSE i \in Ahead(program) : \A j \in Ahead(program) : i <= j

GoesOn(program) ==
    IF Ahead(program) = {}
    THEN [program |-> program,
          events |-> <<Event("output"), Event("exited"), Event("terminated")>>]
    ELSE [program |-> [program EXCEPT !.at = Goal(program)],
          events |-> <<EventOf("stopped", 1)>>]

LldbServes(a) ==
    LET req == Head(adapters[a].requests)
        sends(ms) ==
            adapters' = [adapters EXCEPT ![a] = Answered(@, Respond(req) \o ms)]
        onward == GoesOn(programs[a])
    IN
    /\ The.adapter = "lldb-dap" /\ adapters[a].requests # <<>> /\ IsUp(adapters[a])
    /\ CASE req.command = "launch" ->
              sends(<<Event("initialized")>>) /\ UNCHANGED programs
         [] req.command \in {"configurationDone", "continue"} ->
              /\ sends(onward.events)
              /\ programs' = [programs EXCEPT ![a] = onward.program]
         [] req.command \in Steps ->
              sends(<<EventOf("stopped", 1)>>) /\ UNCHANGED programs
         [] OTHER ->
              /\ sends(<<>>)
              /\ programs' = [programs EXCEPT ![a].tables = @ \cup req.points]
    /\ UNCHANGED <<marker, trace>>

\* `false` does nothing but end.
Exits(a) ==
    /\ IsUp(adapters[a]) /\ The.adapter = "false"
    /\ adapters' = [adapters EXCEPT ![a].exit = 1]
    /\ UNCHANGED <<programs, marker, trace>>

AdaptersAct ==
    /\ \E a \in DOMAIN adapters :
          adapters[a].open /\ (FakeServes(a) \/ FakeWakes(a) \/ LldbServes(a) \/ Exits(a))
    /\ UNCHANGED <<prep, exec, applied, op, view, answer, kept, test, typed, screen,
                   cursor, repl, listed>>

-----------------------------------------------------------------------------
(* The REPL.                                                                *)

\* run_repl reads the next line.
Reads(name) ==
    /\ repl.doing = "reading" /\ typed # <<>> /\ Head(typed)[1] = name
    /\ typed' = Tail(typed)
    /\ UNCHANGED <<test, cursor, programs, marker, trace>>

About == Head(typed)[2]

\* A command that is done at once.
Prints(shown) ==
    /\ screen' = screen \o shown \o <<Prompt>>
    /\ UNCHANGED <<repl, backend>>

\* A command that is waited for.
Executes(doing) ==
    /\ repl' = [doing |-> doing, about |-> About, restarting |-> view.phase = "Stopped"]
    /\ UNCHANGED screen

Configuration(S) == [on |-> S, known |-> S \cap Families]

ReadLocal ==
    /\ \/ Reads("help") /\ Prints(<<Says("Commands:")>>)
       \/ Reads("interrupt") /\ Prints(<<>>)
       \/ Reads("list") /\ view.phase = "Stopped" /\ Prints(<<Says("source")>>)
    /\ UNCHANGED listed

ReadRun ==
    /\ Reads("run") /\ Executes("run")
    /\ Launch(Configuration(listed))
    /\ UNCHANGED listed

\* A breakpoint is listed whatever becomes of its installation.
ReadBreak ==
    /\ Reads("break")
    /\ listed' = listed \cup {About}
    /\ IF view.phase = "Stopped"
       THEN Executes("break") /\ Synchronize(Configuration(listed'))
       ELSE Prints(<<Pending(About)>>)

Resumption ==
    [continue |-> "continue", next |-> "next", step |-> "stepIn", finish |-> "stepOut"]

ReadResume ==
    /\ \E name \in DOMAIN Resumption :
          /\ Reads(name)
          /\ IF view.phase = "Stopped"
             THEN Executes("resume") /\ Resume(Resumption[name])
             ELSE Prints(<<Says("Cannot")>>)
    /\ UNCHANGED listed

ReadPrint ==
    /\ Reads("print")
    /\ IF view.phase = "Stopped"
       THEN Executes("print") /\ Inspect("find")
       ELSE Prints(<<Says("Cannot")>>)
    /\ UNCHANGED listed

ReadQuit ==
    /\ \E name \in {"quit", "eof"} : Reads(name)
    /\ Executes("quit") /\ Quit
    /\ UNCHANGED listed

-----------------------------------------------------------------------------
(* What a command prints when it is done.                                    *)

\* take_output
Output == kept.output \o exec.output

\* append_debuggee_output
DebuggeeOutput ==
    IF Output = <<>> THEN <<>>
    ELSE <<Says("output begins")>> \o [i \in DOMAIN Output |-> Says(Output[i])]
         \o <<Says("output ends")>>

\* breakpoint_snapshots
Outcomes == IF Has THEN exec.outcomes ELSE kept.outcomes

Update(p) ==
    IF p \notin Outcomes THEN Pending(p)
    ELSE IF p \in Missing THEN <<"rejected", p>> ELSE Verified(p)

\* append_breakpoint_updates: the sources, then the functions.
Updates ==
    LET ids == InOrder(listed \ Families) \o InOrder(listed \cap Families)
    IN  [i \in DOMAIN ids |-> Update(ids[i])]

StopShown ==
    LET at == programs[exec.adapter].at
    IN  Stopped(IF The.adapter = "fake" THEN at ELSE The.route[at])

\* append_execution_outcome
OutcomeShown ==
    IF answer = "stopped" THEN <<StopShown>> ELSE <<Says("Process exited")>>

FailureShown ==
    <<Says(IF answer = "timed out" THEN "timed out" ELSE "adapter failed")>>

Shown ==
    (IF repl.doing = "run" /\ repl.restarting THEN <<Says("Restarting program.")>>
     ELSE <<>>)
    \o DebuggeeOutput
    \o CASE answer \in {"failed", "timed out", "refused"} -> FailureShown
         [] answer \in {"stopped", "exited"} ->
               (IF repl.doing = "run" THEN Updates ELSE <<>>) \o OutcomeShown
         [] repl.doing = "break" -> <<Update(repl.about)>>
         [] repl.doing = "print" -> <<<<"value", repl.about>>>>

IsExecuting == repl.doing \notin {"reading", "closed"}

\* execute_session_action, apply_command_result
Shows ==
    /\ IsExecuting /\ AtPrompt /\ repl.doing # "quit"
    /\ screen' = screen \o Shown \o <<Prompt>>
    /\ repl' = [repl EXCEPT !.doing = "reading"]
    /\ exec' = [exec EXCEPT !.output = <<>>]
    /\ kept' = [kept EXCEPT !.output = <<>>]
    /\ UNCHANGED <<adapters, prep, applied, op, view, answer, test, typed, cursor,
                   listed, programs, marker, trace>>

\* After the loop of run_repl.
Leaves ==
    /\ repl.doing = "quit" /\ AtPrompt
    /\ screen' = Append(screen, Says("Debugger exited."))
    /\ repl' = [repl EXCEPT !.doing = "closed"]
    /\ UNCHANGED <<backend, test, typed, cursor, listed, programs, marker, trace>>

\* The program of an adapter begins with it.
BackendActs ==
    /\ IsExecuting \/ prep.status \in {"spawned", "initializing"}
    /\ Proceed \/ (~The.patient /\ GiveUpPreparation)
    /\ IF Len(adapters') > Len(adapters)
       THEN /\ programs' = Append(programs, Program)
            /\ trace' = IF The.adapter = "fake"
                        THEN trace \o TracedBy(Len(adapters'), <<Record("start", "none")>>)
                        ELSE trace
       ELSE UNCHANGED <<programs, trace>>
    /\ UNCHANGED <<test, typed, screen, cursor, repl, listed, marker>>

ReplActs ==
    \/ ReadLocal \/ ReadRun \/ ReadBreak \/ ReadResume \/ ReadPrint \/ ReadQuit
    \/ Shows \/ Leaves

-----------------------------------------------------------------------------
(* The tester.                                                              *)

NextStep == Head(test.todo)
IsAt(does) == test.verdict = "none" /\ test.todo # <<>> /\ NextStep.does = does
Passes == test' = [test EXCEPT !.todo = Tail(@)]
Judges(holds) ==
    IF holds THEN Passes ELSE test' = [test EXCEPT !.verdict = "failed"]

\* send
Types ==
    /\ IsAt("send") /\ Passes
    /\ typed' = Append(typed, NextStep.what)
    /\ UNCHANGED cursor

\* expect: the first place where it is printed after what was found before.
Unseen == {i \in DOMAIN screen : i > cursor /\ screen[i] = NextStep.what}

\* Mutant: what comes after the text counts as looked through.
FindsPast ==
    /\ IsAt("expect") /\ Passes
    /\ \E i \in Unseen : cursor' = i + 1 /\ \A j \in Unseen : i <= j
    /\ UNCHANGED typed

Finds ==
    /\ IsAt("expect") /\ Passes
    /\ \E i \in Unseen : cursor' = i /\ \A j \in Unseen : i <= j
    /\ UNCHANGED typed

\* traced_commands, and those of one adapter.
Commands(by) ==
    LET requests == SelectSeq(trace, LAMBDA r : r.kind = "request" /\ r.by \in by)
    IN  [i \in DOMAIN requests |-> requests[i].command]

AllCommands == Commands(DOMAIN adapters)
CommandsOf(a) == Commands({a})
Count(seq, x) == Cardinality({i \in DOMAIN seq : seq[i] = x})

\* wait_for_trace
SeesTrace ==
    /\ IsAt("trace") /\ Count(AllCommands, "initialize") >= 2
    /\ Judges(Count(AllCommands, "launch") = NextStep.what[2])
    /\ UNCHANGED <<typed, cursor>>

\* What a test checks when moondbg is gone.
Started == {a \in DOMAIN adapters : CommandsOf(a) # <<>>}

Holds ==
    /\ Cardinality(Started) \in The.adapters
    /\ \A c \in DOMAIN The.traced : Count(AllCommands, c) = The.traced[c]
    /\ \A i \in DOMAIN AllCommands : AllCommands[i] \in The.only
    /\ \A a \in DOMAIN The.exchanges : CommandsOf(a) = The.exchanges[a]
    /\ \A count \in The.printed : Count(screen, count[1]) = count[2]

\* assert_no_process_group
NobodyLeft == \A a \in DOMAIN adapters : ~adapters[a].open

\* run_session: moondbg ends, and leaves nobody behind.
Finishes ==
    /\ test.verdict = "none" /\ test.todo = <<>> /\ repl.doing = "closed"
    /\ test' = [test EXCEPT !.verdict = IF Holds /\ NobodyLeft THEN "passed" ELSE "failed"]
    /\ UNCHANGED <<typed, cursor>>

TesterActs ==
    /\ Types \/ Finds \/ SeesTrace \/ Finishes
    /\ UNCHANGED <<backend, screen, repl, listed, programs, marker, trace>>

-----------------------------------------------------------------------------
Next == AdaptersAct \/ BackendActs \/ ReplActs \/ TesterActs

\* Each process goes on when it can.
Spec ==
    /\ TestsInit /\ [][Next]_vars
    /\ WF_vars(AdaptersAct) /\ WF_vars(BackendActs)
    /\ WF_vars(ReplActs) /\ WF_vars(TesterActs)

-----------------------------------------------------------------------------
(* Properties.                                                              *)

TypeOK ==
    /\ test.name \in DOMAIN Suite /\ test.verdict \in {"none", "passed", "failed"}
    /\ cursor \in 1 .. Len(screen)
    /\ DOMAIN programs = DOMAIN adapters
    /\ repl.doing \in {"reading", "run", "break", "resume", "print", "quit", "closed"}
    /\ listed \subseteq Points

\* No check of a test fails, however the processes are scheduled.
NoTestFails == test.verdict # "failed"

\* Every test comes to its end: none waits in vain for something to be printed
\* or traced, or for moondbg to exit.
TestsEnd == <>(test.verdict # "none")

\* What an adapter hears is the life of one execution: it is initialized, it
\* launches once and is configured once, and only then it is told to go on; a
\* program is never launched in an adapter that had one (docs/discussion, T-03).
OneLifePerAdapter ==
    \A a \in DOMAIN adapters :
        LET heard == CommandsOf(a)
            after(x, y) == \A i, j \in DOMAIN heard :
                              heard[i] = x /\ heard[j] = y => j < i
        IN  /\ heard # <<>> => heard[1] = "initialize"
            /\ \A x \in {"initialize", "launch", "configurationDone"} :
                  Count(heard, x) <= 1
            /\ \A x \in Resumptions : after(x, "configurationDone")
=============================================================================
