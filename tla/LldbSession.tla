----------------------------- MODULE LldbSession -----------------------------
(***************************************************************************)
(* The lldb-dap backend of the REPL (src/lldb_dap): the background           *)
(* preparation of an adapter, the execution that owns one, its protocol      *)
(* state, and the requests behind each operation of DebugSession.            *)
(*                                                                         *)
(* An operation is a list of steps: requests, which are sent and answered,   *)
(* and the waits and decisions between them.  The REPL awaits each operation, *)
(* so one is in progress at a time; the preparation runs beside it, and the   *)
(* adapters beside both.  What the adapters do is left to the modules that    *)
(* compose this one with them.                                               *)
(***************************************************************************)
EXTENDS DapMessages, FiniteSets

CONSTANTS
    Catalog,      \* the breakpoints, by ID: their kind, and the path of a source
    Conditional   \* those that have a condition

Points == DOMAIN Catalog
OfKind(kind) == {p \in Points : Catalog[p].kind = kind}
Families == OfKind("family")

ASSUME BackendAssumption ==
    /\ Catalog \in Seq([kind : {"source", "exact", "family"}, path : STRING])
    /\ Conditional \subseteq Points

VARIABLES
    adapters,  \* the adapter processes, in the order they were started
    prep,      \* LldbDapSession.preparation
    exec,      \* LldbDapSession.execution
    applied,   \* source_breakpoints and function_breakpoints: enabled points
    op,        \* the operation in progress
    view,      \* what DebugSession knows: its phase and the windows it loaded
    answer,    \* how the last operation ended
    kept       \* pending_output and the snapshots of the last execution

backend == <<adapters, prep, exec, applied, op, view, answer, kept>>

-----------------------------------------------------------------------------
(* Data.                                                                    *)

\* A configuration: the enabled points, and the families there are, which keep
\* their LLDB breakpoint while they are disabled.
Configurations == [on : SUBSET Points, known : SUBSET Families]

\* spawned: the task has not run yet; ready and failed: it has ended.
Spawned == [status |-> "spawned", adapter |-> 0]
Preparing(a) == [status |-> "initializing", adapter |-> a]
NoPreparation == [status |-> "none", adapter |-> 0]

\* windows: the stack windows cached for this stop; frames: the number of those whose frame IDs
\* are known; whole: the cached stack is complete; read: what the variable cache
\* has; handles, active: families installed and those of them enabled.
Fresh(a) ==
    [adapter |-> a, state |-> "Ready", next |-> 2, inbox |-> {},
     thread |-> NoThread, windows |-> {}, frames |-> 0, whole |-> FALSE,
     read |-> {}, handles |-> {}, active |-> {}, outcomes |-> {},
     output |-> <<>>]

NoExecution == Fresh(0)
Has == exec.adapter # 0

\* waits: the number of the request whose response is awaited; launch, launched:
\* the launch request and whether its response came; page: the stack window;
\* filter: stops are tested against conditions; settling: the backend
\* call returned and the stack is loaded; failing: it is being discarded; stale: a
\* stop event emptied the variable cache since the step was sent.
Doing(name, todo) ==
    [name |-> name, todo |-> todo, waits |-> NoRequest, launch |-> NoRequest,
     launched |-> FALSE, want |-> [on |-> {}, known |-> {}], page |-> 0,
     filter |-> FALSE, settling |-> FALSE, failing |-> FALSE,
     stale |-> FALSE]

Idle == Doing("idle", <<>>)
AtPrompt == op = Idle

Viewing(phase) == [phase |-> phase, windows |-> 0, whole |-> FALSE]

Step(command) == [command |-> command, on |-> "none", points |-> {}]
StepOn(command, on, points) == [command |-> command, on |-> on, points |-> points]

Resumptions == {"continue", "next", "stepIn", "stepOut"}
Ends == {"exited", "terminated"}
Outputs == {"output", "late-output"}

Init ==
    /\ adapters = <<>>
    /\ prep = Spawned
    /\ exec = NoExecution
    /\ applied = {}
    /\ op = Idle
    /\ view = Viewing("Ready")
    /\ answer = "none"
    /\ kept = [output |-> <<>>, outcomes |-> {}]

-----------------------------------------------------------------------------
(* The steps of configuring breakpoints, in the order of their IDs.          *)

InOrder(S) ==
    CHOOSE s \in [1 .. Cardinality(S) -> S] :
        \A i, j \in DOMAIN s : i < j => s[i] < s[j]

\* The elements of s at these positions.
Picked(s, positions) ==
    LET chosen == InOrder(positions) IN [i \in DOMAIN chosen |-> s[chosen[i]]]

\* breakpoints_for_source
InPath(S, path) == {p \in S \cap OfKind("source") : Catalog[p].path = path}

\* The source files of breakpoints, each where it first appears.
PathsOf(points) ==
    LET paths == [i \in DOMAIN points |-> Catalog[points[i]].path]
    IN  Picked(paths, {i \in DOMAIN paths : \A j \in 1 .. i - 1 : paths[j] # paths[i]})

Sources(S) == InOrder(S \cap OfKind("source"))
Exacts(S) == S \cap OfKind("exact")

\* configure_source_breakpoints: one replacement per source file.
SourceSteps(S, paths) ==
    [i \in DOMAIN paths |-> StepOn("setBreakpoints", paths[i], InPath(S, paths[i]))]

\* configure_exact_function_breakpoints
ExactStep(S) == <<StepOn("setFunctionBreakpoints", "none", Exacts(S))>>

\* A command about each of these families.
FamilySteps(families, command) ==
    LET ids == InOrder(families)
    IN  [i \in DOMAIN ids |-> StepOn("evaluate", command[ids[i]], {ids[i]})]

Installations(families) == FamilySteps(families, [p \in families |-> "set"])

\* configure_breakpoints, configure_function_breakpoints
ConfigurationSteps(S) ==
    SourceSteps(S, PathsOf(Sources(S)))
    \o (IF Exacts(S) = {} THEN <<>> ELSE ExactStep(S))
    \o Installations(S \cap Families)

\* Mutant: a path of which no breakpoint is left is not replaced.
ChangedWhereWanted(S, T) ==
    LET paths == PathsOf(Sources(T))
    IN  Picked(paths, {i \in DOMAIN paths : InPath(S, paths[i]) # InPath(T, paths[i])})

\* The source files whose breakpoints are not the same in both.
Changed(S, T) ==
    LET paths == PathsOf(Sources(S) \o Sources(T))
    IN  Picked(paths, {i \in DOMAIN paths : InPath(S, paths[i]) # InPath(T, paths[i])})

\* synchronize_families: what becomes of an installed family.
FamilyChange(want, p) ==
    IF p \notin want.known THEN "delete"
    ELSE IF p \in want.on /\ p \notin exec.active THEN "enable"
    ELSE IF p \notin want.on /\ p \in exec.active THEN "disable"
    ELSE "keep"

\* LldbDapSession.synchronize_breakpoints
SynchronizationSteps(want) ==
    SourceSteps(want.on, Changed(applied, want.on))
    \o (IF Exacts(applied) = Exacts(want.on) THEN <<>> ELSE ExactStep(want.on))
    \o FamilySteps({p \in exec.handles : FamilyChange(want, p) # "keep"},
                   [p \in exec.handles |-> FamilyChange(want, p)])
    \o Installations((want.on \cap Families) \ exec.handles)

-----------------------------------------------------------------------------
(* The preparation task (LldbDapSession.start, DebugExecution.prepare).      *)

PrepareStart ==
    /\ prep = Spawned
    /\ adapters' =
          Append(adapters,
                 Written(Process, Request(1, "initialize", "none", {}, NoThread)))
    /\ prep' = Preparing(Len(adapters) + 1)
    /\ UNCHANGED <<exec, applied, op, view, answer, kept>>

\* There is no such adapter.
SpawnFails ==
    /\ prep = Spawned
    /\ prep' = [prep EXCEPT !.status = "failed"]
    /\ UNCHANGED <<adapters, exec, applied, op, view, answer, kept>>

\* The response, an event, or the end of the stream; on an error the execution
\* is closed.
PrepareRead ==
    LET a == adapters[prep.adapter] IN
    /\ prep.status = "initializing"
    /\ a.messages # <<>> \/ AtEnd(a)
    /\ IF a.messages # <<>> /\ Head(a.messages).name \in Outputs
       THEN /\ adapters' = [adapters EXCEPT ![prep.adapter] = Read(a)]
            /\ UNCHANGED prep
       ELSE IF a.messages # <<>> /\ Matches(Head(a.messages), 1)
               /\ Head(a.messages).ok
       THEN /\ adapters' = [adapters EXCEPT ![prep.adapter] = Read(a)]
            /\ prep' = [prep EXCEPT !.status = "ready"]
       ELSE /\ adapters' = [adapters EXCEPT ![prep.adapter] = Closed(a)]
            /\ prep' = [prep EXCEPT !.status = "failed"]
    /\ UNCHANGED <<exec, applied, op, view, answer, kept>>

-----------------------------------------------------------------------------
(* Events (DapSessionMachine.accept_event, DebugExecution.accept_event).     *)

\* machine.fail, machine.finish
Failed(x) == [x EXCEPT !.state = "Failed", !.thread = NoThread]
Finished(x) ==
    [x EXCEPT !.state = IF @ = "Failed" THEN @ ELSE "Exited", !.thread = NoThread]

Accepts(x, m) ==
    CASE m.name = "initialized" -> x.state \in {"Preparing", "Configuring"}
      [] m.name = "stopped" ->
            x.state \in {"Preparing", "Configuring", "Running", "Stopped"}
      [] OTHER -> TRUE

\* Mutant: the stack is kept.
BlankVariables(x) == [x EXCEPT !.read = {}]

\* The stop's stack and variables are forgotten.
Blank(x) == [x EXCEPT !.windows = {}, !.whole = FALSE, !.read = {}]

\* Mutant: the frame IDs of the last stop are kept.
AcceptedWithOldFrames(x, m) ==
    CASE m.name \in Outputs -> [x EXCEPT !.output = Append(@, m.name)]
      [] m.name = "initialized" -> [x EXCEPT !.state = "Configuring"]
      [] m.name = "stopped" ->
            [Blank(x) EXCEPT !.state = "Stopped", !.thread = m.thread]
      [] m.name \in Ends -> [Blank(x) EXCEPT !.state = "Exited", !.thread = NoThread]
      [] OTHER -> x

\* A second stop event opens no new stop: the frame IDs stay.
Accepted(x, m) ==
    CASE m.name \in Outputs -> [x EXCEPT !.output = Append(@, m.name)]
      [] m.name = "initialized" -> [x EXCEPT !.state = "Configuring"]
      [] m.name = "stopped" /\ x.state = "Stopped" -> Blank(x)
      [] m.name = "stopped" /\ x.state # "Stopped" ->
            [Blank(x) EXCEPT !.state = "Stopped", !.thread = m.thread, !.frames = 0]
      [] m.name \in Ends /\ x.state \in {"Exited", "Failed"} -> Blank(x)
      [] m.name \in Ends /\ x.state \notin {"Exited", "Failed"} ->
            [Blank(x) EXCEPT !.state = "Exited", !.thread = NoThread]
      [] OTHER -> x

-----------------------------------------------------------------------------
(* Going from step to step.                                                  *)

At(command) == op.todo # <<>> /\ Head(op.todo).command = command
Current == Head(op.todo)

Advanced == [op EXCEPT !.todo = Tail(@), !.waits = NoRequest]
Follow(todo) == [op EXCEPT !.todo = todo, !.waits = NoRequest]

\* recover_failed_execution; a failed disconnect of a stopped execution that is
\* restarted is not tried again, and closing follows whatever disconnect did.
Recovery ==
    IF op.name = "quit" THEN <<Step("close")>>
    ELSE IF At("disconnect") THEN <<Step("discard")>>
    ELSE <<Step("disconnect"), Step("discard")>>

\* The error of a step.  A condition that cannot be tested only stops the
\* program there.
Recovering ==
    IF At("condition") THEN Advanced
    ELSE [Follow(Recovery) EXCEPT !.failing = TRUE]

\* errdefer in run_transaction and resume_transaction
InTransaction ==
    /\ op.name \in {"launch", "resume"}
    /\ ~op.settling /\ ~op.failing /\ ~At("condition")

\* A step fails with its execution x; lost: while it waited for a response.
Fails(x, lost) ==
    /\ exec' = IF lost \/ InTransaction THEN Failed(x) ELSE x
    /\ op' = Recovering

-----------------------------------------------------------------------------
(* Sending.                                                                  *)

\* The requests an operation awaits as soon as they are sent.
Awaited == Resumptions \cup
    {"setBreakpoints", "setFunctionBreakpoints", "evaluate", "configurationDone",
     "threads", "stackTrace", "scopes", "variables", "condition", "disconnect"}

\* What the machine must be in, and what a request makes of it first.
MaySend(command) ==
    CASE command = "launch" -> exec.state = "Ready"
      [] command = "configurationDone" -> exec.state \in {"Preparing", "Configuring"}
      [] command \in Resumptions -> exec.state = "Stopped"
      [] OTHER -> TRUE

Sending(command) ==
    CASE command = "launch" -> [exec EXCEPT !.state = "Preparing"]
      [] command = "configurationDone" ->
            [exec EXCEPT !.state = "Running", !.thread = NoThread]
      [] command \in Resumptions ->
            [Blank(exec) EXCEPT !.state = "Running", !.thread = NoThread]
      [] OTHER -> exec

\* disconnect sends nothing when there is no program to end.
NothingToEnd == At("disconnect") /\ exec.state \in {"Exited", "Ready"}

\* dispatcher.send_request
Send ==
    LET a == adapters[exec.adapter] IN
    /\ op.todo # <<>> /\ op.waits = NoRequest
    /\ Current.command \in Awaited \cup {"launch"} /\ ~NothingToEnd
    /\ IF MaySend(Current.command) /\ Writable(a)
       THEN /\ adapters' =
                  [adapters EXCEPT ![exec.adapter] =
                      Written(a, Request(exec.next, Current.command, Current.on,
                                         Current.points, exec.thread))]
            /\ exec' = [Sending(Current.command) EXCEPT !.next = @ + 1]
            /\ op' = IF At("launch")
                     THEN [Advanced EXCEPT !.launch = exec.next]
                     ELSE [op EXCEPT !.waits = exec.next, !.stale = FALSE]
       ELSE /\ Fails(IF MaySend(Current.command)
                     THEN Sending(Current.command) ELSE exec, FALSE)
            /\ UNCHANGED adapters
    /\ UNCHANGED <<prep, applied, view, answer, kept>>

SkipDisconnect ==
    /\ NothingToEnd /\ op.waits = NoRequest
    /\ exec' = Finished(exec)
    /\ op' = Advanced
    /\ UNCHANGED <<adapters, prep, applied, view, answer, kept>>

-----------------------------------------------------------------------------
(* Waiting.                                                                  *)

Waiting ==
    \/ op.waits # NoRequest
    \/ At("initialized") /\ exec.state = "Preparing"
    \/ At("launched") /\ ~op.launched
    \/ At("stable") /\ exec.state = "Running"

\* The request whose response ends the wait.
Awaits ==
    IF At("stable") THEN NoRequest
    ELSE IF At("initialized") \/ At("launched") THEN op.launch
    ELSE op.waits

\* The program is where the operation began, so that what it reads is current.
StillThere == exec.state = "Stopped" /\ ~op.stale

Changes == {"setBreakpoints", "setFunctionBreakpoints", "evaluate"}

\* What a confirmed breakpoint request makes of the execution.
Configured(x, s) ==
    CASE s.command = "evaluate" /\ s.on = "set" ->
            [x EXCEPT !.handles = @ \cup s.points, !.active = @ \cup s.points]
      [] s.command = "evaluate" /\ s.on = "enable" ->
            [x EXCEPT !.active = @ \cup s.points]
      [] s.command = "evaluate" /\ s.on = "disable" ->
            [x EXCEPT !.active = @ \ s.points]
      [] s.command = "evaluate" /\ s.on = "delete" ->
            [x EXCEPT !.handles = @ \ s.points, !.active = @ \ s.points,
                      !.outcomes = @ \ s.points]
      [] OTHER -> [x EXCEPT !.outcomes = @ \cup s.points]

\* Mutant: a window is cached whether or not those before it are.
FitsAnyStack(x) == x.state = "Stopped"

\* load_stack_window: the frames are new, and follow those that are cached.
FitsStack(x) ==
    x.state = "Stopped" /\ x.frames <= op.page /\ x.windows = 0 .. op.page - 1

\* refresh_family_details: a family created or enabled is looked up, which may
\* fail without harm.
LooksUp(s) == s.command = "evaluate" /\ s.on = "list"

Looked ==
    IF Current.command = "evaluate" /\ Current.on \in {"set", "enable"}
    THEN Follow(<<[Current EXCEPT !.on = "list"]>> \o Tail(op.todo))
    ELSE Advanced

\* The response r to the current step, with the execution x.
Match(x, r) ==
    CASE At("disconnect") ->
            exec' = Finished(x) /\ op' = Advanced
      [] At("initialized") /\ r.ok ->
            exec' = x /\ op' = [op EXCEPT !.launched = TRUE]
      [] At("threads") /\ r.ok /\ x.state = "Stopped" ->
            exec' = [x EXCEPT !.thread = 1] /\ op' = Advanced
      [] At("stackTrace") /\ r.ok /\ FitsStack(x) ->
            /\ exec' = [x EXCEPT !.windows = @ \cup {op.page}, !.frames = op.page + 1,
                                 !.whole = ~r.full]
            /\ op' = Advanced
      [] Current.command \in {"scopes", "variables"} /\ StillThere /\ r.ok ->
            /\ exec' = [x EXCEPT !.read = @ \cup {Current.command}]
            /\ op' = Advanced
      [] Current.command \in {"scopes", "variables"} /\ StillThere /\ ~r.ok
         /\ op.name = "find" ->
            exec' = x /\ op' = Follow(<<Step("unreadable")>>)
      [] At("condition") ->
            /\ exec' = x
            /\ op' \in {Advanced}
                       \cup IF r.ok /\ StillThere
                            THEN {Follow(<<Step("continue"), Step("stable"),
                                           Step("outcome")>>)}
                            ELSE {}
      [] Current.command \in Changes /\ (r.ok \/ LooksUp(Current)) ->
            exec' = Configured(x, Current) /\ op' = Looked
      [] Current.command \in Resumptions \cup {"configurationDone", "launched"}
         /\ r.ok ->
            exec' = x /\ op' = Advanced
      [] OTHER -> Fails(x, FALSE)

\* next_for_request looks into the inbox first.
TakeBuffered ==
    /\ Waiting /\ Awaits # NoRequest /\ Buffered(exec.inbox, Awaits)
    /\ LET r == Taken(exec.inbox, Awaits)
       IN  Match([exec EXCEPT !.inbox = Without(@, r)], r)
    /\ UNCHANGED <<adapters, prep, applied, view, answer, kept>>

\* The event e is the current operation's as well as the execution's.
Observe(e) ==
    IF ~Accepts(exec, e) THEN Fails(exec, At("stable") = FALSE)
    ELSE IF At("disconnect") /\ e.name \in Ends
    THEN exec' = Finished(Accepted(exec, e)) /\ op' = Advanced
    ELSE /\ exec' = Accepted(exec, e)
         /\ op' = [op EXCEPT !.stale = @ \/ e.name = "stopped"]

Receive ==
    LET a == adapters[exec.adapter]
        m == Head(a.messages)
    IN
    /\ Waiting /\ ~Buffered(exec.inbox, Awaits) /\ a.messages # <<>>
    /\ adapters' = [adapters EXCEPT ![exec.adapter] = Read(a)]
    /\ IF IsEvent(m) THEN Observe(m)
       ELSE IF Matches(m, Awaits) THEN Match(exec, m)
       ELSE IF IsDuplicate(exec.inbox, m) THEN Fails(exec, TRUE)
       ELSE exec' = [exec EXCEPT !.inbox = @ \cup {m}] /\ UNCHANGED op
    /\ UNCHANGED <<prep, applied, view, answer, kept>>

\* AdapterClosed
ReadEnd ==
    /\ Waiting /\ ~Buffered(exec.inbox, Awaits) /\ AtEnd(adapters[exec.adapter])
    /\ IF At("disconnect")
       THEN exec' = Finished(exec) /\ op' = Advanced
       ELSE Fails(exec, TRUE)
    /\ UNCHANGED <<adapters, prep, applied, view, answer, kept>>

\* The 1000 ms for disconnecting from an execution that is given up, and the
\* 12 s for a condition: the request is cancelled.
TimesOut ==
    /\ op.waits # NoRequest
    /\ \/ At("condition")
       \/ At("disconnect") /\ (op.failing \/ op.name = "quit")
    /\ exec' = Failed(exec)
    /\ op' = Advanced
    /\ UNCHANGED <<adapters, prep, applied, view, answer, kept>>

-----------------------------------------------------------------------------
(* Steps without a message.                                                  *)

\* Mutant: a program that ended while it was launched is waited for.
WaitEndsConfigured ==
    /\ \/ At("launched") /\ op.launched
       \/ At("stable") /\ exec.state # "Running"
       \/ At("initialized") /\ exec.state = "Configuring"
    /\ op' = Advanced
    /\ UNCHANGED <<adapters, prep, exec, applied, view, answer, kept>>

\* The waits that are over: wait_for_initialized, wait_until_stable, a launch
\* response that came early.  A program that ended while it was launched is
\* never configured.
WaitEnds ==
    /\ \/ At("launched") /\ op.launched
       \/ At("stable") /\ exec.state # "Running"
       \/ At("initialized") /\ exec.state # "Preparing"
    /\ op' = IF At("initialized") /\ exec.state = "Exited"
             THEN Follow(<<Step("outcome")>>) ELSE Advanced
    /\ UNCHANGED <<adapters, prep, exec, applied, view, answer, kept>>

\* A stop that may have a condition tests it once the stack is known.
MayTest == op.filter /\ applied \cap Conditional # {}

\* complete_execution
Outcome ==
    /\ At("outcome")
    /\ CASE exec.state = "Exited" ->
              op' = Follow(<<Step("complete")>>) /\ UNCHANGED exec
         [] exec.state = "Stopped" ->
              /\ \E tested \in {FALSE, MayTest} :
                    op' = Follow(
                        (IF exec.thread = NoThread THEN <<Step("threads")>> ELSE <<>>)
                        \o <<Step("window")>>
                        \o (IF tested THEN <<Step("condition")>> ELSE <<>>))
              /\ UNCHANGED exec
         [] OTHER -> Fails(exec, FALSE)
    /\ UNCHANGED <<adapters, prep, applied, view, answer, kept>>

\* load_stack_window: from the cache, if it can be; windows are asked for in
\* order.
LoadWindow ==
    /\ At("window")
    /\ IF exec.state # "Stopped" \/ exec.thread = NoThread
          \/ ~(0 .. op.page - 1 \subseteq exec.windows)
       THEN Fails(exec, FALSE)
       ELSE /\ op' = IF op.page \in exec.windows \/ exec.whole
                     THEN Advanced
                     ELSE Follow(<<Step("stackTrace")>> \o Tail(op.todo))
            /\ UNCHANGED exec
    /\ UNCHANGED <<adapters, prep, applied, view, answer, kept>>

\* archive_execution
Archived ==
    [output |-> kept.output \o exec.output, outcomes |-> exec.outcomes]

\* Mutant: the adapter of an execution that is let go stays open.
LetGoOpen ==
    /\ UNCHANGED adapters
    /\ exec' = NoExecution
    /\ prep' = Spawned

\* Mutant: the adapter of a program that is gone serves the next one.
LetGoReused ==
    /\ UNCHANGED adapters
    /\ exec' = NoExecution
    /\ prep' = [status |-> "ready", adapter |-> exec.adapter]

\* The adapter is closed and another one is prepared.
LetGo ==
    /\ adapters' = [adapters EXCEPT ![exec.adapter] = Closed(@)]
    /\ exec' = NoExecution
    /\ prep' = Spawned

\* restart_stopped_execution, once it is disconnected.
Release ==
    /\ At("release")
    /\ LetGo
    /\ op' = Follow(<<Step("prepare")>>)
    /\ UNCHANGED <<applied, view, answer, kept>>

\* An operation ends: what it is answered with, and what DebugSession is then.
Answers(is, v) == op' = Idle /\ answer' = is /\ view' = v

\* complete_finished_execution
Complete ==
    /\ At("complete")
    /\ LetGo /\ kept' = Archived
    /\ Answers("exited", Viewing("Ready"))
    /\ UNCHANGED applied

\* recover_failed_execution
Discard ==
    /\ At("discard")
    /\ LetGo /\ kept' = Archived
    /\ Answers("failed", Viewing("Ready"))
    /\ UNCHANGED applied

-----------------------------------------------------------------------------
(* Operations.                                                               *)

Begins(doing, phase) ==
    /\ op' = doing
    /\ answer' = "none"
    /\ view' = IF phase = view.phase THEN view ELSE Viewing(phase)

LaunchSteps ==
    <<Step("launch"), Step("initialized")>> \o ConfigurationSteps(applied)
    \o <<Step("configurationDone"), Step("launched"), Step("stable"),
         Step("outcome")>>

\* launch, run: the enabled breakpoints, and first the end of a stopped program.
Launch(want) ==
    /\ AtPrompt /\ view.phase \in {"Ready", "Stopped"}
    /\ applied' = want.on
    /\ Begins([Doing("launch",
                     IF Has /\ exec.state = "Stopped"
                     THEN <<Step("disconnect"), Step("release")>>
                     ELSE <<Step("prepare")>>)
              EXCEPT !.filter = TRUE],
              "Running")
    /\ UNCHANGED <<adapters, prep, exec, kept>>

\* prepared_execution, and the guard of DebugExecution.run: an execution that is
\* still there is not ready.
TakePreparation ==
    /\ At("prepare")
    /\ IF Has
       THEN Answers("refused", Viewing("Ready")) /\ UNCHANGED <<prep, exec>>
       ELSE \/ /\ prep.status = "ready"
               /\ exec' = Fresh(prep.adapter)
               /\ prep' = NoPreparation
               /\ op' = Follow(LaunchSteps)
               /\ UNCHANGED <<view, answer>>
            \/ /\ prep.status = "failed"
               /\ prep' = Spawned
               /\ Answers("failed", Viewing("Ready"))
               /\ UNCHANGED exec
    /\ UNCHANGED <<adapters, applied, kept>>

\* The preparation takes too long: it is cancelled, and closes its adapter; one
\* that ends at that very moment is dropped as it is.
GiveUpPreparation ==
    /\ At("prepare") /\ ~Has /\ prep.status \in {"spawned", "initializing", "ready"}
    /\ adapters' = IF prep.status = "initializing"
                   THEN [adapters EXCEPT ![prep.adapter] = Closed(@)]
                   ELSE adapters
    /\ prep' = Spawned
    /\ Answers("timed out", Viewing("Ready"))
    /\ UNCHANGED <<exec, applied, kept>>

\* The guards of the operations on a stopped execution.
InStop == Has /\ exec.state = "Stopped" /\ exec.thread # NoThread

\* An operation that is not allowed leaves the execution as it is; DebugSession
\* takes it for a failure of the backend.
Refuse ==
    /\ answer' = "refused"
    /\ view' = Viewing("Ready")
    /\ UNCHANGED <<adapters, prep, exec, applied, op, kept>>

InvokeInStop(doing, phase) ==
    IF InStop
    THEN Begins(doing, phase) /\ UNCHANGED <<adapters, prep, exec, applied, kept>>
    ELSE Refuse

\* continue_execution, next, step, finish
Resume(command) ==
    /\ AtPrompt /\ view.phase = "Stopped"
    /\ InvokeInStop(
          [Doing("resume", <<Step(command), Step("stable"), Step("outcome")>>)
           EXCEPT !.filter = (command = "continue")],
          "Running")

\* find_variable, local_variables: what is not in the cache.
Inspect(name) ==
    /\ AtPrompt /\ view.phase = "Stopped"
    /\ InvokeInStop(
          Doing(name,
                (IF "scopes" \in exec.read THEN <<>> ELSE <<Step("scopes")>>)
                \o (IF "variables" \in exec.read THEN <<>>
                    ELSE <<Step("variables")>>)),
          "Stopped")

\* stack_snapshot, for the window after those DebugSession has; unlike the other
\* operations it discards the execution whatever the error is.
Extend ==
    /\ AtPrompt /\ view.phase = "Stopped" /\ ~view.whole /\ Has
    /\ Begins([Doing("stack", <<Step("window")>>) EXCEPT !.page = view.windows],
              "Stopped")
    /\ UNCHANGED <<adapters, prep, exec, applied, kept>>

\* synchronize_breakpoints
Synchronize(want) ==
    /\ AtPrompt /\ view.phase = "Stopped"
    /\ IF Has /\ exec.state = "Stopped"
       THEN Begins([Doing("sync", SynchronizationSteps(want)) EXCEPT !.want = want],
                   "Stopped")
       ELSE answer' = "rejected" /\ UNCHANGED <<op, view>>
    /\ UNCHANGED <<adapters, prep, exec, applied, kept>>

\* disconnect, then close
Quit ==
    /\ AtPrompt /\ view.phase \in {"Ready", "Stopped"}
    /\ Begins(Doing("quit", IF Has THEN <<Step("disconnect"), Step("close")>>
                            ELSE <<Step("close")>>),
              "Exited")
    /\ UNCHANGED <<adapters, prep, exec, applied, kept>>

\* Mutant: the adapter that is prepared, or was dropped, stays open.
CloseExecution ==
    /\ At("close")
    /\ adapters' = IF Has THEN [adapters EXCEPT ![exec.adapter] = Closed(@)] ELSE adapters
    /\ exec' = NoExecution
    /\ prep' = NoPreparation
    /\ Answers("closed", view)
    /\ UNCHANGED <<applied, kept>>

\* Everything is closed, also what was dropped: the task group ends.
Close ==
    /\ At("close")
    /\ adapters' = [a \in DOMAIN adapters |-> Closed(adapters[a])]
    /\ exec' = NoExecution
    /\ prep' = NoPreparation
    /\ Answers("closed", view)
    /\ UNCHANGED <<applied, kept>>

Unreadable ==
    /\ At("unreadable")
    /\ Answers("unreadable", view)
    /\ UNCHANGED <<adapters, prep, exec, applied, kept>>

\* The backend call returns: DebugSession loads the stack of a new stop
\* (accept_outcome) before it is one.
Return ==
    /\ op.name # "idle" /\ op.todo = <<>>
    /\ CASE op.name \in {"launch", "resume"} /\ ~op.settling ->
              /\ op' = [Follow(<<Step("window")>>) EXCEPT !.settling = TRUE]
              /\ UNCHANGED <<answer, view>>
         [] op.name \in {"launch", "resume"} /\ op.settling ->
              Answers("stopped",
                      [phase |-> "Stopped", windows |-> 1, whole |-> exec.whole])
         [] op.name = "stack" ->
              Answers("done", [view EXCEPT !.windows = op.page + 1,
                                           !.whole = exec.whole])
         [] OTHER -> Answers("done", view)
    /\ applied' = IF op.name = "sync" THEN op.want.on ELSE applied
    /\ exec' = IF op.name = "sync"
               THEN [exec EXCEPT !.outcomes = @ \cap (op.want.on \cup exec.handles)]
               ELSE exec
    /\ UNCHANGED <<adapters, prep, kept>>

-----------------------------------------------------------------------------
\* What happens by itself once an operation is in progress.
Proceed ==
    \/ PrepareStart \/ PrepareRead \/ TakePreparation
    \/ Send \/ SkipDisconnect \/ TakeBuffered \/ Receive \/ ReadEnd
    \/ WaitEnds \/ Outcome \/ LoadWindow
    \/ Release \/ Complete \/ Discard \/ Close \/ Unreadable \/ Return

=============================================================================
