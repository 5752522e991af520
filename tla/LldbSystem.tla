----------------------------- MODULE LldbSystem -----------------------------
(***************************************************************************)
(* The lldb-dap backend with the adapters it starts and their programs, and  *)
(* a user who calls it as DebugSession does.  The adapters are not moondbg   *)
(* code: they are what src/lldb_dap is written for, with the answers it is   *)
(* prepared to get.                                                         *)
(***************************************************************************)
EXTENDS LldbSession

CONSTANTS
    MaxCalls,     \* operations the user asks for
    MaxFaults,    \* what goes wrong outside
    LastRequest,  \* after this many requests a program stops no more
    Kinds         \* of what may go wrong

ASSUME SystemAssumption ==
    /\ MaxCalls \in Nat /\ MaxFaults \in Nat /\ LastRequest \in Nat
    /\ Kinds \subseteq {"rejects", "dies", "killed", "repeats", "duplicates",
                   "times out"}

VARIABLES
    targets,  \* by adapter: its program and the breakpoints it really has
    calls,    \* operations so far
    faults,   \* faults so far
    dropped   \* history: adapters that were prepared when the wait for them timed out

system == <<adapters, prep, exec, applied, op, view, answer, kept, targets,
            calls, faults, dropped>>

\* An operation takes one prepared adapter at most.
MaxAdapters == MaxCalls + 1

\* program: none, loaded until it is configured, running, stopped or gone; owed:
\* responses that are not sent yet.
Target == [program |-> "none", tables |-> {}, owed |-> <<>>]

SystemInit ==
    /\ Init
    /\ targets = <<>>
    /\ calls = 0
    /\ faults = 0
    /\ dropped = {}

Alive(t) == t.program \in {"loaded", "running", "stopped"}

Fault(kind) == kind \in Kinds /\ faults < MaxFaults /\ faults' = faults + 1
NoFault == UNCHANGED faults

-----------------------------------------------------------------------------
(* lldb-dap.                                                                *)

Does(a, t, sent) ==
    /\ adapters' = [adapters EXCEPT ![a] = Answered(@, sent)]
    /\ targets' = [targets EXCEPT ![a] = t]

\* The breakpoints after a request that is done.
Tables(old, req) ==
    CASE req.command = "setBreakpoints" ->
            {p \in old : Catalog[p].kind # "source" \/ Catalog[p].path # req.on}
            \cup req.points
      [] req.command = "setFunctionBreakpoints" ->
            (old \ OfKind("exact")) \cup req.points
      [] req.command = "evaluate" /\ req.on \in {"set", "enable"} ->
            old \cup req.points
      [] req.command = "evaluate" /\ req.on \in {"disable", "delete"} ->
            old \ req.points
      [] OTHER -> old

\* A response may be sent before or after what its request sets off.
Runs(a, req, t) ==
    LET r == Response(req, TRUE)
        goes == [t EXCEPT !.program = "running"]
    IN  \/ Does(a, [goes EXCEPT !.owed = <<>>], <<r>> \o t.owed)
        \/ Does(a, [goes EXCEPT !.owed = @ \o <<r>>], <<>>)

\* A launch is answered before or after it is configured.
Launches(a, req, t) ==
    LET r == Response(req, TRUE)
        loaded == [t EXCEPT !.program = "loaded"]
    IN  \/ Does(a, [loaded EXCEPT !.owed = <<r>>], <<Event("initialized")>>)
        \/ \E sent \in {<<r, Event("initialized")>>, <<Event("initialized"), r>>} :
              Does(a, loaded, sent)

\* A program that ends before there is anything to configure.
EndsAtOnce(a, req, t) ==
    Does(a, [t EXCEPT !.program = "gone"],
         <<Response(req, TRUE), Event("exited"), Event("terminated")>>)

AnswerRequest(a, req, t) ==
    LET r == Response(req, TRUE) IN
    CASE req.command = "launch" -> Launches(a, req, t)
      [] req.command = "configurationDone" -> Runs(a, req, t)
      [] req.command \in Resumptions /\ t.program = "stopped" -> Runs(a, req, t)
      [] req.command \in Resumptions \cup
            {"threads", "stackTrace", "scopes", "variables", "condition"}
         /\ t.program # "stopped" ->
            Does(a, t, <<Response(req, FALSE)>>)
      [] req.command = "stackTrace" /\ t.program = "stopped" ->
            \E full \in BOOLEAN : Does(a, t, <<[r EXCEPT !.full = full]>>)
      [] OTHER -> Does(a, [t EXCEPT !.tables = Tables(@, req)], <<r>>)

\* A request that is refused, or answered in a way the client does not take for
\* a confirmation: the breakpoints may have changed or not.
RejectRequest(a, req, t) ==
    \E tables \in {t.tables, Tables(t.tables, req)} :
        Does(a, [t EXCEPT !.tables = tables], <<Response(req, FALSE)>>)

Serve(a) ==
    LET req == Head(adapters[a].requests) t == targets[a] IN
    /\ IsUp(adapters[a]) /\ adapters[a].requests # <<>>
    /\ IF req.command = "disconnect"
       THEN /\ NoFault
            /\ adapters' = [adapters EXCEPT ![a] =
                  [Answered(@, <<Response(req, TRUE)>>) EXCEPT !.exit = 0]]
            /\ targets' = [targets EXCEPT ![a].program = "gone"]
       ELSE \/ AnswerRequest(a, req, t) /\ NoFault
            \/ req.command = "launch" /\ EndsAtOnce(a, req, t) /\ Fault("killed")
            \/ RejectRequest(a, req, t) /\ Fault("rejects")

\* The adapter sends messages of its own, and its program is then what it is.
Tells(a, sent, program) ==
    /\ IsUp(adapters[a])
    /\ adapters' = [adapters EXCEPT ![a] = Sent(@, sent)]
    /\ targets' = [targets EXCEPT ![a].program = program, ![a].owed = <<>>]

\* A response that was held back.
PayOwed(a) ==
    /\ Alive(targets[a]) /\ targets[a].owed # <<>>
    /\ Tells(a, targets[a].owed, targets[a].program)
    /\ NoFault

\* A program stops, maybe again and again at a condition that is false.
ProgramStops(a) ==
    /\ targets[a].program = "running" /\ NoFault
    /\ IsUp(adapters[a]) /\ exec.next <= LastRequest
    /\ \E thread \in {1, NoThread} :
          adapters' = [adapters EXCEPT ![a] = Sent(@, <<EventOf("stopped", thread)>>)]
    /\ targets' = [targets EXCEPT ![a].program = "stopped"]

\* A program ends.
ProgramExits(a) ==
    /\ targets[a].program = "running" /\ NoFault
    /\ Tells(a, targets[a].owed \o <<Event("exited"), Event("terminated")>>, "gone")

\* A stopped program is reported once more, or killed from outside.
Repeats(a) ==
    /\ targets[a].program = "stopped" /\ Fault("repeats")
    /\ Tells(a, targets[a].owed \o <<EventOf("stopped", 1)>>, "stopped")

Killed(a) ==
    /\ targets[a].program \in {"loaded", "stopped"} /\ Fault("killed")
    /\ Tells(a, targets[a].owed \o <<Event("exited"), Event("terminated")>>, "gone")

\* The adapter sends its last response once more.
Duplicates(a) ==
    LET sent == adapters[a].messages IN
    /\ IsUp(adapters[a]) /\ sent # <<>> /\ IsResponse(sent[Len(sent)])
    /\ Fault("duplicates")
    /\ adapters' = [adapters EXCEPT ![a] = Sent(@, <<sent[Len(sent)]>>)]
    /\ UNCHANGED targets

\* The adapter dies.
Dies(a) ==
    /\ IsUp(adapters[a]) /\ Fault("dies")
    /\ adapters' = [adapters EXCEPT ![a].exit = 1]
    /\ targets' = [targets EXCEPT ![a].program = "gone"]

AdapterActs(a) ==
    /\ adapters[a].open
    /\ \/ Serve(a) \/ PayOwed(a) \/ ProgramStops(a) \/ ProgramExits(a)
       \/ Repeats(a) \/ Killed(a) \/ Duplicates(a) \/ Dies(a)

-----------------------------------------------------------------------------
\* Breakpoints as DebugSession keeps them: a family that is enabled is known.
Wants == {c \in Configurations : c.on \cap Families \subseteq c.known}

UserCalls ==
    /\ calls < MaxCalls /\ calls' = calls + 1
    /\ \/ \E want \in Wants : Launch(want) \/ Synchronize(want)
       \/ \E command \in {"continue", "next"} : Resume(command)
       \/ \E name \in {"find", "locals"} : Inspect(name)
       \/ Extend \/ Quit
    /\ UNCHANGED <<targets, faults, dropped>>

\* The program of an adapter that is closed ends with it; a new adapter has none.
EndClosed ==
    targets' = [a \in DOMAIN adapters' |->
                  IF a \in DOMAIN adapters /\ adapters'[a].open THEN targets[a]
                  ELSE Target]

ClientActs ==
    /\ Proceed /\ EndClosed
    /\ UNCHANGED <<calls, faults, dropped>>

\* An adapter that is ready just when its wait times out has no owner any more.
TimeActs ==
    /\ \/ (TimesOut \/ SpawnFails) /\ UNCHANGED dropped
       \/ /\ GiveUpPreparation
          /\ dropped' = IF prep.status = "ready" THEN dropped \cup {prep.adapter} ELSE dropped
    /\ Fault("times out") /\ EndClosed
    /\ UNCHANGED calls

AdaptersAct ==
    /\ \E a \in DOMAIN adapters : AdapterActs(a)
    /\ UNCHANGED <<prep, exec, applied, op, view, answer, kept, calls, dropped>>

Next == UserCalls \/ ClientActs \/ TimeActs \/ AdaptersAct

Spec == SystemInit /\ [][Next]_system

\* The client's tasks run when they can, an adapter answers what it is sent
\* unless it fails.
FairSpec ==
    /\ Spec
    /\ WF_system(ClientActs)
    /\ \A a \in 1 .. MaxAdapters :
          WF_system(/\ a \in DOMAIN adapters
                    /\ adapters[a].open
                    /\ Serve(a) \/ PayOwed(a)
                    /\ UNCHANGED <<prep, exec, applied, op, view, answer, kept, calls,
                                   dropped>>)

-----------------------------------------------------------------------------
(* Properties.                                                              *)

\* The state has its types: what is cached of a stop is within it, and the
\* families in use are among those installed.
TypeOK ==
    /\ prep.adapter \in 0 .. Len(adapters) /\ exec.adapter \in 0 .. Len(adapters)
    /\ exec.state \in {"Ready", "Preparing", "Configuring", "Running", "Stopped",
                       "Exited", "Failed"}
    /\ exec.active \subseteq exec.handles /\ exec.handles \subseteq Families
    /\ exec.windows \subseteq 0 .. exec.frames - 1 /\ exec.read \subseteq {"scopes", "variables"}
    /\ \A m \in exec.inbox : IsResponse(m) /\ m.to < exec.next
    /\ applied \subseteq Points
    /\ view.phase \in {"Ready", "Running", "Stopped", "Exited"}
    /\ answer \in {"none", "stopped", "exited", "failed", "timed out", "refused",
                   "rejected", "done", "unreadable", "closed"}

Contract == INSTANCE DebugBackend WITH
    Points <- Points,
    Names <- {"launch", "resume", "sync", "find", "locals", "stack", "quit"},
    call <- [name |-> IF AtPrompt THEN "none" ELSE op.name,
             want |-> CASE op.name = "launch" -> applied
                        [] op.name = "sync" -> op.want.on
                        [] OTHER -> {}],
    held <- Has,
    ended <- Has /\ exec.state = "Exited",
    config <- IF Has THEN targets[exec.adapter].tables ELSE {},
    answer <- IF answer = "timed out" THEN "failed" ELSE answer

\* The lldb-dap backend does what the session counts on (backend.mbt): whatever
\* the adapters do, a stop has the breakpoints that were asked for, an answer
\* says whether an execution is kept, and a call is answered once.
KeepsContract == Contract!Spec

Owned(a) ==
    \/ a = exec.adapter
    \/ a = prep.adapter /\ prep.status \in {"initializing", "ready"}

\* An open adapter is the execution's or the preparation's: a failed, finished or
\* discarded execution closes its own.  Only an adapter that gets ready just when the
\* wait for it times out is left open until moondbg ends (session.mbt:89); it was never
\* asked to launch a program, and none is open once the session is closed.
NothingLeaks ==
    \A a \in DOMAIN adapters : adapters[a].open =>
        /\ answer # "closed"
        /\ Owned(a) \/ a \in dropped
        /\ a # exec.adapter =>
              /\ ~Alive(targets[a])
              /\ \A i \in DOMAIN adapters[a].requests :
                    adapters[a].requests[i].command = "initialize"

\* Whatever the order of responses and events of an adapter in order, no
\* operation fails or is refused (dispatcher.mbt:15, state.mbt:104).
FailsForCause ==
    answer \in {"failed", "timed out", "refused", "rejected"} => faults > 0

\* The frames DebugSession shows are those of the stop the backend is at, without
\* a gap, unless a further stop event made it forget them (stack.mbt).
ViewIsCurrent ==
    AtPrompt /\ view.phase = "Stopped" /\ exec.state = "Stopped" /\ exec.windows # {} =>
        exec.windows = 0 .. view.windows - 1 /\ view.whole = exec.whole

\* An operation comes to its end unless the program runs on.
OperationsEnd ==
    ~AtPrompt ~> (AtPrompt \/ \E a \in DOMAIN adapters : targets[a].program = "running")

\* After a failure the program can be launched again
\* (backend.mbt: "retaining the ability to launch again").
LaunchIsNeverRefused ==
    [][op.name = "launch" => answer' # "refused"]_system

=============================================================================
