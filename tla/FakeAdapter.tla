----------------------------- MODULE FakeAdapter -----------------------------
(***************************************************************************)
(* The deterministic DAP adapter the lifecycle tests of moondbg run          *)
(* (src/tools/fake_dap.py), as the function from a request to what it sends  *)
(* and whether it goes on: one process is one environment, a stream of       *)
(* requests and a stream of messages.  Bodies are left out, but for the      *)
(* thread of a stop, which the stepping requests must name again.            *)
(***************************************************************************)
EXTENDS DapMessages

Respond(req) == <<Response(req, TRUE)>>
Reject(req) == <<Response(req, FALSE)>>

\* The environment variables of an adapter process and what they default to.
\* failOnce is the command that fails while the marker file does not exist;
\* delayed: initialize is answered after a while.
Defaults ==
    [mode |-> "normal", order |-> "response-first", failOnce |-> "none",
     duplicate |-> FALSE, late |-> FALSE, step |-> "stopped", thread |-> 1,
     delayed |-> FALSE]

\* trace
Record(kind, command) == [kind |-> kind, command |-> command]

\* What handling a request comes to: the messages sent, the marker file, the
\* records traced, and the exit code of the process or Running.
Goes(sent, marker) ==
    [sent |-> sent, marker |-> marker, traced |-> <<>>, exit |-> Running]

\* The exit code of a process that stops after a request (run).
ExitCode(env, forced) ==
    IF env.mode = "exit-before-initialize-response" THEN 17
    ELSE IF forced THEN 18 ELSE 0

Forced(command) == <<Record("forced-exit", command)>>

Stops(env, sent, marker, traced) ==
    [sent |-> sent, marker |-> marker,
     traced |-> traced \o <<Record("stop", "none")>>,
     exit |-> ExitCode(env, traced # <<>>)]

\* Mutant: a process fails although another one already did.
FailsAgain(env, marker, command) == env.failOnce = command

\* should_fail_once: the marker file is created exclusively, so that of all the
\* processes of a test one fails.
FailsOnce(env, marker, command) == env.failOnce = command /\ ~marker

-----------------------------------------------------------------------------
(* Requests.                                                                *)

\* Mutant: a step ends the program without saying that it did.
SilentStepEvents(env) ==
    CASE env.step = "stopped" -> <<>>
      [] env.step = "exited" -> <<Event("exited"), Event("terminated")>>
      [] env.step = "terminated" -> <<Event("terminated")>>

StepEvents(env) ==
    CASE env.step = "stopped" -> <<EventOf("stopped", env.thread)>>
      [] env.step = "exited" -> <<Event("exited"), Event("terminated")>>
      [] env.step = "terminated" -> <<Event("terminated")>>

\* handle_step: the thread must be the one of the stop.
HandleStep(env, marker, req) ==
    IF req.thread # env.thread THEN Goes(Reject(req), marker)
    ELSE IF env.step = "adapter-failure"
    THEN Stops(env, <<>>, marker, Forced(req.command))
    ELSE Goes(Respond(req) \o StepEvents(env), marker)

If(b, e) == IF b THEN <<e>> ELSE <<>>

Plain == {"initialize", "setBreakpoints", "setFunctionBreakpoints", "threads",
          "stackTrace", "scopes", "variables"}
Steps == {"next", "stepIn", "stepOut"}

\* What a request is answered with, in the order it is sent.
Reaction(env, req) ==
    CASE req.command \in Plain -> Respond(req)
      [] req.command = "launch" ->
            IF env.order = "initialized-first"
            THEN <<Event("initialized")>> \o Respond(req)
            ELSE Respond(req) \o <<Event("initialized")>>
      [] req.command = "configurationDone" ->
            Respond(req) \o <<EventOf("stopped", env.thread)>>
      [] req.command = "continue" ->
            Respond(req)
            \o <<Event("output"), Event("exited"), Event("terminated")>>
            \o If(env.duplicate, Event("terminated"))
            \o If(env.late, Event("late-output"))
      [] req.command = "evaluate" /\ req.on = "set" -> Respond(req)
      [] OTHER -> Reject(req)

\* handle; a delayed answer follows later.
Handle(env, marker, req) ==
    IF FailsOnce(env, marker, req.command)
    THEN Stops(env, <<>>, TRUE, Forced(req.command))
    ELSE IF req.command = "initialize"
            /\ env.mode = "exit-before-initialize-response"
    THEN Stops(env, <<>>, marker, Forced(req.command))
    ELSE IF req.command = "initialize" /\ env.delayed THEN Goes(<<>>, marker)
    ELSE IF req.command \in Steps THEN HandleStep(env, marker, req)
    ELSE IF req.command = "disconnect" THEN Stops(env, Respond(req), marker, <<>>)
    ELSE Goes(Reaction(env, req), marker)

-----------------------------------------------------------------------------
(* The process: its requests and messages are the two pipes.                 *)

\* run, one turn: read a request, handle it.
Served(a, env, marker) ==
    LET req == Head(a.requests)
        out == Handle(env, marker, req)
    IN  [adapter |-> [Answered(a, out.sent) EXCEPT !.exit = out.exit],
         marker |-> out.marker,
         traced |-> <<Record("request", req.command)>> \o out.traced]

\* The end of the sleep in handle.
Delayed(a) == Sent(a, Respond(Request(1, "initialize", "none", {}, NoThread)))

=============================================================================
