---------------------------- MODULE LiveSession ----------------------------
(***************************************************************************)
(* The live debug session of the VS Code frontend (src/dap_frontend).      *)
(*                                                                         *)
(* One event loop owns all state.  It is fed by the editor, by lldb-dap    *)
(* and by four workers (variable inspection, function breakpoints, panic   *)
(* breakpoint, breakpoint conditions), which never touch the transport:    *)
(* they ask the loop to send their requests and report their results to    *)
(* it.  A handler is one action here; the loop's only internal control     *)
(* point is `at`, which keeps it inside drain_breakpoint_updates until the *)
(* updates that waited for breakpoint work have been published.            *)
(*                                                                         *)
(* The inbox is modelled by its sources: a queue from the editor, a queue  *)
(* from the adapter, and at most one outstanding message per worker.  The  *)
(* loop takes the head of any of them, so every merge order is covered.    *)
(***************************************************************************)
EXTENDS Integers, Sequences, FiniteSets

CONSTANTS
    MaxRequests,   \* requests the editor sends after launch
    MaxStops,      \* times the target stops
    Commands,      \* the commands the editor may send in this model
    AskedKinds,    \* what its breakpoint requests ask for, a subset of Kinds
    HitSets,       \* what one stop may hit, a set of subsets of HitKinds
    PairedStops,   \* TRUE: a stop may be reported once for each of two threads
    Faults,        \* what may go wrong, a subset of FaultKinds
    QueueCap,      \* of the deferred requests and of the inspections (64 in the code)
    StartRunning   \* TRUE: begin after an empty configuration, target running

HitKinds == {"source", "function", "panic"}
FaultKinds == {"reject", "crash", "timeout", "eof", "launch"}
Kinds == {"none", "plain", "conditional", "invalid"}
AllCommands == {"setBreakpoints", "setFunctionBreakpoints",
                "setExceptionBreakpoints", "configurationDone", "continue",
                "next", "pause", "stackTrace", "variables", "threads",
                "disconnect"}

ASSUME LiveAssumption ==
    /\ MaxRequests \in Nat /\ MaxStops \in Nat
    /\ QueueCap \in Nat \ {0}
    /\ Commands \subseteq AllCommands
    /\ AskedKinds \subseteq Kinds
    /\ HitSets \subseteq SUBSET HitKinds
    /\ Faults \subseteq FaultKinds
    /\ PairedStops \in BOOLEAN /\ StartRunning \in BOOLEAN

VARIABLES
    at,           \* where the loop is: "loop", "drain", "shutdown", "closed", "over"
    session,      \* lifecycle flags of LiveSession
    pending,      \* requests sent to lldb-dap and not answered yet
    breakpoints,  \* FunctionState and PanicState
    conditions,   \* ConditionState
    inspection,   \* InspectionState: current frame handles, queued reads
    workers,      \* the four workers and their job queues
    client,       \* what the editor has been told
    fromClient,   \* editor -> session
    toAdapter,    \* session -> lldb-dap
    fromAdapter,  \* lldb-dap -> session
    target        \* lldb-dap and the debuggee

vars == <<at, session, pending, breakpoints, conditions, inspection, workers,
          client, fromClient, toAdapter, fromAdapter, target>>

-----------------------------------------------------------------------------
(* Data.                                                                    *)

None == -1
NoRequest == 0                    \* client_seq of requests nobody asked for
Launch == 1                       \* the launch request's sequence number
Requests == 1 .. MaxRequests + 1
Workers == {"inspection", "function", "panic", "condition"}

\* A stopped event: its number, the breakpoint IDs it hit, whether the hit
\* conditions hold there, and the client requests that installed what it hit.
NoStop == [no |-> 0, ids |-> {}, holds |-> FALSE, by |-> {}]

\* A request in the router (PendingRequest).  `use` is which reply field is set.
Outgoing(seq, asked, command, use, kind, stop, cause, revision) ==
    [seq |-> seq, client |-> asked, command |-> command, use |-> use,
     kind |-> kind, stop |-> stop, cause |-> cause, revision |-> revision]
NoOutgoing == Outgoing(0, NoRequest, "none", "none", "none", NoStop, 0, 0)

\* Numbers are compared only with those of requests still in the router, so a
\* freed number may be used again.
FreshSeq(ps) ==
    CHOOSE n \in 1 .. Cardinality(ps) + 1 : \A p \in ps : p.seq # n

NoJob == [cause |-> 0, epoch |-> None, frame |-> None, kind |-> "none",
          stop |-> NoStop]

FlagsAtLaunch ==
    [ready |-> FALSE, configured |-> FALSE, launchAnswered |-> FALSE,
     stopped |-> FALSE, revision |-> 0, pauseRevision |-> None,
     exited |-> FALSE, ended |-> FALSE, closing |-> FALSE]

Init ==
    LET hello == Outgoing(1, NoRequest, "initialize", "client", "none",
                          NoStop, 0, 0)
    IN
    /\ at = "loop"
    /\ session = IF StartRunning
                 THEN [FlagsAtLaunch EXCEPT !.ready = TRUE,
                           !.configured = TRUE, !.launchAnswered = TRUE]
                 ELSE FlagsAtLaunch
    /\ pending = IF StartRunning THEN {} ELSE {hello}
    /\ toAdapter = IF StartRunning THEN <<>> ELSE <<hello>>
    /\ breakpoints =
          [function |-> NoRequest, requested |-> "none", panic |-> None,
           panicConfigured |-> StartRunning, panicInstalled |-> FALSE,
           deferred |-> <<>>, stops |-> <<>>]
    /\ conditions =
          [active |-> NoJob, updating |-> FALSE, stepping |-> FALSE,
           suppress |-> FALSE,
           bindings |-> [b \in {"source", "function"} |-> "none"]]
    /\ inspection = [frames |-> None, waiting |-> {}]
    /\ workers =
          [w \in Workers |->
              [pc |-> "idle", seq |-> 0, job |-> NoJob, queue |-> <<>>,
               result |-> "none", data |-> 0, installed |-> FALSE]]
    /\ client =
          [next |-> Launch + 1, answers |-> [r \in Requests |->
               IF StartRunning /\ r = Launch THEN 1 ELSE 0],
           outcome |-> [r \in Requests |->
               IF StartRunning /\ r = Launch THEN "ok" ELSE "none"],
           data |-> [r \in Requests |-> 0],
           view |-> "running", stop |-> NoStop, resume |-> NoRequest,
           frame |-> None, terminated |-> 0, left |-> FALSE]
    /\ fromClient = <<>>
    /\ fromAdapter = <<>>
    /\ target =
          [state |-> IF StartRunning THEN "running" ELSE "none", no |-> 0,
           source |-> NoRequest, function |-> NoRequest, panic |-> FALSE,
           launch |-> NoOutgoing, busy |-> NoOutgoing, alive |-> TRUE]

-----------------------------------------------------------------------------
(* What the loop knows.                                                     *)

\* LiveSession.breakpoint_work_pending: execution must not outrun any of these.
WorkPending ==
    \/ breakpoints.function # NoRequest
    \/ breakpoints.panic # None
    \/ conditions.updating
    \/ conditions.active # NoJob

\* The target is stopped and this session may look at it.
Inspectable ==
    session.stopped /\ ~session.exited /\ ~session.ended /\ ~session.closing

InspectionEpoch ==
    IF Inspectable /\ conditions.active = NoJob THEN session.revision ELSE None

ConditionEpoch ==
    IF Inspectable /\ conditions.active # NoJob
                   /\ conditions.active.epoch = session.revision
    THEN session.revision ELSE None

\* BreakpointConditions.for_stop: every hit is known and conditional.
\* Mutation: one conditional breakpoint is enough.
SomeConditional(stop) ==
    \E b \in stop.ids : b # "panic" /\ conditions.bindings[b] = "conditional"
AllConditional(stop) ==
    /\ stop.ids # {}
    /\ \A b \in stop.ids : b # "panic" /\ conditions.bindings[b] = "conditional"

-----------------------------------------------------------------------------
(* What the editor is told.  The functions map the editor's record to the   *)
(* record after the message; a message is delivered when it is written.     *)

\* A response to each request of S.  An error to the editor's own resume takes
\* it back to the stop it resumed from.
Answer(c, S, outcome) ==
    [c EXCEPT !.answers = [r \in Requests |-> IF r \in S THEN @[r] + 1 ELSE @[r]],
              !.outcome = [r \in Requests |-> IF r \in S THEN outcome ELSE @[r]],
              !.view = IF outcome = "error" /\ c.resume \in S
                       THEN "stopped" ELSE @,
              !.resume = IF c.resume \in S THEN NoRequest ELSE @]

\* A successful answer that carries frames or values read at stop `no`.
AnswerWithData(c, r, no) ==
    [Answer(c, {r}, "ok") EXCEPT !.data[r] = no]

TellStopped(c, stop) ==
    [c EXCEPT !.view = "stopped", !.resume = NoRequest, !.stop = stop]
TellContinued(c) == [c EXCEPT !.view = "running", !.resume = NoRequest]
TellExited(c) == [c EXCEPT !.view = "gone", !.resume = NoRequest]

\* LiveSession.finish sends `terminated` unless the session ended before.
\* Mutation: `terminated` is sent again.
TellTerminatedAgain(c) == [TellExited(c) EXCEPT !.terminated = @ + 1]
TellTerminated(c) ==
    IF session.ended THEN c
    ELSE [TellExited(c) EXCEPT !.terminated = @ + 1]

Finished(s) == [s EXCEPT !.ended = TRUE, !.stopped = FALSE,
                         !.pauseRevision = None]

\* LiveSession.cancel_launch
\* Mutation: launch is cancelled although it was answered.
CancelLaunchAlways(c) == Answer(c, {Launch}, "error")
CancelLaunch(c) ==
    IF session.launchAnswered THEN c ELSE Answer(c, {Launch}, "error")

-----------------------------------------------------------------------------
(* Helpers several handlers share.                                          *)

Send(ps, p) ==
    /\ pending' = ps \cup {p}
    /\ toAdapter' = Append(toAdapter, p)

\* A request the editor made, forwarded on its behalf.
Forward(req, command) ==
    Send(pending, Outgoing(FreshSeq(pending), req.seq, command, "client",
                           req.kind, NoStop, 0, session.revision))

Enqueue(ws, w, job) == [ws EXCEPT ![w].queue = Append(@, job)]

\* Closing the reply queue of a waiting worker wakes it with an error.
Release(ws, S) ==
    [w \in Workers |->
        IF w \in S /\ ws[w].pc = "wait"
        THEN [ws[w] EXCEPT !.pc = "replied", !.seq = 0, !.result = "error"]
        ELSE ws[w]]

\* LiveSession.cancel_functions: the state, the answers, the workers.
\* Mutation: the deferred requests stay queued after they were answered.
CancelledWorkKeepsDeferred ==
    [breakpoints EXCEPT !.function = NoRequest, !.panic = None, !.stops = <<>>]
CancelledWork == [breakpoints EXCEPT !.function = NoRequest, !.panic = None,
                                     !.deferred = <<>>, !.stops = <<>>]
\* Mutation: the deferred requests are forgotten.
AnswerCancelledActive(c) ==
    Answer(c, {breakpoints.function, breakpoints.panic} \cap Requests, "error")
AnswerCancelled(c) ==
    LET deferred == {breakpoints.deferred[i].seq :
                        i \in DOMAIN breakpoints.deferred}
    IN  Answer(Answer(Answer(c, {breakpoints.function} \cap Requests, "error"),
                      {breakpoints.panic} \cap Requests, "error"),
               deferred, "error")

\* LiveSession.invalidate_inspection: frame handles and queued reads die with
\* the stop they belong to.
\* Mutation: the frame handles of the old stop stay valid.
KeptInspection == [inspection EXCEPT !.waiting = {}]
NoInspection == [frames |-> None, waiting |-> {}]
\* Mutation: queued reads are dropped silently.
DropStale(c) == c
AnswerStale(c) == Answer(c, {j.cause : j \in inspection.waiting}, "error")

\* Leaving a handler through drain_breakpoint_updates.
\* Mutation: the handler forgets to drain.
ForgetDrain == at' = "loop"
EnterDrain ==
    at' = IF ~WorkPending' /\ (breakpoints'.stops # <<>>
                               \/ breakpoints'.deferred # <<>>)
          THEN "drain" ELSE "loop"

\* The rest of the drain: all held stops, then requests while no work is pending.
KeepDraining ==
    at' = IF breakpoints'.stops # <<>>
             \/ (~WorkPending' /\ breakpoints'.deferred # <<>>)
          THEN "drain" ELSE "loop"

\* Requests of the editor that still wait for an answer of lldb-dap.
Asked(ps) == {p.client : p \in {q \in ps : q.client > 0
                                           /\ q.command # "launch"}}

\* A raised error: everyone who waits gets an error and the session shuts down.
\* c, ps and ws are the editor, the router and the workers as the failing
\* handler left them.
Raise(c, ps, ws) ==
    /\ at' = "shutdown"
    /\ session' = [session EXCEPT !.launchAnswered = TRUE]
    /\ client' = Answer(CancelLaunch(AnswerStale(AnswerCancelled(c))),
                        Asked(ps), "error")
    /\ breakpoints' = CancelledWork
    /\ inspection' = NoInspection
    /\ workers' = Release(ws, Workers)
    /\ pending' = ps
    /\ UNCHANGED <<conditions, toAdapter>>

-----------------------------------------------------------------------------
(* Publishing a stop.  `c`, `cond` and `ws` are the editor, the condition    *)
(* state and the workers as the calling handler left them.                   *)

\* Mutation: the job carries the revision of before the stop.
OldConditionJob(stop, revision) ==
    [NoJob EXCEPT !.epoch = revision - 1, !.stop = stop]
ConditionJob(stop, revision) ==
    [NoJob EXCEPT !.epoch = revision, !.stop = stop]

\* publish_condition_stop: evaluate the conditions first, or tell the editor.
PublishConditionStop(stop, c, cond, ws, revision) ==
    LET job == ConditionJob(stop, revision) IN
    IF ~cond.stepping /\ AllConditional(stop)
    THEN /\ conditions' = [cond EXCEPT !.active = job]
         /\ workers' = Enqueue(ws, "condition", job)
         /\ client' = c
    ELSE /\ conditions' = cond
         /\ workers' = ws
         /\ client' = TellStopped(c, stop)

\* publish_stop: a stop at the panic breakpoint is classified by its top frame.
PublishStop(stop, c, cond, ws, revision) ==
    IF breakpoints.panicInstalled /\ "panic" \in stop.ids
    THEN /\ Send(pending, Outgoing(FreshSeq(pending), NoRequest, "stackTrace",
                                   "stopContext", "none", stop, 0, revision))
         /\ conditions' = cond
         /\ workers' = ws
         /\ client' = c
    ELSE /\ PublishConditionStop(stop, c, cond, ws, revision)
         /\ UNCHANGED <<pending, toAdapter>>

-----------------------------------------------------------------------------
(* Requests of the editor: handle_live_request.  `b` is the breakpoint state *)
(* the handler starts from (the drain has taken the request off the queue).  *)

\* Mutation: arguments that cannot be parsed are accepted.
AcceptAnything(req) == TRUE
Valid(req) == req.kind # "invalid"

Configurable == session.ready /\ ~session.ended

ReplyAtOnce(req, outcome, b) ==
    /\ client' = Answer(client, {req.seq}, outcome)
    /\ breakpoints' = b
    /\ UNCHANGED <<session, pending, conditions, inspection, workers, toAdapter>>

\* setFunctionBreakpoints: hand the replacement to the function worker.
ReplaceFunctions(req, b) ==
    /\ req.command = "setFunctionBreakpoints" /\ Configurable
    /\ Valid(req)
    /\ breakpoints' = [b EXCEPT !.function = req.seq, !.requested = req.kind]
    /\ workers' = Enqueue(workers, "function",
                      [NoJob EXCEPT !.cause = req.seq, !.kind = req.kind])
    /\ UNCHANGED <<session, pending, conditions, inspection, client, toAdapter>>

\* setBreakpoints: lldb-dap gets the locations, the session keeps conditions.
ReplaceSources(req, b) ==
    /\ req.command = "setBreakpoints" /\ Configurable
    /\ Valid(req)
    /\ conditions' = [conditions EXCEPT !.updating = TRUE]
    /\ Forward(req, req.command)
    /\ breakpoints' = b
    /\ UNCHANGED <<session, inspection, workers, client>>

\* setExceptionBreakpoints: hand the panic filter to the panic worker.
ReplacePanic(req, b) ==
    /\ req.command = "setExceptionBreakpoints" /\ Configurable
    /\ Valid(req)
    /\ breakpoints' = [b EXCEPT !.panic = req.seq]
    /\ workers' = Enqueue(workers, "panic",
                      [NoJob EXCEPT !.cause = req.seq, !.kind = req.kind])
    /\ UNCHANGED <<session, pending, conditions, inspection, client, toAdapter>>

\* configurationDone: the default panic breakpoint is installed first when the
\* editor never chose one, and the request waits behind it.
ConfigurationDone(req, b) ==
    /\ req.command = "configurationDone" /\ Configurable
    /\ ~session.configured
    /\ IF b.panicConfigured
       THEN /\ session' = [session EXCEPT !.configured = TRUE]
            /\ Forward(req, req.command)
            /\ breakpoints' = b
            /\ UNCHANGED workers
       ELSE /\ breakpoints' = [b EXCEPT !.panic = 0,
                                        !.deferred = Append(@, req)]
            /\ workers' = Enqueue(workers, "panic",
                              [NoJob EXCEPT !.kind = "plain"])
            /\ UNCHANGED <<session, pending, toAdapter>>
    /\ UNCHANGED <<conditions, inspection, client>>

\* threads: nothing to show once the session has ended.
Threads(req, b) ==
    /\ req.command = "threads"
    /\ \/ session.ended /\ ReplyAtOnce(req, "ok", b)
       \/ /\ ~session.ended /\ session.ready
          /\ Forward(req, req.command)
          /\ breakpoints' = b
          /\ UNCHANGED <<session, conditions, inspection, workers, client>>

StackTrace(req, b) ==
    /\ req.command = "stackTrace" /\ InspectionEpoch # None
    /\ Forward(req, req.command)
    /\ breakpoints' = b
    /\ UNCHANGED <<session, conditions, inspection, workers, client>>

\* A job the worker has, or takes at once, does not count.
InspectionsFull ==
    LET me == workers["inspection"] IN
    Len(me.queue) + (IF me.pc = "idle" THEN 0 ELSE 1) > QueueCap

\* scopes, variables and evaluate: read through the inspection worker, with a
\* frame handle that is still valid.
Variables(req, b) ==
    LET job == [NoJob EXCEPT !.cause = req.seq, !.epoch = InspectionEpoch,
                                      !.frame = req.frame] IN
    /\ req.command = "variables"
    /\ InspectionEpoch # None
    /\ inspection.frames # None /\ req.frame = inspection.frames
    /\ ~InspectionsFull
    /\ inspection' = [inspection EXCEPT !.waiting = @ \cup {job}]
    /\ workers' = Enqueue(workers, "inspection", job)
    /\ breakpoints' = b
    /\ UNCHANGED <<session, pending, conditions, client, toAdapter>>

\* live_control: what makes the loop accept a resume or a pause.
Active == /\ session.ready /\ session.configured /\ session.launchAnswered
          /\ ~session.exited /\ ~session.ended
Resumes(command) == command \in {"continue", "next"}
CanResume == Active /\ session.stopped
CanPause ==
    /\ Active
    /\ ~session.stopped \/ conditions.active # NoJob
    /\ session.pauseRevision = None

\* continue and the steps: handles of the old stop die, the revision moves on.
Resume(req, b) ==
    /\ Resumes(req.command) /\ CanResume
    /\ session' = [session EXCEPT !.stopped = FALSE, !.revision = @ + 1]
    /\ conditions' = [conditions EXCEPT !.stepping = req.command # "continue"]
    /\ client' = [AnswerStale(client) EXCEPT !.view = "running",
                                             !.resume = req.seq]
    /\ inspection' = NoInspection
    /\ workers' = Release(workers, {"inspection", "condition"})
    /\ Send(pending, Outgoing(FreshSeq(pending), req.seq, req.command, "client",
                              "none", NoStop, 0, session.revision + 1))
    /\ breakpoints' = b

\* pause of a running target: the stop comes later, as an event.
Pause(req, b) ==
    /\ req.command = "pause" /\ CanPause /\ conditions.active = NoJob
    /\ session' = [session EXCEPT !.pauseRevision = session.revision]
    /\ Forward(req, req.command)
    /\ breakpoints' = b
    /\ UNCHANGED <<conditions, inspection, workers, client>>

Refused(req) ==
    \/ ~Valid(req)
    \/ /\ req.command \in {"setBreakpoints", "setFunctionBreakpoints",
                           "setExceptionBreakpoints"}
       /\ ~Configurable
    \/ /\ req.command = "configurationDone"
       /\ ~Configurable \/ session.configured
    \/ req.command = "threads" /\ ~session.ready /\ ~session.ended
    \/ req.command = "stackTrace" /\ InspectionEpoch = None
    \/ /\ req.command = "variables"
       /\ \/ InspectionEpoch = None
          \/ inspection.frames = None \/ req.frame # inspection.frames
          \/ InspectionsFull
    \/ Resumes(req.command) /\ ~CanResume
    \/ req.command = "pause" /\ ~CanPause

Perform(req, b) ==
    \/ Refused(req) /\ ReplyAtOnce(req, "error", b)
    \/ ReplaceFunctions(req, b)
    \/ ReplaceSources(req, b)
    \/ ReplacePanic(req, b)
    \/ ConfigurationDone(req, b)
    \/ Threads(req, b)
    \/ StackTrace(req, b)
    \/ Variables(req, b)
    \/ Resume(req, b)
    \/ Pause(req, b)

-----------------------------------------------------------------------------
(* The loop takes a message of the editor.                                  *)

TakeRequest(req) ==
    /\ at = "loop" /\ fromClient # <<>> /\ req = Head(fromClient)
    /\ fromClient' = Tail(fromClient)
    /\ UNCHANGED <<fromAdapter, target>>

\* Mutation: resumes are not deferred.
DeferrableEdits(command) ==
    command \in {"setFunctionBreakpoints", "setBreakpoints",
                 "setExceptionBreakpoints", "configurationDone"}
\* Mutation: function breakpoint requests are not deferred.
DeferrableOthers(command) ==
    command \in {"setBreakpoints", "setExceptionBreakpoints",
                 "configurationDone", "continue", "next"}
Deferrable(command) ==
    command \in {"setFunctionBreakpoints", "setBreakpoints",
                 "setExceptionBreakpoints", "configurationDone",
                 "continue", "next"}

\* Requests that must not overtake breakpoint work wait for it.
MustDefer(req) == WorkPending /\ Deferrable(req.command)

QueueFull == Len(breakpoints.deferred) >= QueueCap

DeferRequest(req) ==
    /\ TakeRequest(req) /\ ~session.closing
    /\ MustDefer(req)
    /\ at' = "loop"
    /\ \/ QueueFull /\ ReplyAtOnce(req, "error", breakpoints)
       \/ /\ ~QueueFull
          /\ breakpoints' = [breakpoints EXCEPT !.deferred = Append(@, req)]
          /\ UNCHANGED <<session, pending, conditions, inspection, workers,
                         client, toAdapter>>

\* pause while a condition is evaluated: the target already stands still, so
\* the stop is published as the pause and its evaluation is dropped.
InterruptCondition(req) ==
    /\ TakeRequest(req) /\ ~session.closing
    /\ req.command = "pause" /\ CanPause /\ conditions.active # NoJob
    /\ conditions' = [conditions EXCEPT !.active = NoJob]
    /\ session' = [session EXCEPT !.revision = @ + 1]
    /\ client' = TellStopped(Answer(client, {req.seq}, "ok"),
                           conditions.active.stop)
    /\ UNCHANGED <<pending, breakpoints, inspection, workers, toAdapter>>
    /\ EnterDrain

PerformRequest(req) ==
    /\ TakeRequest(req) /\ ~session.closing
    /\ req.command \notin {"disconnect", "eof"}
    /\ ~MustDefer(req)
    /\ Perform(req, breakpoints)
    /\ at' = "loop"

Disconnect(req) ==
    /\ TakeRequest(req)
    /\ req.command = "disconnect" /\ ~session.closing
    /\ session' = [session EXCEPT !.closing = TRUE, !.launchAnswered = TRUE]
    /\ client' = CancelLaunch(AnswerStale(AnswerCancelled(client)))
    /\ breakpoints' = CancelledWork
    /\ inspection' = NoInspection
    /\ workers' = Release(workers, Workers)
    /\ Forward(req, req.command)
    /\ at' = "loop"
    /\ UNCHANGED conditions

RefuseWhileClosing(req) ==
    /\ TakeRequest(req) /\ session.closing /\ req.command # "eof"
    /\ ReplyAtOnce(req, "error", breakpoints)
    /\ at' = "loop"

\* The editor closed its end: nobody is left to answer.
ClientEof(req) ==
    /\ TakeRequest(req) /\ req.command = "eof"
    /\ at' = "shutdown"
    /\ UNCHANGED <<session, pending, breakpoints, conditions, inspection,
                   workers, client, toAdapter>>

OnClient ==
    /\ fromClient # <<>>
    /\ LET req == Head(fromClient) IN
        \/ DeferRequest(req)
        \/ InterruptCondition(req)
        \/ PerformRequest(req)
        \/ Disconnect(req)
        \/ RefuseWhileClosing(req)
        \/ ClientEof(req)

-----------------------------------------------------------------------------
(* drain_breakpoint_updates, one held stop or one deferred request at a time *)

DrainStop ==
    /\ at = "drain" /\ breakpoints.stops # <<>>
    /\ breakpoints' = [breakpoints EXCEPT !.stops = Tail(@)]
    /\ PublishStop(Head(breakpoints.stops), client, conditions, workers,
                   session.revision)
    /\ UNCHANGED <<session, inspection, fromClient, fromAdapter, target>>
    /\ KeepDraining

DrainRequest ==
    /\ at = "drain" /\ breakpoints.stops = <<>> /\ breakpoints.deferred # <<>>
    /\ Perform(Head(breakpoints.deferred),
               [breakpoints EXCEPT !.deferred = Tail(@)])
    /\ UNCHANGED <<fromClient, fromAdapter, target>>
    /\ KeepDraining

-----------------------------------------------------------------------------
(* The loop takes a message of lldb-dap: on_adapter.                         *)

TakeMessage(m) ==
    /\ at = "loop" /\ fromAdapter # <<>> /\ m = Head(fromAdapter)
    /\ fromAdapter' = Tail(fromAdapter)
    /\ UNCHANGED <<fromClient, target>>

TakeResponse(m, use) ==
    /\ TakeMessage(m)
    /\ m.type = "response" /\ m.request \in pending
    /\ m.request.use = use

Settled(m) == pending \ {m.request}

\* A delayed answer must not undo a newer stop, resume or exit.
StillCurrent(p) ==
    /\ p.revision = session.revision
    /\ ~session.closing /\ ~session.ended /\ ~session.exited

\* The answer to the loop's own continue after a false condition.
OnConditionContinued(m) ==
    /\ TakeResponse(m, "conditionContinue")
    /\ pending' = Settled(m)
    /\ IF ~m.ok /\ StillCurrent(m.request)
       THEN /\ session' = [session EXCEPT !.stopped = TRUE]
            /\ conditions' = [conditions EXCEPT !.suppress = FALSE]
            /\ client' = TellStopped(client, m.request.stop)
       ELSE UNCHANGED <<session, conditions, client>>
    /\ at' = "loop"
    /\ UNCHANGED <<breakpoints, inspection, workers, toAdapter>>

\* A reply for a worker; a worker that stopped waiting does not get it.
OnWorkerReply(m, w) ==
    /\ TakeResponse(m, w)
    /\ pending' = Settled(m)
    /\ workers' =
          IF workers[w].pc = "wait" /\ workers[w].seq = m.request.seq
          THEN [workers EXCEPT ![w] = [@ EXCEPT !.pc = "replied", !.seq = 0,
                                           !.result = m.value, !.data = m.data]]
          ELSE workers
    /\ at' = "loop"
    /\ UNCHANGED <<session, breakpoints, conditions, inspection, client,
                   toAdapter>>

\* complete_panic_stop: a panic is shown as such, anything else goes on to the
\* breakpoint conditions; a stop that is over is dropped.
OnStopClassified(m, panicked) ==
    /\ TakeResponse(m, "stopContext")
    /\ pending' = Settled(m)
    /\ panicked => m.ok
    /\ IF ~session.stopped \/ ~StillCurrent(m.request)
       THEN UNCHANGED <<client, conditions, workers>>
       ELSE IF panicked
            THEN /\ client' = TellStopped(client, m.request.stop)
                 /\ UNCHANGED <<conditions, workers>>
            ELSE PublishConditionStop(m.request.stop, client, conditions,
                                      workers, session.revision)
    /\ at' = "loop"
    /\ UNCHANGED <<session, breakpoints, inspection, toAdapter>>

\* The stack of a stop that is over is an error; frames of the current stop
\* become frame handles, which they keep until they are invalidated.  A handle is
\* named by the request whose answer was the first to carry it.
StackIsStale(p) == ~session.stopped \/ ~StillCurrent(p)
MapFrames(r) == IF inspection.frames = None THEN r ELSE inspection.frames

OnStackTrace(m) ==
    /\ TakeResponse(m, "client") /\ m.request.command = "stackTrace"
    /\ pending' = Settled(m)
    /\ IF StackIsStale(m.request) \/ ~m.ok
       THEN /\ client' = Answer(client, {m.request.client}, "error")
            /\ UNCHANGED inspection
       ELSE /\ inspection' = [inspection EXCEPT !.frames =
                                                MapFrames(m.request.client)]
            /\ client' = [AnswerWithData(client, m.request.client, m.data)
                             EXCEPT !.frame = MapFrames(m.request.client)]
    /\ at' = "loop"
    /\ UNCHANGED <<session, breakpoints, conditions, workers, toAdapter>>

\* A refused replacement leaves lldb-dap's breakpoints unknown: give up.
OnSourcesReplaced(m) ==
    /\ TakeResponse(m, "client") /\ m.request.command = "setBreakpoints"
    /\ IF m.ok
       THEN /\ pending' = Settled(m)
            /\ conditions' = [conditions EXCEPT !.updating = FALSE,
                                  !.bindings["source"] = m.request.kind]
            /\ client' = Answer(client, {m.request.client}, "ok")
            /\ UNCHANGED <<session, breakpoints, inspection, workers, toAdapter>>
            /\ EnterDrain
       ELSE Raise(Answer(client, {m.request.client}, "error"), Settled(m), workers)

OnInitialize(m) ==
    /\ TakeResponse(m, "client") /\ m.request.command = "initialize"
    /\ IF m.ok
       THEN /\ IF session.closing
               THEN pending' = Settled(m) /\ UNCHANGED toAdapter
               ELSE Send(Settled(m),
                         Outgoing(FreshSeq(Settled(m)), Launch, "launch",
                                  "client", "none", NoStop, 0, session.revision))
            /\ at' = "loop"
            /\ UNCHANGED <<session, breakpoints, conditions, inspection,
                           workers, client>>
       ELSE Raise(client, Settled(m), workers)

\* Launch is answered once; a failed launch or configuration ends the session.
OnLaunched(m) ==
    /\ TakeResponse(m, "client") /\ m.request.command = "launch"
    /\ pending' = Settled(m)
    /\ LET answered == IF session.launchAnswered THEN client
                       ELSE Answer(client, {Launch}, IF m.ok THEN "ok" ELSE "error")
           launched == [session EXCEPT !.launchAnswered = TRUE]
       IN  IF m.ok
           THEN client' = answered /\ session' = launched
           ELSE client' = TellTerminated(answered) /\ session' = Finished(launched)
    /\ at' = "loop"
    /\ UNCHANGED <<breakpoints, conditions, inspection, workers, toAdapter>>

OnConfigured(m) ==
    /\ TakeResponse(m, "client") /\ m.request.command = "configurationDone"
    /\ pending' = Settled(m)
    /\ IF m.ok
       THEN /\ client' = Answer(client, {m.request.client}, "ok")
            /\ UNCHANGED session
       ELSE /\ client' = TellTerminated(Answer(client, {m.request.client}, "error"))
            /\ session' = Finished(session)
    /\ at' = "loop"
    /\ UNCHANGED <<breakpoints, conditions, inspection, workers, toAdapter>>

\* A resume that lldb-dap refuses leaves the session at the stop it was at.
\* Mutation: a refused resume is not rolled back.
NeverRollsBack(m) == FALSE
RollsBack(m) == ~m.ok /\ StillCurrent(m.request)

OnResumed(m) ==
    /\ TakeResponse(m, "client") /\ Resumes(m.request.command)
    /\ pending' = Settled(m)
    /\ session' = [session EXCEPT !.stopped = IF RollsBack(m) THEN TRUE ELSE @]
    /\ client' = Answer(client, {m.request.client}, IF m.ok THEN "ok" ELSE "error")
    /\ at' = "loop"
    /\ UNCHANGED <<breakpoints, conditions, inspection, workers, toAdapter>>

OnPauseAnswered(m) ==
    /\ TakeResponse(m, "client") /\ m.request.command = "pause"
    /\ pending' = Settled(m)
    /\ session' = [session EXCEPT !.pauseRevision =
                      IF ~m.ok /\ @ = m.request.revision THEN None ELSE @]
    /\ client' = Answer(client, {m.request.client}, IF m.ok THEN "ok" ELSE "error")
    /\ at' = "loop"
    /\ UNCHANGED <<breakpoints, conditions, inspection, workers, toAdapter>>

OnThreads(m) ==
    /\ TakeResponse(m, "client") /\ m.request.command = "threads"
    /\ pending' = Settled(m)
    /\ client' = Answer(client, {m.request.client}, IF m.ok THEN "ok" ELSE "error")
    /\ at' = "loop"
    /\ UNCHANGED <<session, breakpoints, conditions, inspection, workers,
                   toAdapter>>

\* The disconnect response may overtake other requests; they are completed
\* before the session closes.
OnDisconnected(m) ==
    LET done == Answer(client, {m.request.client}, IF m.ok THEN "ok" ELSE "error")
    IN
    /\ TakeResponse(m, "client") /\ m.request.command = "disconnect"
    /\ IF m.ok
       THEN /\ client' = TellTerminated(Answer(done, Asked(Settled(m)), "error"))
            /\ pending' = {}
            /\ session' = Finished(session)
            /\ at' = "closed"
            /\ UNCHANGED <<breakpoints, conditions, inspection, workers,
                           toAdapter>>
       ELSE Raise(done, Settled(m), workers)

-----------------------------------------------------------------------------
(* Events of lldb-dap.                                                       *)

TakeEvent(m, type) == TakeMessage(m) /\ m.type = type

OnInitialized(m) ==
    /\ TakeEvent(m, "initialized")
    /\ session' = [session EXCEPT !.ready = TRUE]
    /\ at' = "loop"
    /\ UNCHANGED <<pending, breakpoints, conditions, inspection, workers,
                   client, toAdapter>>

\* A running target can hit a new breakpoint before its installation is
\* answered: hold the stop until the editor knows the breakpoint's ID.
\* Mutation: a stop is not held for a source replacement.
HoldsStopForWorkers ==
    breakpoints.function # NoRequest \/ breakpoints.panic # None
HoldsStop ==
    \/ breakpoints.function # NoRequest
    \/ breakpoints.panic # None
    \/ conditions.updating

OnStopped(m) ==
    /\ TakeEvent(m, "stopped")
    /\ at' = "loop"
    /\ IF session.ended \/ session.exited \/ session.closing
       THEN UNCHANGED <<session, pending, breakpoints, conditions, inspection,
                        workers, client, toAdapter>>
       ELSE LET paused == session.pauseRevision # None
                cond == [conditions EXCEPT !.active = NoJob, !.suppress = FALSE,
                                           !.stepping = @ \/ paused]
                ws == Release(workers, {"inspection", "condition"})
                revision == session.revision + 1
            IN /\ session' = [session EXCEPT !.stopped = TRUE,
                                  !.revision = revision, !.pauseRevision = None]
               /\ inspection' = NoInspection
               /\ IF HoldsStop
                  THEN /\ breakpoints' = [breakpoints EXCEPT
                                             !.stops = Append(@, m.stop)]
                       /\ conditions' = cond
                       /\ workers' = ws
                       /\ client' = AnswerStale(client)
                       /\ UNCHANGED <<pending, toAdapter>>
                  ELSE /\ PublishStop(m.stop, AnswerStale(client), cond, ws,
                                      revision)
                       /\ UNCHANGED breakpoints

\* The continued event of the loop's own continue is not shown to the editor.
OnContinued(m) ==
    /\ TakeEvent(m, "continued")
    /\ at' = "loop"
    /\ IF session.ended \/ session.exited
       THEN UNCHANGED <<session, conditions, inspection, workers, client>>
       ELSE /\ session' = [session EXCEPT !.stopped = FALSE, !.revision = @ + 1]
            /\ inspection' = NoInspection
            /\ workers' = Release(workers, {"inspection", "condition"})
            /\ conditions' = [conditions EXCEPT !.suppress = FALSE]
            /\ client' = IF conditions.suppress THEN AnswerStale(client)
                         ELSE TellContinued(AnswerStale(client))
    /\ UNCHANGED <<pending, breakpoints, toAdapter>>

OnExited(m) ==
    /\ TakeEvent(m, "exited")
    /\ session' = [session EXCEPT !.exited = TRUE, !.stopped = FALSE,
                       !.revision = @ + 1, !.pauseRevision = None]
    /\ client' = TellExited(AnswerStale(AnswerCancelled(client)))
    /\ breakpoints' = CancelledWork
    /\ inspection' = NoInspection
    /\ workers' = Release(workers, Workers)
    /\ at' = "loop"
    /\ UNCHANGED <<pending, conditions, toAdapter>>

OnTerminated(m) ==
    /\ TakeEvent(m, "terminated")
    /\ session' = IF session.ended THEN session ELSE Finished(session)
    /\ client' = TellTerminated(AnswerStale(AnswerCancelled(client)))
    /\ breakpoints' = CancelledWork
    /\ inspection' = NoInspection
    /\ workers' = Release(workers, Workers)
    /\ at' = "loop"
    /\ UNCHANGED <<pending, conditions, toAdapter>>

\* The adapter's stream broke.  After `terminated` that is the expected end.
OnFailed(m) ==
    /\ TakeEvent(m, "failed")
    /\ IF session.ended
       THEN /\ at' = "shutdown"
            /\ UNCHANGED <<session, pending, breakpoints, conditions,
                           inspection, workers, client, toAdapter>>
       ELSE Raise(client, pending, workers)

OnAdapter ==
    /\ fromAdapter # <<>>
    /\ LET m == Head(fromAdapter) IN
        \/ OnConditionContinued(m)
        \/ \E w \in Workers : OnWorkerReply(m, w)
        \/ \E panicked \in BOOLEAN : OnStopClassified(m, panicked)
        \/ OnStackTrace(m)
        \/ OnSourcesReplaced(m)
        \/ OnInitialize(m)
        \/ OnLaunched(m)
        \/ OnConfigured(m)
        \/ OnResumed(m)
        \/ OnPauseAnswered(m)
        \/ OnThreads(m)
        \/ OnDisconnected(m)
        \/ OnInitialized(m)
        \/ OnStopped(m)
        \/ OnContinued(m)
        \/ OnExited(m)
        \/ OnTerminated(m)
        \/ OnFailed(m)

-----------------------------------------------------------------------------
(* The workers.  A job makes all its reads in one round trip here: every read *)
(* of the code goes through the same admission check and the same recheck.    *)

\* The epoch a job was issued for must still be the loop's.
EpochHolds(w, job) ==
    CASE w = "inspection" -> InspectionEpoch = job.epoch
      [] w = "condition" -> ConditionEpoch = job.epoch
      [] OTHER -> TRUE

StepWorker(w, to) ==
    /\ workers' = [workers EXCEPT ![w] = to]
    /\ UNCHANGED <<at, session, pending, breakpoints, conditions, inspection,
                   client, fromClient, toAdapter, fromAdapter, target>>

\* replace_functions and panic_worker talk to lldb-dap only for a difference.
NothingToChange(w, job) ==
    /\ w \in {"function", "panic"}
    /\ workers[w].installed = (job.kind # "none")

WorkerStart(w) ==
    /\ at # "over" /\ workers[w].pc = "idle" /\ workers[w].queue # <<>>
    /\ LET job == Head(workers[w].queue)
           taken == [workers[w] EXCEPT !.queue = Tail(@), !.job = job]
       IN  StepWorker(w,
             IF w = "inspection" /\ ~EpochHolds(w, job)
             THEN [taken EXCEPT !.pc = "done", !.result = "error"]
             ELSE IF NothingToChange(w, job)
             THEN [taken EXCEPT !.pc = "done", !.result = "ok"]
             ELSE [taken EXCEPT !.pc = "read"])

\* The reply is checked against the epoch again: the loop may have moved on
\* between the reply and this step.
WorkerFinish(w) ==
    /\ at # "over" /\ workers[w].pc = "replied"
    /\ LET me == workers[w] IN
       StepWorker(w,
           [me EXCEPT !.pc = "done",
               !.result = IF EpochHolds(w, me.job) THEN @ ELSE "error",
               !.installed = IF me.result = "ok" THEN me.job.kind # "none"
                             ELSE @])

\* Inspection and condition jobs have 12 seconds.
WorkerTimeout(w) ==
    /\ at # "over" /\ "timeout" \in Faults
    /\ w \in {"inspection", "condition"} /\ workers[w].pc = "wait"
    /\ StepWorker(w, [workers[w] EXCEPT !.pc = "done", !.seq = 0,
                                        !.result = "error"])

-----------------------------------------------------------------------------
(* The loop takes a message of a worker.                                     *)

TakeWork(w, pc) ==
    /\ at = "loop" /\ workers[w].pc = pc
    /\ UNCHANGED <<fromClient, fromAdapter, target>>

\* Mutation: breakpoint workers go on while the session closes.
AdmitsByEpoch(w) == EpochHolds(w, workers[w].job)
Admits(w) ==
    /\ EpochHolds(w, workers[w].job)
    /\ w \in {"function", "panic"} => ~session.closing /\ ~session.ended

\* InspectRead, FunctionRead, PanicRead, ConditionRead
OnRead(w) ==
    /\ TakeWork(w, "read")
    /\ IF Admits(w)
       THEN LET job == workers[w].job
                n == FreshSeq(pending)
            IN  /\ Send(pending, Outgoing(n, NoRequest, "work", w, job.kind,
                                          job.stop, job.cause, session.revision))
                /\ workers' = [workers EXCEPT ![w].pc = "wait", ![w].seq = n]
       ELSE /\ workers' = [workers EXCEPT ![w].pc = "replied",
                                          ![w].result = "error"]
            /\ UNCHANGED <<pending, toAdapter>>
    /\ at' = "loop"
    /\ UNCHANGED <<session, breakpoints, conditions, inspection, client>>

\* The worker takes its next job.
Rested(w) == [workers EXCEPT ![w].pc = "idle", ![w].job = NoJob,
                             ![w].result = "none", ![w].data = 0]

\* complete_inspection: a job dropped with its stop is answered already.
OnInspectDone ==
    LET me == workers["inspection"] IN
    /\ TakeWork("inspection", "done")
    /\ IF me.job \in inspection.waiting
       THEN /\ inspection' = [inspection EXCEPT !.waiting = @ \ {me.job}]
            /\ client' = IF me.result = "ok" /\ InspectionEpoch = me.job.epoch
                         THEN AnswerWithData(client, me.job.cause, me.data)
                         ELSE Answer(client, {me.job.cause}, "error")
       ELSE UNCHANGED <<inspection, client>>
    /\ workers' = Rested("inspection")
    /\ at' = "loop"
    /\ UNCHANGED <<session, pending, breakpoints, conditions, toAdapter>>

IgnoreDone(w) ==
    /\ TakeWork(w, "done")
    /\ workers' = Rested(w)
    /\ at' = "loop"
    /\ UNCHANGED <<session, pending, breakpoints, conditions, inspection,
                   client, toAdapter>>

\* A set of breakpoints that is only partly installed ends the session.
RaiseDone(w) ==
    /\ TakeWork(w, "done")
    /\ Raise(client, pending, Rested(w))

\* complete_functions: the bindings take the conditions of the request that is
\* active now, which must have as many points as the worker installed.
OnFunctionDone ==
    LET me == workers["function"]
        matches == breakpoints.requested = "none" <=> me.job.kind = "none"
    IN
    IF breakpoints.function = NoRequest THEN IgnoreDone("function")
    ELSE IF me.result # "ok" \/ ~matches THEN RaiseDone("function")
    ELSE /\ TakeWork("function", "done")
         /\ conditions' = [conditions EXCEPT !.bindings["function"] =
                              breakpoints.requested]
         /\ breakpoints' = [breakpoints EXCEPT !.function = NoRequest,
                                               !.requested = "none"]
         /\ client' = Answer(client, {breakpoints.function}, "ok")
         /\ workers' = Rested("function")
         /\ UNCHANGED <<session, pending, inspection, toAdapter>>
         /\ EnterDrain

\* complete_panic: request 0 is the default installation nobody asked for.
OnPanicDone ==
    LET me == workers["panic"] IN
    IF breakpoints.panic = None THEN IgnoreDone("panic")
    ELSE IF me.result # "ok" THEN RaiseDone("panic")
    ELSE /\ TakeWork("panic", "done")
         /\ breakpoints' = [breakpoints EXCEPT !.panic = None,
                               !.panicConfigured = TRUE,
                               !.panicInstalled = me.job.kind # "none"]
         /\ client' = Answer(client, {breakpoints.panic} \cap Requests, "ok")
         /\ workers' = Rested("panic")
         /\ UNCHANGED <<session, pending, conditions, inspection, toAdapter>>
         /\ EnterDrain

\* complete_condition: only a condition that is false resumes the target; an
\* error keeps the stop.
OnConditionDone ==
    LET me == workers["condition"]
        job == conditions.active
    IN
    IF ConditionEpoch # me.job.epoch THEN IgnoreDone("condition")
    ELSE /\ TakeWork("condition", "done")
         /\ IF me.result = "false"
            THEN /\ session' = [session EXCEPT !.stopped = FALSE,
                                               !.revision = @ + 1]
                 /\ conditions' = [conditions EXCEPT !.active = NoJob,
                                                     !.suppress = TRUE]
                 /\ client' = AnswerStale(client)
                 /\ inspection' = NoInspection
                 /\ workers' = Release(Rested("condition"),
                                       {"inspection", "condition"})
                 /\ Send(pending, Outgoing(FreshSeq(pending), NoRequest,
                            "continue", "conditionContinue", "none", job.stop,
                            0, session.revision + 1))
            ELSE /\ conditions' = [conditions EXCEPT !.active = NoJob]
                 /\ client' = TellStopped(client, job.stop)
                 /\ workers' = Rested("condition")
                 /\ UNCHANGED <<session, inspection, pending, toAdapter>>
         /\ UNCHANGED breakpoints
         /\ EnterDrain

OnWork ==
    \/ \E w \in Workers : OnRead(w)
    \/ OnInspectDone
    \/ OnFunctionDone
    \/ OnPanicDone
    \/ OnConditionDone

-----------------------------------------------------------------------------
(* The loop's deadline and its end.                                          *)

\* There is a deadline while a request is open, until configurationDone, and
\* once the session has ended or is closing.
\* Mutation: requests have no deadline of their own.
HasSessionDeadline ==
    ~session.configured \/ session.ended \/ session.closing
HasDeadline ==
    \/ pending # {} \/ ~session.configured
    \/ session.ended \/ session.closing

Timeout ==
    /\ at = "loop" /\ HasDeadline
    /\ \/ /\ session.ended /\ ~session.closing
          /\ at' = "shutdown"
          /\ UNCHANGED <<session, pending, breakpoints, conditions, inspection,
                         workers, client, toAdapter>>
       \/ /\ ~(session.ended /\ ~session.closing) /\ "timeout" \in Faults
          /\ Raise(client, pending, workers)
    /\ UNCHANGED <<fromClient, fromAdapter, target>>

\* Unless lldb-dap has confirmed a disconnect of the editor ("closed"), it is
\* asked to disconnect, and to terminate the target, in nobody's name.  The loop
\* drops what it hears until the answer comes, 3 seconds at most: all of that is
\* one step here.  The editor gets its `terminated` if it has none yet.
ShutdownRequest == Outgoing(FreshSeq(pending), NoRequest, "disconnect", "client",
                            "none", NoStop, 0, session.revision)
Shutdown ==
    /\ at \in {"shutdown", "closed"}
    /\ at' = "over"
    /\ pending' = IF at = "closed" THEN pending ELSE pending \cup {ShutdownRequest}
    /\ client' = TellTerminated(client)
    /\ session' = Finished(session)
    /\ target' = [target EXCEPT !.state = "gone", !.alive = FALSE]
    /\ toAdapter' = <<>>
    /\ fromAdapter' = <<>>
    /\ UNCHANGED <<breakpoints, conditions, inspection, workers, fromClient>>

-----------------------------------------------------------------------------
(* The editor (external).  It may send any request at any time, with the      *)
(* frame handle it was given last, and may close its end once.               *)

Request(seq, command, kind) ==
    [seq |-> seq, command |-> command, kind |-> kind, frame |-> client.frame]

\* What a breakpoint request may ask for.
KindsOf(command) ==
    CASE command \in {"setBreakpoints", "setFunctionBreakpoints"} -> AskedKinds
      [] command = "setExceptionBreakpoints" -> AskedKinds \ {"conditional"}
      [] OTHER -> {"none"}

ClientSends ==
    /\ at # "over" /\ client.next \in Requests /\ ~client.left
    /\ \E command \in Commands : \E kind \in KindsOf(command) :
          fromClient' = Append(fromClient, Request(client.next, command, kind))
    /\ client' = [client EXCEPT !.next = @ + 1]
    /\ UNCHANGED <<at, session, pending, breakpoints, conditions, inspection,
                   workers, toAdapter, fromAdapter, target>>

ClientLeaves ==
    /\ at # "over" /\ "eof" \in Faults /\ ~client.left
    /\ fromClient' = Append(fromClient, Request(client.next, "eof", "none"))
    /\ client' = [client EXCEPT !.left = TRUE]
    /\ UNCHANGED <<at, session, pending, breakpoints, conditions, inspection,
                   workers, toAdapter, fromAdapter, target>>

-----------------------------------------------------------------------------
(* lldb-dap and the debuggee (external).  It handles one request at a time.   *)

Message(type, p, ok, value, stop) ==
    [type |-> type, request |-> p, ok |-> ok, value |-> value,
     data |-> target.no, stop |-> stop]
Reply(p, ok) == Message("response", p, ok, IF ok THEN "ok" ELSE "error", NoStop)
Event(type) == Message(type, NoOutgoing, TRUE, "none", NoStop)
StopEvent(stop) == Message("stopped", NoOutgoing, TRUE, "none", stop)

\* lldb-dap takes request p and writes these messages.
Handle(p, messages, t) ==
    /\ target.alive /\ target.busy = NoOutgoing
    /\ toAdapter # <<>> /\ p = Head(toAdapter)
    /\ toAdapter' = Tail(toAdapter)
    /\ fromAdapter' = fromAdapter \o messages
    /\ target' = t
    /\ UNCHANGED <<at, session, pending, breakpoints, conditions, inspection,
                   workers, client, fromClient>>

\* Initialize, and the two ways lldb-dap versions answer launch: at once, or
\* after configurationDone.
AdapterLaunches(p) ==
    \/ /\ p.command = "initialize"
       /\ Handle(p, <<Reply(p, TRUE)>>, target)
    \/ /\ p.command = "launch"
       /\ \/ Handle(p, <<Reply(p, TRUE), Event("initialized")>>, target)
          \/ Handle(p, <<Event("initialized")>>, [target EXCEPT !.launch = p])
    \/ /\ p.command = "configurationDone"
       /\ Handle(p, IF target.launch = NoOutgoing THEN <<Reply(p, TRUE)>>
                    ELSE <<Reply(p, TRUE), Reply(target.launch, TRUE)>>,
                 [target EXCEPT !.state = "running", !.launch = NoOutgoing])

AdapterRefuses(p) ==
    \/ /\ "launch" \in Faults
       /\ p.command \in {"initialize", "launch", "configurationDone"}
       /\ Handle(p, <<Reply(p, FALSE)>>, target)
    \/ /\ "reject" \in Faults
       /\ \/ p.command \in {"setBreakpoints", "continue", "next", "pause",
                            "disconnect"}
          \/ p.use \in {"function", "panic"}
       /\ Handle(p, <<Reply(p, FALSE)>>, target)

\* A breakpoint is in the target before its installation is answered: a running
\* target can hit it in between.
Installs(p) ==
    LET installer(seq) == IF p.kind = "none" THEN NoRequest ELSE seq
        done == [target EXCEPT !.busy = p]
    IN
    \/ /\ p.command = "setBreakpoints"
       /\ Handle(p, <<>>, [done EXCEPT !.source = installer(p.client)])
    \/ /\ p.use = "function"
       /\ Handle(p, <<>>, [done EXCEPT !.function = installer(p.cause)])
    \/ /\ p.use = "panic"
       /\ Handle(p, <<>>, [done EXCEPT !.panic = p.kind # "none"])

\* Frames and variables exist only while the target is stopped.  A condition is
\* evaluated at the stop it is asked for; elsewhere its value means nothing.
Inspects(p) ==
    LET stopped == target.state = "stopped" IN
    \/ /\ p.command = "stackTrace" \/ p.use = "inspection"
       /\ Handle(p, <<Reply(p, stopped)>>, target)
    \/ /\ p.use = "condition"
       /\ \E holds \in IF target.no = p.stop.no THEN {p.stop.holds} ELSE BOOLEAN :
             Handle(p, <<Message("response", p, stopped,
                           IF ~stopped THEN "error"
                           ELSE IF holds THEN "true" ELSE "false", NoStop)>>,
                    target)
    \/ /\ p.command = "threads"
       /\ Handle(p, <<Reply(p, TRUE)>>, target)

\* lldb-dap's event thread reports `continued` on its own, before or after the
\* response or not at all, and can report the next stop before the response.
Continues(p) ==
    LET running == [target EXCEPT !.state = "running"] IN
    /\ Resumes(p.command)
    /\ IF target.state = "stopped"
       THEN \/ \E events \in {<<>>, <<Event("continued")>>} :
                  Handle(p, events, [running EXCEPT !.busy = p])
            \/ Handle(p, <<Reply(p, TRUE), Event("continued")>>, running)
       ELSE Handle(p, <<Reply(p, FALSE)>>, target)

Halts(p) ==
    LET halted == [target EXCEPT !.state = "stopped", !.no = @ + 1]
        stop == StopEvent([NoStop EXCEPT !.no = target.no + 1])
    IN
    /\ p.command = "pause"
    /\ IF target.state = "running"
       THEN \/ Handle(p, <<Reply(p, TRUE), stop>>, halted)
            \/ Handle(p, <<stop, Reply(p, TRUE)>>, halted)
       ELSE \E ok \in BOOLEAN : Handle(p, <<Reply(p, ok)>>, target)

Leaves(p) ==
    /\ p.command = "disconnect"
    /\ \E events \in {<<>>, <<Event("terminated")>>} :
          Handle(p, Append(events, Reply(p, TRUE)),
                 [target EXCEPT !.state = "gone"])

Adapter ==
    /\ toAdapter # <<>>
    /\ LET p == Head(toAdapter) IN
        \/ AdapterLaunches(p)
        \/ AdapterRefuses(p)
        \/ Installs(p)
        \/ Inspects(p)
        \/ Continues(p)
        \/ Halts(p)
        \/ Leaves(p)

\* Breakpoints that exist in the target, and who asked for those hit.
Installed ==
    {b \in HitKinds :
        CASE b = "source" -> target.source # NoRequest
          [] b = "function" -> target.function # NoRequest
          [] b = "panic" -> target.panic}
InstallersOf(ids) ==
    (IF "source" \in ids THEN {target.source} ELSE {})
        \cup (IF "function" \in ids THEN {target.function} ELSE {})

TargetMoves(messages, t) ==
    /\ target.alive
    /\ fromAdapter' = fromAdapter \o messages
    /\ target' = t
    /\ UNCHANGED <<at, session, pending, breakpoints, conditions, inspection,
                   workers, client, fromClient, toAdapter>>

StopsAt(ids, holds) ==
    [no |-> target.no + 1, ids |-> ids, holds |-> holds, by |-> InstallersOf(ids)]

\* The answer to an installation or a resume that is done.
AdapterAnswers ==
    /\ target.busy # NoOutgoing
    /\ TargetMoves(<<Reply(target.busy, TRUE)>>,
                   [target EXCEPT !.busy = NoOutgoing])

\* The debuggee stops: at breakpoints, or for a signal or a finished step (no
\* IDs).  lldb-dap reports a stop once for each thread with a reason to stop.
TargetStops ==
    LET stopped == [target EXCEPT !.state = "stopped", !.no = @ + 1] IN
    /\ target.state = "running" /\ target.no < MaxStops
    /\ \E ids \in {i \in HitSets : i \subseteq Installed} :
       \E holds \in IF ids = {} THEN {FALSE} ELSE BOOLEAN :
          \/ TargetMoves(<<StopEvent(StopsAt(ids, holds))>>, stopped)
          \/ /\ PairedStops
             /\ \E more \in {i \in HitSets : i \subseteq Installed} :
                \E also \in IF more = {} THEN {FALSE} ELSE BOOLEAN :
                   TargetMoves(<<StopEvent(StopsAt(ids, holds)),
                                 StopEvent(StopsAt(more, also))>>, stopped)

TargetExits ==
    /\ target.state = "running"
    /\ TargetMoves(<<Event("exited"), Event("terminated")>>,
                   [target EXCEPT !.state = "gone"])

\* The adapter dies and its pipe breaks.
Crash ==
    /\ "crash" \in Faults
    /\ TargetMoves(<<Event("failed")>>,
                   [target EXCEPT !.state = "gone", !.alive = FALSE])

-----------------------------------------------------------------------------
Worker(w) == WorkerStart(w) \/ WorkerFinish(w) \/ WorkerTimeout(w)

Next ==
    \/ OnClient
    \/ OnAdapter
    \/ OnWork
    \/ DrainStop
    \/ DrainRequest
    \/ Timeout
    \/ Shutdown
    \/ \E w \in Workers : Worker(w)
    \/ ClientSends
    \/ ClientLeaves
    \/ Adapter
    \/ AdapterAnswers
    \/ TargetStops
    \/ TargetExits
    \/ Crash

Spec == Init /\ [][Next]_vars

\* The runtime runs the loop and the workers, the inbox is a queue that loses
\* nothing, and a deadline fires.  Neither the editor, nor lldb-dap, nor the
\* debuggee owes anything.
Fairness ==
    /\ WF_vars(OnClient) /\ WF_vars(OnAdapter) /\ WF_vars(OnWork)
    /\ WF_vars(DrainStop) /\ WF_vars(DrainRequest)
    /\ WF_vars(Timeout) /\ WF_vars(Shutdown)
    /\ \A w \in Workers : WF_vars(WorkerStart(w)) /\ WF_vars(WorkerFinish(w))

FairSpec == Spec /\ Fairness

-----------------------------------------------------------------------------
(* Types.                                                                    *)

Places == {"loop", "drain", "shutdown", "closed", "over"}
Outcomes == {"none", "ok", "error"}
Results == {"none", "ok", "error", "true", "false"}
Stops == [no : Nat, ids : SUBSET HitKinds, holds : BOOLEAN,
          by : SUBSET Requests]
Jobs == [cause : Requests \cup {NoRequest}, epoch : Nat \cup {None},
         frame : Nat \cup {None},
         kind : Kinds, stop : Stops]
RequestRecords ==
    [seq : Nat, command : AllCommands \cup {"eof"}, kind : Kinds,
     frame : Nat \cup {None}]
Outgoings ==
    [seq : Nat, client : Requests \cup {NoRequest},
     command : AllCommands \cup {"initialize", "launch", "work", "none"},
     use : Workers \cup {"client", "stopContext", "conditionContinue", "none"},
     kind : Kinds, stop : Stops, cause : Requests \cup {NoRequest},
     revision : Nat]

\* Every variable keeps its type.
TypeOK ==
    /\ at \in Places
    /\ session \in
          [ready : BOOLEAN, configured : BOOLEAN, launchAnswered : BOOLEAN,
           stopped : BOOLEAN, revision : Nat, pauseRevision : Nat \cup {None},
           exited : BOOLEAN, ended : BOOLEAN, closing : BOOLEAN]
    /\ pending \subseteq Outgoings
    /\ breakpoints.function \in Requests \cup {NoRequest}
    /\ breakpoints.requested \in Kinds \ {"invalid"}
    /\ breakpoints.panic \in Requests \cup {0, None}
    /\ breakpoints.deferred \in Seq(RequestRecords)
    /\ breakpoints.stops \in Seq(Stops)
    /\ conditions.active \in Jobs
    /\ conditions.bindings \in
          [{"source", "function"} -> Kinds \ {"invalid"}]
    /\ inspection.waiting \subseteq Jobs
    /\ \A w \in Workers :
          /\ workers[w].pc \in {"idle", "read", "wait", "replied", "done"}
          /\ workers[w].job \in Jobs /\ workers[w].queue \in Seq(Jobs)
          /\ workers[w].result \in Results
    /\ client.answers \in [Requests -> Nat]
    /\ client.outcome \in [Requests -> Outcomes]
    /\ client.view \in {"running", "stopped", "gone"}
    /\ fromClient \in Seq(RequestRecords)
    /\ toAdapter \in Seq(Outgoings)
    /\ target.state \in {"none", "running", "stopped", "gone"}

-----------------------------------------------------------------------------
(* Properties.                                                               *)

\* How many parts of the session are responsible for answering request r.
Owners(r) ==
    Cardinality({p \in pending : p.client = r})
    + Cardinality({i \in DOMAIN breakpoints.deferred :
                      breakpoints.deferred[i].seq = r})
    + Cardinality({j \in inspection.waiting : j.cause = r})
    + (IF breakpoints.function = r THEN 1 ELSE 0)
    + (IF breakpoints.panic = r THEN 1 ELSE 0)

Taken(r) == /\ r < client.next
            /\ \A i \in DOMAIN fromClient : fromClient[i].seq # r

\* A request the loop has taken is answered, or exactly one part of the session
\* still owes its answer: no request is lost between the router, the deferred
\* queue and the workers, and none is answered twice.
Accounted ==
    at \in {"loop", "drain"} =>
        /\ \A r \in Requests \ {Launch} :
              Taken(r) => client.answers[r] + Owners(r) = 1
        /\ client.answers[Launch] = IF session.launchAnswered THEN 1 ELSE 0

\* The error and disconnect paths answer everybody left, and nobody twice.
AnsweredOnce == \A r \in Requests : client.answers[r] <= 1

\* Breakpoint requests the loop knows of and has not answered.
Unanswered ==
    {breakpoints.function, breakpoints.panic}
    \cup {p.client : p \in {q \in pending : q.command = "setBreakpoints"}}
    \cup {breakpoints.deferred[i].seq : i \in {j \in DOMAIN breakpoints.deferred :
             breakpoints.deferred[j].command \in
                {"setBreakpoints", "setFunctionBreakpoints",
                 "setExceptionBreakpoints"}}}

\* "Execution cannot outrun installation" (live_requests.mbt:81): when the loop
\* forwards a resume, no breakpoint request sent before it is unanswered.
ExecutionOrdered ==
    [][\A p \in pending' \ pending :
          (p.client > 0 /\ Resumes(p.command)) =>
              \A q \in Unanswered' : ~(q > 0 /\ q < p.client)]_vars

\* The editor knows the IDs of the breakpoints a stop hit before it is told of
\* the stop (live_events.mbt:225).
BreakpointIdsFirst ==
    client.view = "stopped" =>
        \A r \in client.stop.by : client.answers[r] = 1

\* A stop is skipped only if all it hit is conditional, the conditions are
\* false there, and the editor has not been shown that stop
\* (lldb_dap/condition.mbt:32).
OnlyFalseConditionsSkip ==
    [][\A p \in pending' \ pending :
          p.use = "conditionContinue" =>
              /\ p.stop.ids # {} /\ ~p.stop.holds
              /\ \A b \in p.stop.ids :
                    b # "panic" /\ conditions.bindings[b] = "conditional"
              /\ client.view # "stopped"]_vars

\* Frames and values given to the editor were read at the target's current stop,
\* and values through a frame handle that came with frames of that very stop:
\* handles die with their stop, whatever was queued or under way.
InspectionIsCurrent ==
    [][\A r \in Requests :
          client'.data[r] # client.data[r] =>
              /\ client'.data[r] = target.no
              /\ \A j \in inspection.waiting :
                    j.cause = r => client.data[j.frame] = target.no]_vars

\* Until the program exits, a function breakpoint request succeeds with what was
\* installed for it and for nobody else.  The exit cancels the request that is
\* active, but a result the worker has already got stays under way: it completes
\* the next request that has as many points (live_functions.mbt:168), so after an
\* exit the result may also be that of a request answered before.
FunctionReplyIsOwn ==
    [][(/\ breakpoints.function # NoRequest
        /\ client'.outcome[breakpoints.function] = "ok")
       => LET job == workers["function"].job IN
          \/ job.cause = breakpoints.function
          \/ session.exited /\ client.answers[job.cause] >= 1]_vars

\* Once the editor has asked to disconnect, nothing more is asked of lldb-dap: no
\* launch after a late initialize, no further breakpoint edits.  The one request
\* that may follow is the session's own last one, to disconnect again
\* (live_server.mbt:213), when the loop has ended without hearing that lldb-dap
\* did so for the editor.
SilentAfterDisconnect ==
    [][session.closing =>
          \A p \in pending' \ pending :
              /\ p.command = "disconnect" /\ p.client = NoRequest
              /\ at = "shutdown" /\ at' = "over"]_vars

\* The editor hears `terminated` at most once, and exactly once by the end.
TerminatedOnce ==
    /\ client.terminated <= 1
    /\ at = "over" => client.terminated = 1

\* Nothing is on its way anywhere.
Quiet ==
    /\ at = "loop" /\ fromClient = <<>>
    /\ toAdapter = <<>> /\ fromAdapter = <<>>
    /\ target.busy = NoOutgoing /\ target.alive
    /\ \A w \in Workers : workers[w].pc = "idle" /\ workers[w].queue = <<>>
    /\ ~session.ended /\ ~session.closing

\* When nothing is on its way, the editor, the session and the target agree on
\* whether the target is stopped.
Agreement ==
    Quiet /\ session.configured /\ ~session.exited =>
        /\ client.view = target.state
        /\ session.stopped <=> target.state = "stopped"

\* ... and no stop, no request and no breakpoint work is left behind.
NothingStranded ==
    Quiet => /\ breakpoints.stops = <<>> /\ breakpoints.deferred = <<>>
             /\ ~WorkPending

\* The loop and a worker never wait for each other.  The queues of the function
\* and the panic worker hold one job (Blocking(1)): a put on a full one stops the
\* loop (live_requests.mbt:124, 164, 172), so the worker must be able to take a job
\* without a further read, which goes through the loop (live_functions.mbt:138).
PutsEnd ==
    \A w \in {"function", "panic"} :
        Len(workers[w].queue) > 1 =>
            \/ workers[w].pc \in {"idle", "done"}
            \/ workers[w].pc = "replied" /\ workers[w].result = "error"

\* Every request the editor sends is answered, or the session is over, even
\* when lldb-dap falls silent.
Served ==
    \A r \in Requests :
        r < client.next ~> client.answers[r] = 1 \/ at = "over"

\* A stop the loop has heard of is shown to the editor, unless the target runs
\* on or the session ends.
StopsSurface ==
    session.stopped ~> client.view = "stopped" \/ ~session.stopped

=============================================================================
