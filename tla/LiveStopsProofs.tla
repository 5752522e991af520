-------------------------- MODULE LiveStopsProofs --------------------------
(***************************************************************************)
(* The live session and its target, for any number of requests and stops,    *)
(* any commands and any faults: what is on its way between them, which stop  *)
(* the session is at, and what of it the editor is given.                    *)
(*                                                                         *)
(* A first part says once, for all handlers, what a step of the loop sends   *)
(* and how it moves the revision and the flags; the invariants of the later  *)
(* parts are about what is on its way and build on it.                       *)
(***************************************************************************)
EXTENDS LiveSessionProofs, SequenceTheorems

-----------------------------------------------------------------------------
(* What a step of the loop sends, and how it moves the session.              *)

Working == at \in {"loop", "drain"}

\* The session follows the target: nothing has ended or closed it.
Live == Working /\ ~session.exited /\ ~session.ended /\ ~session.closing

\* What a request in the router is for, and how its answer is recognized.
Address(p) ==
    /\ p.use \in Workers <=> p.command = "work"
    /\ p.use = "stopContext" => p.command = "stackTrace" /\ "panic" \in p.stop.ids
    /\ p.use = "client" /\ p.command = "stackTrace" => p.client \in Requests
    /\ p.use = "conditionContinue" => p.command = "continue"
Addressed == /\ \A p \in pending : Address(p)
             /\ \A i \in 1 .. Len(toAdapter) : Address(toAdapter[i])

\* Request p is sent with a number that no request of ps has.
Goes(p, ps) ==
    /\ p \in Sent
    /\ toAdapter' = Append(toAdapter, p)
    /\ pending' = ps \cup {p}
    /\ \A q \in ps : q.seq # p.seq

\* A worker's request carries what its job is about.
Fetches(p) ==
    /\ workers[p.use].pc = "read" /\ Admits(p.use)
    /\ p.cause = workers[p.use].job.cause /\ p.kind = workers[p.use].job.kind
    /\ p.stop = workers[p.use].job.stop
\* The stop the loop lets through: one it held back, or one it hears of while no
\* breakpoint work holds stops back.
Passes(stop) ==
    \/ /\ at = "drain" /\ breakpoints.stops # <<>>
       /\ stop = Head(breakpoints.stops)
    \/ /\ at = "loop" /\ ~HoldsStop /\ fromAdapter # <<>>
       /\ Head(fromAdapter).type = "stopped" /\ stop = Head(fromAdapter).stop

\* The condition of the stop the session is at was found false.
Skips(p) ==
    /\ p.stop = conditions.active.stop /\ ConditionEpoch # None
    /\ workers["condition"].pc = "done" /\ workers["condition"].result = "false"
    /\ workers["condition"].job.epoch = session.revision
Sends(p) ==
    /\ \E ps \in SUBSET pending : Goes(p, ps)
    /\ ~session.closing
    /\ Address(p)
    /\ p.revision = session'.revision
    /\ p.use = "client" => p.client # NoRequest
    /\ p.use \in Workers => Fetches(p)
    /\ p.use = "stopContext" => Passes(p.stop)
    /\ p.use = "conditionContinue" => Skips(p)
    /\ p.command = "configurationDone" => ~session.configured /\ session'.configured
    /\ p.command = "disconnect" => session'.closing
    /\ Resumes(p.command) => /\ session.stopped /\ ~session'.stopped
                             /\ session'.revision = session.revision + 1
                             /\ inspection' = NoInspection

SendsLittle == \/ toAdapter' = toAdapter /\ pending' \subseteq pending
               \/ \E p : Sends(p)

\* What is over stays over.
Lasts ==
    /\ session.closing => session'.closing
    /\ session.ended => session'.ended
    /\ session.exited => session'.exited
    /\ session.configured => session'.configured
    /\ session'.configured => \/ session.configured
                              \/ \E p : Sends(p) /\ p.command = "configurationDone"
    /\ session.revision <= session'.revision
    /\ Working

Same == session'.stopped = session.stopped /\ session'.revision = session.revision

\* A step that takes no message of lldb-dap: only a resume leaves the stop.
Turn ==
    \/ Same
    \/ \E p : Sends(p) /\ Resumes(p.command)
    \/ /\ conditions.active # NoJob /\ toAdapter' = toAdapter
       /\ session'.stopped = session.stopped
       /\ session'.revision = session.revision + 1
OwnStep == /\ SendsLittle /\ Lasts /\ UNCHANGED <<fromAdapter, target>>
           /\ session'.exited = session.exited
           /\ Live' => Turn

\* A resume that lldb-dap refused and that was the last thing the session did.
Refusal(m) == m.type = "response" /\ ~m.ok /\ Resumes(m.request.command)
Undone(m) == Refusal(m) /\ m.request.revision = session.revision
Follow(m) ==
    /\ m.type = "stopped" => /\ session'.stopped
                             /\ session'.revision = session.revision + 1
    /\ m.type = "continued" => /\ ~session'.stopped
                               /\ session'.revision = session.revision + 1
    /\ m.type \notin {"stopped", "continued"} =>
          /\ session'.revision = session.revision
          /\ session'.stopped = (session.stopped \/ Undone(m))
MessageStep(m) ==
    /\ SendsLittle /\ Lasts /\ UNCHANGED target
    /\ fromAdapter # <<>> /\ m = Head(fromAdapter) /\ m \in Messages
    /\ fromAdapter' = Tail(fromAdapter)
    /\ session'.exited = (session.exited \/ m.type = "exited")
    /\ Live' => Follow(m)

LEMMA Outgoes ==
    ASSUME Types, NEW ps \in SUBSET pending, NEW a \in Requests \cup {NoRequest},
           NEW command \in AllCommands \cup {"initialize", "launch", "work", "none"},
           NEW use \in Workers \cup {"client", "stopContext", "conditionContinue", "none"},
           NEW kind \in KnownKinds, NEW stop \in Stops,
           NEW cause \in Requests \cup {NoRequest}, NEW revision \in Nat,
           Send(ps, Outgoing(FreshSeq(ps), a, command, use, kind, stop, cause, revision))
    PROVE  \E p : /\ Goes(p, ps)
                  /\ p.client = a /\ p.command = command /\ p.use = use
                  /\ p.kind = kind /\ p.stop = stop /\ p.cause = cause
                  /\ p.revision = revision
<1> DEFINE p == Outgoing(FreshSeq(ps), a, command, use, kind, stop, cause, revision)
<1>1. IsFiniteSet(ps)
    BY FS_Subset DEF Types
<1>2. FreshSeq(ps) \in Nat /\ \A q \in ps : q.seq # FreshSeq(ps)
    BY <1>1, FreshIsNew
<1>3. p \in Sent
    BY <1>2, OutgoingTyped
<1>4. /\ p.seq = FreshSeq(ps) /\ p.client = a /\ p.command = command /\ p.use = use
      /\ p.kind = kind /\ p.stop = stop /\ p.cause = cause /\ p.revision = revision
    BY DEF Outgoing
<1>5. Send(ps, p)
    OBVIOUS
<1> HIDE DEF p
<1>6. Goes(p, ps)
    BY <1>2, <1>3, <1>4, <1>5 DEF Goes, Send
<1> QED BY <1>4, <1>6

\* A request of the editor that is passed on.
LEMMA Forwards ==
    ASSUME Types, NEW req \in Asks, req.kind \in KnownKinds, Forward(req, req.command)
    PROVE  \E p : /\ Goes(p, pending)
                  /\ p.client = req.seq /\ p.command = req.command /\ p.use = "client"
                  /\ p.kind = req.kind /\ p.revision = session.revision
                  /\ Address(p)
<1>1. /\ req.seq \in Requests /\ req.command \in AllCommands /\ session.revision \in Nat
      /\ "client" \notin Workers /\ req.command # "work"
    BY DEF Asks, Types, Flags, Workers, AllCommands
<1>2. Send(pending, Outgoing(FreshSeq(pending), req.seq, req.command, "client",
                             req.kind, NoStop, 0, session.revision))
    BY DEF Forward
<1>3. 0 \in Requests \cup {NoRequest}
    BY DEF NoRequest
<1>4. PICK p : /\ Goes(p, pending)
               /\ p.client = req.seq /\ p.command = req.command /\ p.use = "client"
               /\ p.kind = req.kind /\ p.revision = session.revision
    BY <1>1, <1>2, <1>3, Outgoes, Values
<1> QED BY <1>1, <1>4 DEF Address

\* A resume of the editor is passed on with the revision it leads to.
LEMMA ResumeSends ==
    ASSUME Types, NEW r \in Requests, NEW c \in AllCommands, NEW n \in Nat,
           Send(pending, Outgoing(FreshSeq(pending), r, c, "client", "none", NoStop, 0, n))
    PROVE  \E p : /\ Goes(p, pending) /\ p.client = r /\ p.command = c
                  /\ p.use = "client" /\ p.revision = n
<1> DEFINE p == Outgoing(FreshSeq(pending), r, c, "client", "none", NoStop, 0, n)
<1>1. IsFiniteSet(pending) /\ "none" \in KnownKinds /\ 0 \in Requests \cup {NoRequest}
    BY DEF Types, KnownKinds, Kinds, NoRequest
<1>2. FreshSeq(pending) \in Nat /\ \A q \in pending : q.seq # FreshSeq(pending)
    BY <1>1, FreshIsNew
<1>3. p \in Sent /\ p.seq = FreshSeq(pending)
    BY <1>1, <1>2, Values DEF Outgoing, Sent
<1>4. Goes(p, pending)
    BY <1>2, <1>3 DEF Send, Goes
<1> QED BY <1>4 DEF Outgoing

\* A step that sends nothing and leaves the flags alone.
LEMMA Standing ==
    ASSUME Types, Working, UNCHANGED <<session, toAdapter, fromAdapter, target>>,
           pending' \subseteq pending
    PROVE  OwnStep
BY DEF OwnStep, SendsLittle, Lasts, Turn, Same, Types, Flags

LEMMA ForwardSteps ==
    ASSUME Types, Working, ~session.closing, NEW req \in Asks, req.kind \in KnownKinds,
           Forward(req, req.command), ~Resumes(req.command),
           session'.stopped = session.stopped, session'.revision = session.revision,
           session'.exited = session.exited, session'.ended = session.ended,
           \/ session'.closing = session.closing /\ req.command # "disconnect"
           \/ session'.closing,
           \/ session'.configured = session.configured /\ req.command # "configurationDone"
           \/ /\ ~session.configured /\ session'.configured
              /\ req.command = "configurationDone",
           UNCHANGED <<fromAdapter, target>>
    PROVE  OwnStep
<1>1. PICK p : /\ Goes(p, pending) /\ p.command = req.command /\ p.use = "client"
               /\ p.revision = session.revision /\ Address(p) /\ p.client = req.seq
    BY Forwards
<1>2. session.revision \in Nat /\ session \in Flags /\ req.seq # NoRequest
    BY DEF Types, Flags, Asks, Requests, NoRequest
<1>3. Sends(p)
    BY <1>1, <1>2 DEF Sends, Workers
<1> QED BY <1>1, <1>2, <1>3 DEF OwnStep, SendsLittle, Lasts, Turn, Same

LEMMA PerformSteps ==
    ASSUME Types, Working, ~session.closing, NEW req \in Asks,
           NEW b \in BreakpointStates, Perform(req, b),
           UNCHANGED <<fromAdapter, target>>
    PROVE  OwnStep
<1>1. /\ session \in Flags /\ session.revision \in Nat
      /\ req.command \notin Edits \/ Valid(req) => req.kind \in KnownKinds
    BY DEF Types, Flags, Asks, Valid, KnownKinds
<1>2. ASSUME NEW o, ReplyAtOnce(req, o, b)
      PROVE  OwnStep
    BY <1>2, Standing DEF ReplyAtOnce
<1>3. CASE Refused(req) /\ ReplyAtOnce(req, "error", b)
    BY <1>2, <1>3
<1>4. CASE ReplaceFunctions(req, b) \/ ReplacePanic(req, b) \/ Variables(req, b)
    BY <1>4, Standing DEF ReplaceFunctions, ReplacePanic, Variables
<1>5. CASE ReplaceSources(req, b) \/ StackTrace(req, b)
    <2>1. /\ Forward(req, req.command) /\ session' = session
          /\ req.command \in {"setBreakpoints", "stackTrace"}
          /\ req.kind \in KnownKinds
        BY <1>1, <1>5 DEF ReplaceSources, StackTrace, Edits
    <2> QED BY <2>1, ForwardSteps DEF Resumes
<1>6. CASE ConfigurationDone(req, b)
    <2>1. CASE b.panicConfigured
        <3>1. /\ session' = [session EXCEPT !.configured = TRUE]
              /\ Forward(req, req.command) /\ ~session.configured
              /\ req.command = "configurationDone" /\ req.kind \in KnownKinds
            BY <1>1, <1>6, <2>1 DEF ConfigurationDone, Edits
        <3>2. /\ session'.stopped = session.stopped /\ session'.revision = session.revision
              /\ session'.exited = session.exited /\ session'.ended = session.ended
              /\ session'.closing = session.closing /\ session'.configured
            BY <1>1, <3>1 DEF Flags
        <3> QED BY <3>1, <3>2, ForwardSteps DEF Resumes
    <2>2. CASE ~b.panicConfigured
        BY <1>6, <2>2, Standing DEF ConfigurationDone
    <2> QED BY <2>1, <2>2
<1>7. CASE Threads(req, b)
    <2>1. CASE ReplyAtOnce(req, "ok", b)
        BY <1>2, <2>1
    <2>2. CASE ~ReplyAtOnce(req, "ok", b)
        <3>1. /\ Forward(req, req.command) /\ session' = session
              /\ req.command = "threads" /\ req.kind \in KnownKinds
            BY <1>1, <1>7, <2>2 DEF Threads, Edits
        <3> QED BY <3>1, ForwardSteps DEF Resumes
    <2> QED BY <2>1, <2>2
<1>8. CASE Resume(req, b)
    <2>1. /\ session' = [session EXCEPT !.stopped = FALSE,
                                        !.revision = session.revision + 1]
          /\ Send(pending, Outgoing(FreshSeq(pending), req.seq, req.command, "client",
                              "none", NoStop, 0, session.revision + 1))
          /\ session.stopped /\ Resumes(req.command)
        BY <1>8 DEF Resume, CanResume
    <2>6. inspection' = NoInspection
        BY <1>8 DEF Resume
    <2>2. /\ session'.stopped = FALSE /\ session'.revision = session.revision + 1
          /\ session'.exited = session.exited /\ session'.ended = session.ended
          /\ session'.closing = session.closing /\ session'.configured = session.configured
        BY <1>1, <2>1 DEF Flags
    <2>3. /\ req.seq \in Requests /\ req.command \in AllCommands
          /\ session.revision + 1 \in Nat /\ 0 \in Requests \cup {NoRequest}
          /\ "none" \in KnownKinds
        BY <1>1 DEF Asks, KnownKinds, Kinds, NoRequest
    <2>7. /\ req.seq # NoRequest
          /\ "client" \notin Workers /\ req.command # "work"
        BY DEF Asks, Requests, NoRequest, Workers, AllCommands
    <2>4. PICK p : /\ Goes(p, pending) /\ p.command = req.command /\ p.use = "client"
                   /\ p.revision = session.revision + 1 /\ p.client = req.seq
        <3> DEFINE r == req.seq
                   c == req.command
                   n == session.revision + 1
        <3>1. Send(pending, Outgoing(FreshSeq(pending), r, c, "client", "none", NoStop, 0, n))
            BY <2>1
        <3>2. r \in Requests /\ c \in AllCommands /\ n \in Nat
            BY <2>3
        <3> HIDE DEF r, c, n
        <3>3. \E p : /\ Goes(p, pending) /\ p.client = r /\ p.command = c
                     /\ p.use = "client" /\ p.revision = n
            BY <3>1, <3>2, ResumeSends
        <3> QED BY <3>3 DEF r, c, n
    <2>5. Sends(p) /\ Resumes(p.command)
        BY <2>1, <2>2, <2>3, <2>4, <2>6, <2>7 DEF Sends, Address, Resumes
    <2> QED BY <1>1, <2>2, <2>5 DEF OwnStep, SendsLittle, Lasts, Turn
<1>9. CASE Pause(req, b)
    <2>1. /\ session' = [session EXCEPT !.pauseRevision = session.revision]
          /\ Forward(req, req.command) /\ req.command = "pause"
          /\ req.kind \in KnownKinds
        BY <1>1, <1>9 DEF Pause, Edits
    <2>2. /\ session'.stopped = session.stopped /\ session'.revision = session.revision
          /\ session'.exited = session.exited /\ session'.ended = session.ended
          /\ session'.closing = session.closing /\ session'.configured = session.configured
        BY <1>1, <2>1 DEF Flags
    <2> QED BY <2>1, <2>2, ForwardSteps DEF Resumes
<1> QED BY <1>3, <1>4, <1>5, <1>6, <1>7, <1>8, <1>9 DEF Perform

LEMMA ClientSteps ==
    ASSUME Types, OnClient
    PROVE  OwnStep
<1> SUFFICES ASSUME NEW req, req = Head(fromClient), fromClient # <<>>,
                    \/ DeferRequest(req) \/ InterruptCondition(req)
                    \/ PerformRequest(req) \/ Disconnect(req)
                    \/ RefuseWhileClosing(req) \/ ClientEof(req)
             PROVE  OwnStep
    BY DEF OnClient
<1>1. /\ req \in Asks \cup Eofs
      /\ req.command # "eof" => req \in Asks
      /\ breakpoints \in BreakpointStates /\ session \in Flags /\ session.revision \in Nat
    BY HeadTyped DEF Types, Eofs, Flags
<1>2. Working /\ UNCHANGED <<fromAdapter, target>>
    BY DEF Working, DeferRequest, InterruptCondition, PerformRequest, Disconnect,
       RefuseWhileClosing, ClientEof, TakeRequest
<1>3. CASE DeferRequest(req) \/ RefuseWhileClosing(req) \/ ClientEof(req)
    BY <1>2, <1>3, Standing DEF DeferRequest, RefuseWhileClosing, ClientEof, ReplyAtOnce
<1>4. CASE InterruptCondition(req)
    <2>1. /\ session' = [session EXCEPT !.revision = @ + 1]
          /\ UNCHANGED <<pending, toAdapter>> /\ conditions.active # NoJob
        BY <1>4 DEF InterruptCondition
    <2>2. /\ session'.stopped = session.stopped
          /\ session'.revision = session.revision + 1
          /\ session'.exited = session.exited /\ session'.ended = session.ended
          /\ session'.closing = session.closing
          /\ session'.configured = session.configured
        BY <1>1, <2>1 DEF Flags
    <2> QED BY <1>1, <1>2, <2>1, <2>2 DEF OwnStep, SendsLittle, Lasts, Turn
<1>5. CASE PerformRequest(req)
    <2>2. req.command # "eof" /\ ~session.closing /\ Perform(req, breakpoints)
        BY <1>5 DEF PerformRequest
    <2>1. req \in Asks
        BY <1>1, <2>2
    <2> QED BY <1>1, <1>2, <2>1, <2>2, PerformSteps
<1>6. CASE Disconnect(req)
    <2>0. /\ req.command = "disconnect" /\ ~session.closing
          /\ Forward(req, req.command)
          /\ session' = [session EXCEPT !.closing = TRUE, !.launchAnswered = TRUE]
        BY <1>6 DEF Disconnect
    <2>1. req \in Asks /\ req.kind \in KnownKinds
        BY <1>1, <2>0 DEF Asks, KnownKinds, Edits
    <2>2. /\ session'.stopped = session.stopped
          /\ session'.revision = session.revision
          /\ session'.exited = session.exited /\ session'.ended = session.ended
          /\ session'.closing
          /\ session'.configured = session.configured
        BY <1>1, <2>0 DEF Flags
    <2> QED BY <1>2, <2>0, <2>1, <2>2, ForwardSteps DEF Resumes
<1> QED BY <1>3, <1>4, <1>5, <1>6

\* A stop is published: the loop sends at most the question what it is.
LEMMA PublishSends ==
    ASSUME Types, NEW stop \in Stops, NEW c, NEW cond, NEW ws, NEW revision \in Nat,
           PublishStop(stop, c, cond, ws, revision)
    PROVE  \/ toAdapter' = toAdapter /\ pending' = pending
           \/ \E p : /\ Goes(p, pending) /\ p.command = "stackTrace"
                     /\ p.use = "stopContext" /\ p.client = NoRequest
                     /\ p.stop = stop /\ p.revision = revision /\ "panic" \in stop.ids
                     /\ Address(p)
<1>1. CASE breakpoints.panicInstalled /\ "panic" \in stop.ids
    <2>1. Send(pending, Outgoing(FreshSeq(pending), NoRequest, "stackTrace",
                                 "stopContext", "none", stop, 0, revision))
        BY <1>1 DEF PublishStop
    <2>2. 0 \in Requests \cup {NoRequest} /\ "none" \in KnownKinds
          /\ "stackTrace" \in AllCommands /\ "stopContext" \notin Workers
        BY DEF NoRequest, KnownKinds, Kinds, AllCommands, Workers
    <2>3. PICK p : /\ Goes(p, pending) /\ p.command = "stackTrace"
                   /\ p.use = "stopContext" /\ p.client = NoRequest
                   /\ p.stop = stop /\ p.revision = revision
        BY <2>1, <2>2, Outgoes
    <2> QED BY <1>1, <2>2, <2>3 DEF Address
<1>2. CASE ~(breakpoints.panicInstalled /\ "panic" \in stop.ids)
    BY <1>2 DEF PublishStop
<1> QED BY <1>1, <1>2

LEMMA DrainSteps ==
    ASSUME Types, Closed, DrainStop \/ DrainRequest
    PROVE  OwnStep
<1>1. Working /\ ~session.closing /\ UNCHANGED <<fromAdapter, target>>
    BY DEF Working, Closed, DrainStop, DrainRequest
<1>2. breakpoints \in BreakpointStates /\ session.revision \in Nat /\ session \in Flags
    BY DEF Types, Flags
<1>3. CASE DrainStop
    <2>1. Head(breakpoints.stops) \in Stops
        BY <1>2, <1>3, HeadTyped DEF DrainStop, BreakpointStates
    <2>2. /\ session' = session
          /\ PublishStop(Head(breakpoints.stops), client, conditions, workers,
                         session.revision)
        BY <1>3 DEF DrainStop
    <2>3. CASE toAdapter' = toAdapter /\ pending' = pending
        BY <1>1, <2>2, <2>3, Standing
    <2>4. CASE ~(toAdapter' = toAdapter /\ pending' = pending)
        <3>1. PICK p : /\ Goes(p, pending) /\ p.command = "stackTrace"
                       /\ p.stop = Head(breakpoints.stops)
                       /\ p.revision = session.revision /\ Address(p)
            BY <1>2, <2>1, <2>2, <2>4, PublishSends
        <3>3. Passes(p.stop)
            BY <1>3, <3>1 DEF Passes, DrainStop
        <3>2. Sends(p)
            BY <1>1, <2>2, <3>1, <3>3 DEF Sends, Resumes, Address, Requests, NoRequest
        <3> QED BY <1>1, <1>2, <2>2, <3>2 DEF OwnStep, SendsLittle, Lasts, Turn, Same
    <2> QED BY <2>3, <2>4
<1>4. CASE DrainRequest
    <2>1. Head(breakpoints.deferred) \in Asks
          /\ Tail(breakpoints.deferred) \in Seq(Asks)
        BY <1>2, <1>4, HeadTyped DEF DrainRequest, BreakpointStates
    <2> DEFINE b == [breakpoints EXCEPT !.deferred = Tail(@)]
    <2>2. b \in BreakpointStates
        BY <1>2, <2>1 DEF BreakpointStates
    <2>3. Perform(Head(breakpoints.deferred), b)
        BY <1>4 DEF DrainRequest
    <2> HIDE DEF b
    <2> QED BY <1>1, <2>1, <2>2, <2>3, PerformSteps
<1> QED BY <1>3, <1>4

LEMMA RaiseSends ==
    ASSUME NEW c, NEW ps \in SUBSET pending, NEW ws, Raise(c, ps, ws), Types, Working
    PROVE  /\ at' = "shutdown" /\ SendsLittle /\ Lasts
           /\ session'.exited = session.exited /\ ~Live'
<1>1. /\ session' = [session EXCEPT !.launchAnswered = TRUE]
      /\ pending' = ps /\ toAdapter' = toAdapter /\ at' = "shutdown"
    BY DEF Raise
<1>2. session \in Flags /\ session.revision \in Nat
    BY DEF Types, Flags
<1>3. /\ session'.closing = session.closing /\ session'.ended = session.ended
      /\ session'.exited = session.exited /\ session'.configured = session.configured
      /\ session'.revision = session.revision
    BY <1>1, <1>2 DEF Flags
<1> QED BY <1>1, <1>2, <1>3 DEF SendsLittle, Lasts, Live, Working

LEMMA TimeoutSteps ==
    ASSUME Types, Timeout
    PROVE  OwnStep
<1>1. Working /\ UNCHANGED <<fromAdapter, target>>
    BY DEF Timeout, Working
<1>2. CASE Raise(client, pending, workers)
    BY <1>1, <1>2, RaiseSends DEF OwnStep
<1>3. CASE ~Raise(client, pending, workers)
    BY <1>1, <1>3, Standing DEF Timeout
<1> QED BY <1>2, <1>3

\* A worker's read is sent.
LEMMA WorkSends ==
    ASSUME Types, NEW w \in Workers, NEW job \in Orders,
           Send(pending, Outgoing(FreshSeq(pending), NoRequest, "work", w,
                                  job.kind, job.stop, job.cause, session.revision))
    PROVE  \E p : /\ Goes(p, pending) /\ p.client = NoRequest
                  /\ p.command = "work" /\ p.use = w
                  /\ p.kind = job.kind /\ p.stop = job.stop /\ p.cause = job.cause
                  /\ p.revision = session.revision /\ p.seq = FreshSeq(pending)
<1> DEFINE p == Outgoing(FreshSeq(pending), NoRequest, "work", w,
                         job.kind, job.stop, job.cause, session.revision)
<1>1. /\ job.kind \in KnownKinds /\ job.stop \in Stops
      /\ job.cause \in Requests \cup {NoRequest} /\ session.revision \in Nat
      /\ IsFiniteSet(pending)
    BY DEF Orders, Types, Flags
<1>2. FreshSeq(pending) \in Nat /\ \A q \in pending : q.seq # FreshSeq(pending)
    BY <1>1, FreshIsNew
<1>3. p \in Sent
    BY <1>1, <1>2, OutgoingTyped
<1>4. /\ p.seq = FreshSeq(pending) /\ p.client = NoRequest /\ p.command = "work"
      /\ p.use = w /\ p.kind = job.kind /\ p.stop = job.stop /\ p.cause = job.cause
      /\ p.revision = session.revision
    BY DEF Outgoing
<1>5. Send(pending, p)
    OBVIOUS
<1> HIDE DEF p
<1>6. Goes(p, pending)
    BY <1>2, <1>3, <1>4, <1>5 DEF Goes, Send
<1> QED BY <1>4, <1>6

\* The loop resumes the target because a condition is false.
LEMMA SkipSends ==
    ASSUME Types, NEW stop \in Stops,
           Send(pending, Outgoing(FreshSeq(pending), NoRequest, "continue",
                    "conditionContinue", "none", stop, 0, session.revision + 1))
    PROVE  \E p : /\ Goes(p, pending) /\ p.client = NoRequest
                  /\ p.command = "continue" /\ p.use = "conditionContinue"
                  /\ p.stop = stop /\ p.revision = session.revision + 1
<1> DEFINE p == Outgoing(FreshSeq(pending), NoRequest, "continue",
                    "conditionContinue", "none", stop, 0, session.revision + 1)
<1>1. /\ session.revision + 1 \in Nat /\ IsFiniteSet(pending)
      /\ "none" \in KnownKinds /\ "continue" \in AllCommands
      /\ 0 \in Requests \cup {NoRequest}
    BY DEF Types, Flags, KnownKinds, Kinds, AllCommands, NoRequest
<1>2. FreshSeq(pending) \in Nat /\ \A q \in pending : q.seq # FreshSeq(pending)
    BY <1>1, FreshIsNew
<1>3. p \in Sent
    BY <1>1, <1>2, OutgoingTyped
<1>4. /\ p.seq = FreshSeq(pending) /\ p.client = NoRequest /\ p.command = "continue"
      /\ p.use = "conditionContinue" /\ p.stop = stop
      /\ p.revision = session.revision + 1
    BY DEF Outgoing
<1>5. Send(pending, p)
    OBVIOUS
<1> HIDE DEF p
<1>6. Goes(p, pending)
    BY <1>2, <1>3, <1>4, <1>5 DEF Goes, Send
<1> QED BY <1>4, <1>6

LEMMA ReadSends ==
    ASSUME SafetyInv, NEW w \in Workers, OnRead(w), Admits(w)
    PROVE  \E p : /\ Sends(p) /\ Goes(p, pending) /\ p.command = "work" /\ p.use = w
                  /\ p.revision = session.revision /\ p.seq = FreshSeq(pending)
<1> DEFINE job == workers[w].job
<1>1. /\ Types /\ session \in Flags /\ session.revision \in Nat
      /\ workers \in [Workers -> WorkerStates] /\ pending \in SUBSET pending
    BY DEF SafetyInv, Types, Flags
<1>2. /\ Send(pending, Outgoing(FreshSeq(pending), NoRequest, "work", w,
                  job.kind, job.stop, job.cause, session.revision))
      /\ session' = session /\ workers[w].pc = "read"
    BY DEF OnRead, TakeWork
<1>3. job \in Orders
    BY <1>1 DEF WorkerStates
<1> HIDE DEF job
<1>4. ~session.closing
    BY <1>2, NothingAdmitted DEF OnRead, TakeWork
<1>5. PICK p : /\ Goes(p, pending) /\ p.command = "work" /\ p.use = w
               /\ p.revision = session.revision /\ p.seq = FreshSeq(pending)
               /\ p.cause = job.cause /\ p.kind = job.kind /\ p.stop = job.stop
    BY <1>1, <1>2, <1>3, WorkSends
<1>6. Fetches(p)
    BY <1>2, <1>5 DEF Fetches, job
<1>7. w \notin {"client", "stopContext", "conditionContinue"}
    BY DEF Workers
<1>8. Sends(p)
    BY <1>1, <1>2, <1>4, <1>5, <1>6, <1>7 DEF Sends, Address, Resumes
<1> QED BY <1>5, <1>8

LEMMA WorkSteps ==
    ASSUME SafetyInv, OnWork
    PROVE  OwnStep
<1>1. /\ Types /\ Working /\ UNCHANGED <<fromAdapter, target>>
      /\ session \in Flags /\ session.revision \in Nat
      /\ workers \in [Workers -> WorkerStates] /\ pending \in SUBSET pending
      /\ Workers = {"inspection", "function", "panic", "condition"}
    BY Values DEF OnWork, Working, OnRead, OnInspectDone, OnFunctionDone, OnPanicDone,
       OnConditionDone, IgnoreDone, RaiseDone, TakeWork, SafetyInv, Types, Flags
<1>2. ASSUME NEW w \in Workers, IgnoreDone(w) \/ RaiseDone(w)
      PROVE  OwnStep
    <2>1. CASE IgnoreDone(w)
        BY <1>1, <2>1, Standing DEF IgnoreDone
    <2>2. CASE RaiseDone(w)
        BY <1>1, <2>2, RaiseSends DEF RaiseDone, OwnStep
    <2> QED BY <1>2, <2>1, <2>2
<1>3. ASSUME NEW w \in Workers, OnRead(w)
      PROVE  OwnStep
    <2>1. CASE ~Admits(w)
        BY <1>1, <1>3, <2>1, Standing DEF OnRead
    <2>2. CASE Admits(w)
        <3>1. PICK p : Sends(p) /\ Goes(p, pending) /\ p.command = "work"
            BY <1>3, <2>2, ReadSends
        <3>2. session' = session
            BY <1>3 DEF OnRead
        <3> QED BY <1>1, <3>1, <3>2 DEF OwnStep, SendsLittle, Lasts, Turn, Same
    <2> QED BY <2>1, <2>2
<1>4. CASE OnInspectDone
    BY <1>1, <1>4, Standing DEF OnInspectDone
<1>5. CASE OnFunctionDone
    <2>1. CASE IgnoreDone("function") \/ RaiseDone("function")
        BY <1>1, <1>2, <2>1
    <2>2. CASE ~(IgnoreDone("function") \/ RaiseDone("function"))
        <3>1. UNCHANGED <<session, pending, toAdapter>>
            BY <1>5, <2>2 DEF OnFunctionDone
        <3> QED BY <1>1, <3>1, Standing
    <2> QED BY <2>1, <2>2
<1>6. CASE OnPanicDone
    <2>1. CASE IgnoreDone("panic") \/ RaiseDone("panic")
        BY <1>1, <1>2, <2>1
    <2>2. CASE ~(IgnoreDone("panic") \/ RaiseDone("panic"))
        <3>1. UNCHANGED <<session, pending, toAdapter>>
            BY <1>6, <2>2 DEF OnPanicDone
        <3> QED BY <1>1, <3>1, Standing
    <2> QED BY <2>1, <2>2
<1>7. CASE OnConditionDone
    <2> DEFINE me == workers["condition"]
               stop == conditions.active.stop
    <2>1. CASE ConditionEpoch # me.job.epoch
        BY <1>1, <1>2, <1>7, <2>1 DEF OnConditionDone
    <2>2. CASE ConditionEpoch = me.job.epoch /\ me.result # "false"
        BY <1>1, <1>7, <2>2, Standing DEF OnConditionDone
    <2>3. CASE ConditionEpoch = me.job.epoch /\ me.result = "false"
        <3>1. /\ session' = [session EXCEPT !.stopped = FALSE, !.revision = @ + 1]
              /\ Send(pending, Outgoing(FreshSeq(pending), NoRequest, "continue",
                          "conditionContinue", "none", stop, 0, session.revision + 1))
              /\ me.pc = "done"
            BY <1>7, <2>3 DEF OnConditionDone, TakeWork
        <3>9. inspection' = NoInspection
            BY <1>7, <2>3 DEF OnConditionDone
        <3>2. me.job.epoch # None
            BY <3>1 DEF SafetyInv, Dated
        <3>3. session.stopped /\ ~session.closing
            BY <2>3, <3>2 DEF ConditionEpoch, Inspectable
        <3>4. /\ session'.stopped = FALSE /\ session'.revision = session.revision + 1
              /\ session'.exited = session.exited /\ session'.ended = session.ended
              /\ session'.closing = session.closing
              /\ session'.configured = session.configured
            BY <1>1, <3>1 DEF Flags
        <3>5. stop \in Stops /\ "conditionContinue" \notin Workers
            BY <1>1 DEF Types, ConditionStates, Orders
        <3> HIDE DEF me, stop
        <3>6. PICK p : /\ Goes(p, pending) /\ p.command = "continue"
                       /\ p.use = "conditionContinue" /\ p.stop = stop
                       /\ p.revision = session.revision + 1
            BY <1>1, <3>1, <3>5, SkipSends
        <3>8. Skips(p)
            BY <2>3, <3>1, <3>2, <3>6 DEF Skips, ConditionEpoch, me, stop
        <3>7. Sends(p) /\ Resumes(p.command)
            BY <1>1, <3>3, <3>4, <3>5, <3>6, <3>8, <3>9 DEF Sends, Address, Resumes
        <3> QED BY <1>1, <3>4, <3>7 DEF OwnStep, SendsLittle, Lasts, Turn
    <2> QED BY <2>1, <2>2, <2>3
<1> QED BY <1>3, <1>4, <1>5, <1>6, <1>7 DEF OnWork

\* A message of lldb-dap that leaves the flags alone and sends nothing.
LEMMA Hearing ==
    ASSUME Types, NEW m, TakeMessage(m), UNCHANGED <<session, toAdapter>>,
           pending' \subseteq pending, m.type # "exited",
           Live => m.type \notin {"stopped", "continued"} /\ ~Refusal(m)
    PROVE  MessageStep(m)
<1>1. /\ m \in Messages /\ session.revision \in Nat /\ session \in Flags
    BY MessageTyped DEF Types, Flags
<1>2. Live' => Live
    BY DEF Live, Working, TakeMessage
<1>3. session'.exited = (session.exited \/ m.type = "exited")
    BY <1>1 DEF Flags
<1>4. Live' => Follow(m)
    BY <1>1, <1>2 DEF Follow, Undone, Flags
<1> QED BY <1>1, <1>3, <1>4 DEF MessageStep, SendsLittle, Lasts, TakeMessage, Working

\* A message that changes flags, too, but neither the stop nor what is over.
LEMMA Noting ==
    ASSUME Types, NEW m, TakeMessage(m), UNCHANGED toAdapter,
           pending' \subseteq pending,
           m.type \notin {"stopped", "continued", "exited"},
           session'.revision = session.revision,
           session'.exited = session.exited, session.ended => session'.ended,
           session'.closing = session.closing,
           session'.configured = session.configured,
           Live' => session'.stopped = (session.stopped \/ Undone(m))
    PROVE  MessageStep(m)
<1>1. /\ m \in Messages /\ session.revision \in Nat /\ session \in Flags
    BY MessageTyped DEF Types, Flags
<1>2. session'.exited = (session.exited \/ m.type = "exited")
    BY <1>1 DEF Flags
<1> QED BY <1>1, <1>2 DEF MessageStep, SendsLittle, Lasts, Follow, TakeMessage, Working

LEMMA RaisingStep ==
    ASSUME Types, NEW m, TakeMessage(m), m.type # "exited", NEW c,
           NEW ps \in SUBSET pending, NEW ws, Raise(c, ps, ws)
    PROVE  MessageStep(m)
<1>1. m \in Messages /\ session \in Flags /\ Working
    BY MessageTyped DEF Types, TakeMessage, Working
<1>2. session'.exited = (session.exited \/ m.type = "exited")
    BY <1>1, RaiseSends DEF Flags
<1> QED BY <1>1, <1>2, RaiseSends DEF MessageStep, TakeMessage

LEMMA ResponseSteps ==
    ASSUME Types, Addressed, NEW m,
           \/ OnConditionContinued(m) \/ \E w \in Workers : OnWorkerReply(m, w)
           \/ \E panicked \in BOOLEAN : OnStopClassified(m, panicked)
           \/ OnStackTrace(m) \/ OnThreads(m)
    PROVE  MessageStep(m)
<1>1. /\ TakeMessage(m) /\ m.type = "response" /\ m.request \in pending
      /\ pending' = Settled(m) /\ toAdapter' = toAdapter
    BY DEF OnConditionContinued, OnWorkerReply, OnStopClassified, OnStackTrace, OnThreads,
       TakeResponse
<1>2. pending' \subseteq pending /\ Address(m.request) /\ session \in Flags
    BY <1>1 DEF Settled, Addressed, Types
<1>3. CASE OnConditionContinued(m)
    <2>1. m.request.command = "continue"
        BY <1>2, <1>3 DEF OnConditionContinued, TakeResponse, Address
    <2>2. CASE ~m.ok /\ StillCurrent(m.request)
        <3>1. session' = [session EXCEPT !.stopped = TRUE]
            BY <1>3, <2>2 DEF OnConditionContinued
        <3>2. /\ session'.stopped = TRUE /\ session'.revision = session.revision
              /\ session'.exited = session.exited /\ session'.ended = session.ended
              /\ session'.closing = session.closing
              /\ session'.configured = session.configured
            BY <1>2, <3>1 DEF Flags
        <3>3. Undone(m)
            BY <1>1, <2>1, <2>2 DEF Undone, Refusal, Resumes, StillCurrent
        <3> QED BY <1>1, <1>2, <3>2, <3>3, Noting
    <2>3. CASE ~(~m.ok /\ StillCurrent(m.request))
        <3>1. session' = session
            BY <1>3, <2>3 DEF OnConditionContinued
        <3>2. Live' => Live
            BY <1>1, <3>1 DEF Live, Working, TakeMessage
        <3>3. Live => ~Undone(m)
            BY <2>3 DEF Live, StillCurrent, Undone, Refusal
        <3>4. Live' => session'.stopped = (session.stopped \/ Undone(m))
            BY <1>2, <3>1, <3>2, <3>3 DEF Flags
        <3> QED BY <1>1, <1>2, <3>1, <3>4, Noting
    <2> QED BY <2>2, <2>3
<1>4. CASE ~OnConditionContinued(m)
    <2>1. session' = session
        BY <1>4 DEF OnWorkerReply, OnStopClassified, OnStackTrace, OnThreads
    <2>2. ~Resumes(m.request.command)
        BY <1>2, <1>4 DEF OnWorkerReply, OnStopClassified, OnStackTrace, OnThreads,
           TakeResponse, Address, Resumes
    <2> QED BY <1>1, <1>2, <2>1, <2>2, Hearing DEF Refusal
<1> QED BY <1>3, <1>4

LEMMA ClientResponseSteps ==
    ASSUME Types, NEW m,
           \/ OnLaunched(m) \/ OnConfigured(m) \/ OnResumed(m) \/ OnPauseAnswered(m)
    PROVE  MessageStep(m)
<1>1. /\ TakeMessage(m) /\ m.type = "response" /\ m.request \in pending
      /\ pending' = Settled(m) /\ toAdapter' = toAdapter
    BY DEF OnLaunched, OnConfigured, OnResumed, OnPauseAnswered, TakeResponse
<1>2. pending' \subseteq pending /\ session \in Flags
    BY <1>1 DEF Settled, Types
<1>3. CASE OnLaunched(m)
    <2> DEFINE launched == [session EXCEPT !.launchAnswered = TRUE]
    <2>1. /\ launched.stopped = session.stopped /\ launched.revision = session.revision
          /\ launched.exited = session.exited /\ launched.ended = session.ended
          /\ launched.closing = session.closing
          /\ launched.configured = session.configured /\ launched \in Flags
        BY <1>2 DEF Flags
    <2>2. session' = launched \/ session' = Finished(launched)
        BY <1>3 DEF OnLaunched
    <2> HIDE DEF launched
    <2>3. /\ session'.revision = session.revision
          /\ session'.exited = session.exited
          /\ \/ session'.ended = session.ended /\ session'.stopped = session.stopped
             \/ session'.ended
          /\ session'.closing = session.closing
          /\ session'.configured = session.configured
        BY <2>1, <2>2 DEF Finished, Flags
    <2>4. ~Undone(m)
        BY <1>3 DEF OnLaunched, Undone, Refusal, Resumes
    <2>5. Live' => session'.stopped = (session.stopped \/ Undone(m))
        BY <1>2, <2>3, <2>4 DEF Live, Flags
    <2> QED BY <1>1, <1>2, <2>3, <2>5, Noting
<1>4. CASE OnConfigured(m)
    <2>1. session' = session \/ session' = Finished(session)
        BY <1>4 DEF OnConfigured
    <2>3. /\ session'.revision = session.revision
          /\ session'.exited = session.exited
          /\ \/ session'.ended = session.ended /\ session'.stopped = session.stopped
             \/ session'.ended
          /\ session'.closing = session.closing
          /\ session'.configured = session.configured
        BY <1>2, <2>1 DEF Finished, Flags
    <2>4. ~Undone(m)
        BY <1>4 DEF OnConfigured, Undone, Refusal, Resumes
    <2>5. Live' => session'.stopped = (session.stopped \/ Undone(m))
        BY <1>2, <2>3, <2>4 DEF Live, Flags
    <2> QED BY <1>1, <1>2, <2>3, <2>5, Noting
<1>5. CASE OnResumed(m)
    <2>1. session' = [session EXCEPT !.stopped = IF RollsBack(m) THEN TRUE ELSE @]
        BY <1>5 DEF OnResumed
    <2>2. /\ session'.stopped = IF RollsBack(m) THEN TRUE ELSE session.stopped
          /\ session'.revision = session.revision
          /\ session'.exited = session.exited /\ session'.ended = session.ended
          /\ session'.closing = session.closing
          /\ session'.configured = session.configured
        BY <1>2, <2>1 DEF Flags
    <2>3. Live' => /\ ~session.exited /\ ~session.ended /\ ~session.closing
        BY <2>2 DEF Live
    <2>4. Live' => session'.stopped = (session.stopped \/ Undone(m))
        <3>1. CASE m.ok
            BY <1>2, <2>2, <3>1 DEF RollsBack, Undone, Refusal, Flags
        <3>2. CASE ~m.ok
            <4>1. Refusal(m)
                BY <1>1, <1>5, <3>2 DEF OnResumed, Refusal
            <4>2. Live' => (RollsBack(m) <=> Undone(m))
                BY <2>3, <3>2, <4>1 DEF Undone, RollsBack, StillCurrent
            <4> QED BY <1>2, <2>2, <4>1, <4>2 DEF Flags
        <3> QED BY <3>1, <3>2
    <2> QED BY <1>1, <1>2, <2>2, <2>4, Noting
<1>6. CASE OnPauseAnswered(m)
    <2>1. session' = [session EXCEPT !.pauseRevision =
                      IF ~m.ok /\ @ = m.request.revision THEN None ELSE @]
        BY <1>6 DEF OnPauseAnswered
    <2>2. /\ session'.stopped = session.stopped /\ session'.revision = session.revision
          /\ session'.exited = session.exited /\ session'.ended = session.ended
          /\ session'.closing = session.closing
          /\ session'.configured = session.configured
        BY <1>2, <2>1 DEF Flags
    <2>3. ~Undone(m)
        BY <1>6 DEF OnPauseAnswered, Undone, Refusal, Resumes
    <2>4. session'.stopped = (session.stopped \/ Undone(m))
        BY <1>2, <2>2, <2>3 DEF Flags
    <2> QED BY <1>1, <1>2, <2>2, <2>4, Noting
<1> QED BY <1>3, <1>4, <1>5, <1>6

LEMMA RaisingSteps ==
    ASSUME Types, NEW m,
           \/ OnSourcesReplaced(m) \/ OnInitialize(m) \/ OnDisconnected(m) \/ OnFailed(m)
    PROVE  MessageStep(m)
<1>1. TakeMessage(m) /\ m.type \in {"response", "failed"}
    BY DEF OnSourcesReplaced, OnInitialize, OnDisconnected, OnFailed, TakeResponse, TakeEvent
<1>2. /\ Settled(m) \in SUBSET pending /\ pending \in SUBSET pending
      /\ session \in Flags /\ session.revision \in Nat
    BY DEF Settled, Types, Flags
<1>3. ASSUME NEW c, NEW ps \in SUBSET pending, NEW ws, Raise(c, ps, ws)
      PROVE  MessageStep(m)
    BY <1>1, <1>3, RaisingStep
<1>4. CASE OnSourcesReplaced(m)
    <2>1. CASE m.ok
        <3>1. UNCHANGED <<session, toAdapter>> /\ pending' = Settled(m) /\ ~Refusal(m)
            BY <1>4, <2>1 DEF OnSourcesReplaced, Refusal
        <3> QED BY <1>1, <1>2, <3>1, Hearing
    <2>2. CASE ~m.ok
        BY <1>2, <1>3, <1>4, <2>2 DEF OnSourcesReplaced
    <2> QED BY <2>1, <2>2
<1>5. CASE OnInitialize(m)
    <2>1. CASE ~m.ok
        BY <1>2, <1>3, <1>5, <2>1 DEF OnInitialize
    <2>2. CASE m.ok /\ session.closing
        <3>1. UNCHANGED <<session, toAdapter>> /\ pending' = Settled(m) /\ ~Refusal(m)
            BY <1>5, <2>2 DEF OnInitialize, Refusal
        <3> QED BY <1>1, <1>2, <3>1, Hearing
    <2>3. CASE m.ok /\ ~session.closing
        <3> DEFINE ps == Settled(m)
        <3>1. /\ Send(ps, Outgoing(FreshSeq(ps), Launch, "launch", "client", "none",
                                   NoStop, 0, session.revision))
              /\ session' = session /\ m.type # "exited"
            BY <1>1, <1>5, <2>3 DEF OnInitialize
        <3>2. /\ Launch \in Requests \cup {NoRequest} /\ NoStop \in Stops
              /\ "none" \in KnownKinds /\ 0 \in Requests \cup {NoRequest}
            BY Values DEF KnownKinds, Kinds, NoRequest
        <3> HIDE DEF ps
        <3>3. PICK p : /\ Goes(p, ps) /\ p.command = "launch" /\ p.use = "client"
                       /\ p.revision = session.revision /\ p.client = Launch
            <4> DEFINE q == Outgoing(FreshSeq(ps), Launch, "launch", "client", "none",
                                     NoStop, 0, session.revision)
            <4>1. IsFiniteSet(ps)
                BY <1>2, FS_Subset DEF Types, ps
            <4>2. FreshSeq(ps) \in Nat /\ \A x \in ps : x.seq # FreshSeq(ps)
                BY <4>1, FreshIsNew
            <4>3. q \in Sent
                BY <1>2, <3>2, <4>2, OutgoingTyped
            <4>4. /\ q.seq = FreshSeq(ps) /\ q.command = "launch" /\ q.use = "client"
                  /\ q.revision = session.revision /\ q.client = Launch
                BY DEF Outgoing
            <4>5. Send(ps, q)
                BY <3>1
            <4> HIDE DEF q
            <4>6. Goes(q, ps)
                BY <4>2, <4>3, <4>4, <4>5 DEF Goes, Send
            <4> QED BY <4>4, <4>6
        <3>4. Sends(p)
            BY <1>2, <2>3, <3>1, <3>3
               DEF Sends, Address, Resumes, Workers, Launch, NoRequest, ps
        <3>5. Lasts /\ Same
            BY <1>1, <1>2, <3>1 DEF Lasts, Same, TakeMessage, Working
        <3>6. ~Undone(m) /\ m.type \notin {"stopped", "continued"} /\ m \in Messages
            BY <1>1, <2>3, MessageTyped DEF Undone, Refusal
        <3>7. session'.exited = (session.exited \/ m.type = "exited")
            BY <1>2, <3>1 DEF Flags
        <3>8. session'.stopped = (session.stopped \/ Undone(m))
            BY <1>2, <3>1, <3>6 DEF Flags
        <3> QED BY <1>1, <3>4, <3>5, <3>6, <3>7, <3>8
                DEF MessageStep, SendsLittle, Same, Follow, TakeMessage
    <2> QED BY <2>1, <2>2, <2>3
<1>6. CASE OnDisconnected(m)
    <2>1. CASE m.ok
        <3>1. /\ session' = Finished(session) /\ pending' = {} /\ at' = "closed"
              /\ toAdapter' = toAdapter
            BY <1>6, <2>1 DEF OnDisconnected
        <3>2. /\ session'.revision = session.revision
              /\ session'.exited = session.exited /\ session'.ended
              /\ session'.closing = session.closing
              /\ session'.configured = session.configured
            BY <1>2, <3>1 DEF Finished, Flags
        <3> QED BY <1>1, <3>1, <3>2, Noting DEF Live, Working
    <2>2. CASE ~m.ok
        BY <1>2, <1>3, <1>6, <2>2 DEF OnDisconnected
    <2> QED BY <2>1, <2>2
<1>7. CASE OnFailed(m)
    <2>1. CASE session.ended
        <3>1. UNCHANGED <<session, toAdapter, pending>> /\ ~Live
            BY <1>7, <2>1 DEF OnFailed, Live
        <3> QED BY <1>1, <3>1, Hearing
    <2>2. CASE ~session.ended
        BY <1>2, <1>3, <1>7, <2>2 DEF OnFailed
    <2> QED BY <2>1, <2>2
<1> QED BY <1>4, <1>5, <1>6, <1>7

LEMMA EventSteps ==
    ASSUME Types, NEW m,
           \/ OnInitialized(m) \/ OnStopped(m) \/ OnContinued(m) \/ OnExited(m)
           \/ OnTerminated(m)
    PROVE  MessageStep(m)
<1>1. /\ TakeMessage(m) /\ m.type # "response" /\ m \in Messages /\ m.stop \in Stops
      /\ Working /\ session \in Flags /\ session.revision \in Nat
    BY MessageTyped DEF OnInitialized, OnStopped, OnContinued, OnExited, OnTerminated,
       TakeEvent, TakeMessage, Working, Types, Flags
<1>2. ~Refusal(m) /\ ~Undone(m)
    BY <1>1 DEF Refusal, Undone
<1>3. CASE OnInitialized(m)
    <2>1. /\ session' = [session EXCEPT !.ready = TRUE]
          /\ UNCHANGED <<pending, toAdapter>> /\ m.type = "initialized"
        BY <1>3 DEF OnInitialized, TakeEvent
    <2>2. /\ session'.stopped = session.stopped /\ session'.revision = session.revision
          /\ session'.exited = session.exited /\ session'.ended = session.ended
          /\ session'.closing = session.closing
          /\ session'.configured = session.configured
        BY <1>1, <2>1 DEF Flags
    <2>3. session'.stopped = (session.stopped \/ Undone(m))
        BY <1>1, <1>2, <2>2 DEF Flags
    <2> QED BY <1>1, <2>1, <2>2, <2>3, Noting
<1>4. CASE OnStopped(m)
    <2>1. m.type = "stopped"
        BY <1>4 DEF OnStopped, TakeEvent
    <2>2. CASE session.ended \/ session.exited \/ session.closing
        <3>1. /\ UNCHANGED <<session, pending, toAdapter>> /\ ~Live
            BY <1>4, <2>2 DEF OnStopped, Live
        <3> QED BY <1>1, <2>1, <3>1, Hearing
    <2>3. CASE ~(session.ended \/ session.exited \/ session.closing)
        <3> DEFINE r == session.revision + 1
                   cond == [conditions EXCEPT !.active = NoJob, !.suppress = FALSE,
                               !.stepping = @ \/ (session.pauseRevision # None)]
                   ws == Release(workers, {"inspection", "condition"})
                   c == AnswerStale(client)
        <3>1. /\ session' = [session EXCEPT !.stopped = TRUE, !.revision = r,
                                            !.pauseRevision = None]
              /\ \/ UNCHANGED <<pending, toAdapter>>
                 \/ PublishStop(m.stop, c, cond, ws, r) /\ ~HoldsStop
              /\ at = "loop"
            BY <1>4, <2>3 DEF OnStopped, TakeEvent, TakeMessage
        <3> HIDE DEF cond, ws, c
        <3>2. /\ session'.stopped /\ session'.revision = session.revision + 1
              /\ session'.exited = session.exited /\ session'.ended = session.ended
              /\ session'.closing = session.closing
              /\ session'.configured = session.configured
            BY <1>1, <3>1 DEF Flags
        <3>3. SendsLittle
            <4>1. CASE UNCHANGED <<pending, toAdapter>>
                BY <4>1 DEF SendsLittle
            <4>2. CASE PublishStop(m.stop, c, cond, ws, r) /\ ~HoldsStop
                <5>1. r \in Nat
                    BY <1>1
                <5>2. CASE toAdapter' = toAdapter /\ pending' = pending
                    BY <5>2 DEF SendsLittle
                <5>3. CASE ~(toAdapter' = toAdapter /\ pending' = pending)
                    <6> HIDE DEF r
                    <6>1. PICK p : /\ Goes(p, pending) /\ p.command = "stackTrace"
                                   /\ p.stop = m.stop
                                   /\ p.revision = r /\ Address(p)
                        BY <1>1, <4>2, <5>1, <5>3, PublishSends
                    <6>3. Passes(p.stop)
                        <7>1. fromAdapter # <<>> /\ m = Head(fromAdapter)
                            BY <1>1 DEF TakeMessage
                        <7> QED BY <2>1, <3>1, <4>2, <6>1, <7>1 DEF Passes
                    <6>2. Sends(p)
                        BY <2>3, <3>2, <6>1, <6>3
                           DEF Sends, Resumes, Address, Requests, NoRequest, r
                    <6> QED BY <6>2 DEF SendsLittle
                <5> QED BY <5>2, <5>3
            <4> QED BY <3>1, <4>1, <4>2
        <3>4. session'.exited = (session.exited \/ m.type = "exited")
            BY <1>1, <2>1, <3>2 DEF Flags
        <3>5. Lasts
            BY <1>1, <2>3, <3>2 DEF Lasts
        <3>6. Follow(m)
            BY <2>1, <3>2 DEF Follow
        <3> QED BY <1>1, <3>3, <3>4, <3>5, <3>6 DEF MessageStep, TakeMessage
    <2> QED BY <2>2, <2>3
<1>5. CASE OnContinued(m)
    <2>1. m.type = "continued" /\ UNCHANGED <<pending, toAdapter>>
        BY <1>5 DEF OnContinued, TakeEvent
    <2>2. CASE session.ended \/ session.exited
        <3>1. /\ UNCHANGED <<session, pending, toAdapter>> /\ ~Live
            BY <1>5, <2>1, <2>2 DEF OnContinued, Live
        <3> QED BY <1>1, <2>1, <3>1, Hearing
    <2>3. CASE ~(session.ended \/ session.exited)
        <3>1. session' = [session EXCEPT !.stopped = FALSE, !.revision = @ + 1]
            BY <1>5, <2>3 DEF OnContinued
        <3>2. /\ session'.stopped = FALSE /\ session'.revision = session.revision + 1
              /\ session'.exited = session.exited /\ session'.ended = session.ended
              /\ session'.closing = session.closing
              /\ session'.configured = session.configured
            BY <1>1, <3>1 DEF Flags
        <3>4. session'.exited = (session.exited \/ m.type = "exited")
            BY <1>1, <2>1, <3>2 DEF Flags
        <3> QED BY <1>1, <2>1, <3>2, <3>4
                DEF MessageStep, Lasts, Follow, TakeMessage, SendsLittle
    <2> QED BY <2>2, <2>3
<1>6. CASE OnExited(m)
    <2>1. /\ session' = [session EXCEPT !.exited = TRUE, !.stopped = FALSE,
                             !.revision = @ + 1, !.pauseRevision = None]
          /\ UNCHANGED <<pending, toAdapter>> /\ m.type = "exited"
        BY <1>6 DEF OnExited, TakeEvent
    <2>2. /\ session'.revision = session.revision + 1
          /\ session'.exited = TRUE /\ session'.ended = session.ended
          /\ session'.closing = session.closing
          /\ session'.configured = session.configured
        BY <1>1, <2>1 DEF Flags
    <2>3. session'.exited = (session.exited \/ m.type = "exited")
        BY <1>1, <2>1, <2>2 DEF Flags
    <2>4. SendsLittle /\ ~Live'
        BY <2>1, <2>2 DEF SendsLittle, Live
    <2>5. Lasts
        BY <1>1, <2>2 DEF Lasts
    <2> QED BY <1>1, <2>3, <2>4, <2>5 DEF MessageStep, TakeMessage
<1>7. CASE OnTerminated(m)
    <2>1. /\ session' = IF session.ended THEN session ELSE Finished(session)
          /\ UNCHANGED <<pending, toAdapter>> /\ m.type = "terminated"
        BY <1>7 DEF OnTerminated, TakeEvent
    <2>2. /\ session'.revision = session.revision
          /\ session'.exited = session.exited /\ session'.ended = TRUE
          /\ session'.closing = session.closing
          /\ session'.configured = session.configured
        BY <1>1, <2>1 DEF Finished, Flags
    <2> QED BY <1>1, <2>1, <2>2, Noting DEF Live
<1> QED BY <1>3, <1>4, <1>5, <1>6, <1>7

LEMMA AdapterSteps ==
    ASSUME Types, Addressed, OnAdapter
    PROVE  \E m : MessageStep(m)
BY ResponseSteps, ClientResponseSteps, RaisingSteps, EventSteps DEF OnAdapter

-----------------------------------------------------------------------------
(* What a step of lldb-dap does.                                             *)

\* The target when lldb-dap has taken p.
Transition(p) ==
    \/ target'.state = target.state /\ target'.no = target.no
    \/ /\ target'.no = target.no
       /\ \/ p.command = "configurationDone" /\ target'.state = "running"
          \/ Resumes(p.command) /\ target.state = "stopped" /\ target'.state = "running"
          \/ p.command = "disconnect" /\ target'.state = "gone"
    \/ /\ p.command = "pause" /\ target.state = "running"
       /\ target'.state = "stopped" /\ target'.no = target.no + 1
Keeps(p) ==
    /\ target'.alive /\ target'.busy \in {NoOutgoing, p}
    /\ target'.busy # NoOutgoing => \/ p.command = "setBreakpoints" \/ Resumes(p.command)
                                    \/ p.use \in {"function", "panic"}
    /\ \/ target'.launch \in {NoOutgoing, target.launch}
       \/ target'.launch = p /\ p.command = "launch"
Installation(p) ==
    /\ \/ target'.source = target.source
       \/ p.command = "setBreakpoints" /\ target'.source \in {NoRequest, p.client}
    /\ \/ target'.function = target.function
       \/ p.use = "function" /\ target'.function \in {NoRequest, p.cause}

\* A message it may write then.
Says(p, m) ==
    \/ /\ m.type = "response" /\ m.request = p /\ m.data = target.no
       /\ ~m.ok => target' = target /\ m.value = "error"
       /\ p.command = "stackTrace" \/ p.use = "inspection"
             => /\ target'.state = target.state /\ target'.no = target.no
                /\ m.ok \/ m.value = "ok" => target.state = "stopped"
       /\ p.use = "condition" =>
             /\ m.value # "ok" /\ target' = target
             /\ m.value = "false" /\ target.no = p.stop.no => ~p.stop.holds
    \/ /\ m.type = "response" /\ m.request = target.launch /\ m.ok
       /\ target.launch # NoOutgoing
       /\ p.command = "configurationDone" /\ target'.launch = NoOutgoing
    \/ m.type = "initialized" /\ p.command = "launch"
    \/ m.type = "terminated" /\ p.command = "disconnect"
    \/ m.type = "continued" /\ Resumes(p.command) /\ target.state = "stopped"
    \/ /\ m.type = "stopped" /\ p.command = "pause" /\ target'.no = target.no + 1
       /\ m.stop = [NoStop EXCEPT !.no = target.no + 1]
\* Of the messages about one request, one may say whether the target moves.
Moving(m) == m.type \in {"stopped", "continued"} \/ ~m.ok
Speaks(p, ms) ==
    /\ \A i \in 1 .. Len(ms) : ms[i] \in Messages /\ Says(p, ms[i])
    /\ \A i, j \in 1 .. Len(ms) : Moving(ms[i]) /\ Moving(ms[j]) => i = j
Effect(p, ms) == Transition(p) /\ Keeps(p) /\ Installation(p) /\ Speaks(p, ms)

LEMMA Short ==
    /\ <<>> \in Seq(Messages) /\ Len(<<>>) = 0
    /\ \A m : m \in Messages => <<m>> \in Seq(Messages)
    /\ \A m : Len(<<m>>) = 1 /\ <<m>>[1] = m
    /\ \A m, n : m \in Messages /\ n \in Messages => <<m, n>> \in Seq(Messages)
    /\ \A m, n : Len(<<m, n>>) = 2 /\ <<m, n>>[1] = m /\ <<m, n>>[2] = n
<1>1. <<>> \in Seq(Messages) /\ Len(<<>>) = 0
    OBVIOUS
<1>2. \A m : m \in Messages => <<m>> \in Seq(Messages)
    OBVIOUS
<1>3. \A m : Len(<<m>>) = 1 /\ <<m>>[1] = m
    OBVIOUS
<1>4. \A m, n : m \in Messages /\ n \in Messages => <<m, n>> \in Seq(Messages)
    OBVIOUS
<1>5. \A m, n : Len(<<m, n>>) = 2 /\ <<m, n>>[1] = m /\ <<m, n>>[2] = n
    OBVIOUS
<1> QED BY <1>1, <1>2, <1>3, <1>4, <1>5

LEMMA Speaking ==
    ASSUME NEW p
    PROVE  /\ Speaks(p, <<>>)
           /\ \A m \in Messages : Says(p, m) => Speaks(p, <<m>>)
           /\ \A m, n \in Messages :
                 Says(p, m) /\ Says(p, n) /\ ~(Moving(m) /\ Moving(n))
                 => Speaks(p, <<m, n>>)
<1>1. Speaks(p, <<>>)
    BY Short DEF Speaks
<1>2. ASSUME NEW m \in Messages, Says(p, m) PROVE Speaks(p, <<m>>)
    <2> DEFINE s == <<m>>
    <2>1. Len(s) = 1 /\ s[1] = m
        BY Short
    <2> HIDE DEF s
    <2>2. Speaks(p, s)
        BY <1>2, <2>1 DEF Speaks
    <2> QED BY <2>2 DEF s
<1>3. ASSUME NEW m \in Messages, NEW n \in Messages, Says(p, m), Says(p, n),
             ~(Moving(m) /\ Moving(n))
      PROVE  Speaks(p, <<m, n>>)
    <2> DEFINE s == <<m, n>>
    <2>1. Len(s) = 2 /\ s[1] = m /\ s[2] = n
        BY Short
    <2> HIDE DEF s
    <2>2. \A i \in 1 .. Len(s) : i = 1 \/ i = 2
        BY <2>1
    <2>3. Speaks(p, s)
        BY <1>3, <2>1, <2>2 DEF Speaks
    <2> QED BY <2>3 DEF s
<1> QED BY <1>1, <1>2, <1>3

LEMMA Wording ==
    ASSUME Types, NEW p \in Sent, NEW ok \in BOOLEAN, NEW stop \in Stops
    PROVE  /\ Reply(p, ok) \in Messages /\ Reply(p, ok).type = "response"
           /\ Reply(p, ok).request = p /\ Reply(p, ok).ok = ok
           /\ Reply(p, ok).data = target.no
           /\ Reply(p, ok).value = IF ok THEN "ok" ELSE "error"
           /\ StopEvent(stop) \in Messages /\ StopEvent(stop).type = "stopped"
           /\ StopEvent(stop).stop = stop
           /\ \A type \in {"initialized", "continued", "exited", "terminated", "failed"} :
                 Event(type) \in Messages /\ Event(type).type = type
<1>1. /\ Reply(p, ok) \in Messages /\ StopEvent(stop) \in Messages
      /\ \A type \in {"initialized", "continued", "exited", "terminated", "failed"} :
                 Event(type) \in Messages
    BY MessagesTyped, Values DEF Results
<1> QED BY <1>1 DEF Reply, StopEvent, Event, Message

LEMMA LaunchEffects ==
    ASSUME Types, NEW p \in Sent, Address(p), AdapterLaunches(p) \/ AdapterRefuses(p)
    PROVE  \E ms \in Seq(Messages) : Handle(p, ms, target') /\ Effect(p, ms)
<1> DEFINE held == [target EXCEPT !.launch = p]
           started == [target EXCEPT !.state = "running", !.launch = NoOutgoing]
           good == Reply(p, TRUE)
           bad == Reply(p, FALSE)
           ready == Event("initialized")
           launched == Reply(target.launch, TRUE)
<1>1. /\ target \in Targets /\ target.launch \in Sent
      /\ \A ms, t : Handle(p, ms, t) =>
            /\ target.alive /\ target.busy = NoOutgoing /\ target' = t
            /\ Handle(p, ms, target')
    BY DEF Types, Targets, Handle
<1>2. /\ good \in Messages /\ good.type = "response" /\ good.request = p /\ good.ok
      /\ good.data = target.no
      /\ bad \in Messages /\ bad.type = "response" /\ bad.request = p /\ ~bad.ok
      /\ bad.data = target.no /\ bad.value = "error"
      /\ ready \in Messages /\ ready.type = "initialized"
      /\ launched \in Messages /\ launched.type = "response"
      /\ launched.request = target.launch /\ launched.ok
    <2>1. /\ good \in Messages /\ good.type = "response" /\ good.request = p /\ good.ok
          /\ good.data = target.no
        BY ZenonT(60), Wording, Values
    <2>2. /\ bad \in Messages /\ bad.type = "response" /\ bad.request = p /\ ~bad.ok
          /\ bad.data = target.no /\ bad.value = "error"
        BY Wording, Values
    <2>3. ready \in Messages /\ ready.type = "initialized"
        BY Wording, Values
    <2>4. /\ launched \in Messages /\ launched.type = "response"
          /\ launched.request = target.launch /\ launched.ok
        BY ZenonT(60), <1>1, Wording, Values
    <2> QED BY <2>1, <2>2, <2>3, <2>4
<1>3. /\ held.state = target.state /\ held.no = target.no /\ held.alive = target.alive
      /\ held.busy = target.busy /\ held.launch = p
      /\ held.source = target.source /\ held.function = target.function
      /\ started.state = "running" /\ started.no = target.no
      /\ started.alive = target.alive
      /\ started.busy = target.busy /\ started.launch = NoOutgoing
      /\ started.source = target.source /\ started.function = target.function
    BY <1>1 DEF Targets
<1>4. ~Moving(good) /\ ~Moving(launched)
    BY <1>2 DEF Moving
<1> HIDE DEF held, started, good, bad, ready, launched
<1>5. CASE AdapterRefuses(p)
    <2>1. Handle(p, <<bad>>, target)
        BY <1>5 DEF AdapterRefuses, bad
    <2>2. target' = target /\ target.alive /\ target.busy = NoOutgoing
        BY <1>1, <2>1
    <2>3. p.use # "condition"
        BY <1>5 DEF AdapterRefuses, Address, Workers
    <2>4. Says(p, bad)
        BY <1>2, <2>2, <2>3 DEF Says
    <2>5. Transition(p) /\ Keeps(p) /\ Installation(p)
        BY <2>2 DEF Transition, Keeps, Installation
    <2>6. Effect(p, <<bad>>) /\ <<bad>> \in Seq(Messages)
        BY <1>2, <2>4, <2>5, Speaking, Short DEF Effect
    <2> QED BY <1>1, <2>1, <2>6
<1>6. CASE AdapterLaunches(p)
    <2>1. /\ p.command \in {"initialize", "launch", "configurationDone"}
          /\ p.use \notin Workers
        BY <1>6 DEF AdapterLaunches, Address
    <2>2. \/ Handle(p, <<good>>, target)
          \/ p.command = "launch" /\ Handle(p, <<good, ready>>, target)
          \/ p.command = "launch" /\ Handle(p, <<ready>>, held)
          \/ /\ p.command = "configurationDone"
             /\ \/ Handle(p, <<good>>, started)
                \/ /\ target.launch # NoOutgoing
                   /\ Handle(p, <<good, launched>>, started)
        BY <1>6 DEF AdapterLaunches, good, ready, launched, held, started
    <2>3. Says(p, good)
        BY <1>2, <2>1 DEF Says, Workers
    <2>4. CASE Handle(p, <<good>>, target)
        <3>1. target' = target /\ target.alive /\ target.busy = NoOutgoing
            BY <1>1, <2>4
        <3>2. Transition(p) /\ Keeps(p) /\ Installation(p)
            BY <3>1 DEF Transition, Keeps, Installation
        <3>3. Effect(p, <<good>>) /\ <<good>> \in Seq(Messages)
            BY <1>2, <2>3, <3>2, Speaking, Short DEF Effect
        <3> QED BY <1>1, <2>4, <3>3
    <2>5. CASE p.command = "launch" /\ Handle(p, <<good, ready>>, target)
        <3>1. target' = target /\ target.alive /\ target.busy = NoOutgoing
            BY <1>1, <2>5
        <3>2. Transition(p) /\ Keeps(p) /\ Installation(p)
            BY <3>1 DEF Transition, Keeps, Installation
        <3>3. Says(p, ready)
            BY <1>2, <2>5 DEF Says
        <3>4. Effect(p, <<good, ready>>) /\ <<good, ready>> \in Seq(Messages)
            BY <1>2, <1>4, <2>3, <3>2, <3>3, Speaking, Short DEF Effect
        <3> QED BY <1>1, <2>5, <3>4
    <2>6. CASE p.command = "launch" /\ Handle(p, <<ready>>, held)
        <3>1. target' = held /\ target.alive /\ target.busy = NoOutgoing
            BY <1>1, <2>6
        <3>2. Transition(p) /\ Keeps(p) /\ Installation(p)
            BY <1>3, <2>6, <3>1 DEF Transition, Keeps, Installation
        <3>3. Says(p, ready)
            BY <1>2, <2>6 DEF Says
        <3>4. Effect(p, <<ready>>) /\ <<ready>> \in Seq(Messages)
            BY <1>2, <3>2, <3>3, Speaking, Short DEF Effect
        <3> QED BY <1>1, <2>6, <3>4
    <2>7. CASE p.command = "configurationDone" /\ Handle(p, <<good>>, started)
        <3>1. target' = started /\ target.alive /\ target.busy = NoOutgoing
            BY <1>1, <2>7
        <3>2. Transition(p) /\ Keeps(p) /\ Installation(p)
            BY <1>3, <2>7, <3>1 DEF Transition, Keeps, Installation
        <3>3. Effect(p, <<good>>) /\ <<good>> \in Seq(Messages)
            BY <1>2, <2>3, <3>2, Speaking, Short DEF Effect
        <3> QED BY <1>1, <2>7, <3>3
    <2>8. CASE p.command = "configurationDone" /\ target.launch # NoOutgoing
               /\ Handle(p, <<good, launched>>, started)
        <3>1. target' = started /\ target.alive /\ target.busy = NoOutgoing
            BY <1>1, <2>8
        <3>2. Transition(p) /\ Keeps(p) /\ Installation(p)
            BY <1>3, <2>8, <3>1 DEF Transition, Keeps, Installation
        <3>3. Says(p, launched)
            BY <1>2, <1>3, <2>8, <3>1 DEF Says
        <3>4. Effect(p, <<good, launched>>) /\ <<good, launched>> \in Seq(Messages)
            BY <1>2, <1>4, <2>3, <3>2, <3>3, Speaking, Short DEF Effect
        <3> QED BY <1>1, <2>8, <3>4
    <2> QED BY <2>2, <2>4, <2>5, <2>6, <2>7, <2>8
<1> QED BY <1>5, <1>6

LEMMA InstallEffects ==
    ASSUME Types, NEW p \in Sent, Address(p), Installs(p)
    PROVE  \E ms \in Seq(Messages) : Handle(p, ms, target') /\ Effect(p, ms)
<1> DEFINE installer(seq) == IF p.kind = "none" THEN NoRequest ELSE seq
           done == [target EXCEPT !.busy = p]
           source == [done EXCEPT !.source = installer(p.client)]
           function == [done EXCEPT !.function = installer(p.cause)]
           panic == [done EXCEPT !.panic = p.kind # "none"]
<1>1. /\ target \in Targets
      /\ done.state = target.state /\ done.no = target.no /\ done.alive = target.alive
      /\ done.busy = p /\ done.launch = target.launch
      /\ done.source = target.source /\ done.function = target.function /\ done \in Targets
    BY DEF Types, Targets
<1> HIDE DEF done
<1>2. \A t \in {source, function, panic} :
          /\ t.state = target.state /\ t.no = target.no /\ t.alive = target.alive
          /\ t.busy = p /\ t.launch = target.launch
    BY <1>1 DEF Targets
<1>3. /\ source.source = installer(p.client) /\ source.function = target.function
      /\ function.source = target.source /\ function.function = installer(p.cause)
      /\ panic.source = target.source /\ panic.function = target.function
    BY <1>1 DEF Targets
<1>4. /\ installer(p.client) \in {NoRequest, p.client}
      /\ installer(p.cause) \in {NoRequest, p.cause}
    OBVIOUS
<1>5. \/ p.command = "setBreakpoints" /\ Handle(p, <<>>, source)
      \/ p.use = "function" /\ Handle(p, <<>>, function)
      \/ p.use = "panic" /\ Handle(p, <<>>, panic)
    BY DEF Installs, done
<1> HIDE DEF source, function, panic, installer
<1>6. /\ Handle(p, <<>>, target') /\ target.alive
      /\ target' \in {source, function, panic}
      /\ target' = source => p.command = "setBreakpoints" \/ target' \in {function, panic}
    BY <1>5 DEF Handle
<1>7. Transition(p)
    BY <1>2, <1>6 DEF Transition
<1>8. Keeps(p)
    BY <1>2, <1>5 DEF Keeps, Handle
<1>9. Installation(p)
    BY <1>3, <1>4, <1>5 DEF Installation, Handle
<1>10. Effect(p, <<>>)
    BY <1>7, <1>8, <1>9, Speaking DEF Effect
<1> QED BY <1>6, <1>10, Short

\* Appending adds one place, and fills it.
LEMMA Extended ==
    ASSUME NEW S, NEW f \in Seq(S), NEW b \in S
    PROVE  /\ Append(f, b) \in Seq(S)
           /\ Len(Append(f, b)) = Len(f) + 1
           /\ Append(f, b)[Len(f) + 1] = b
OBVIOUS

\* A sequence of one element and one more.
LEMMA OneMore ==
    ASSUME NEW S, NEW a \in S, NEW b \in S,
           NEW f \in Seq(S), Len(f) = 1, f[1] = a,
           NEW g \in Seq(S), Len(g) = 2, g[1] = a, g[2] = b
    PROVE  Append(f, b) = g
<1>1. /\ Append(f, b) \in Seq(S)
      /\ Len(Append(f, b)) = Len(f) + 1
      /\ Append(f, b)[Len(f) + 1] = b
    BY ZenonT(60), Extended
<1>2. Len(Append(f, b)) = 2 /\ Append(f, b)[2] = b
    BY <1>1
<1>3. Append(f, b)[1] = a
    OBVIOUS
<1>4. \A i \in 1 .. 2 : Append(f, b)[i] = g[i]
    <2>1. \A i \in 1 .. 2 : i = 1 \/ i = 2
        OBVIOUS
    <2> QED BY <1>2, <1>3, <2>1
<1> QED BY <1>1, <1>2, <1>4, SeqEqual

LEMMA Appending ==
    ASSUME NEW m \in Messages, NEW n \in Messages
    PROVE  Append(<<>>, m) = <<m>> /\ Append(<<m>>, n) = <<m, n>>
<1> DEFINE e == <<>>
           s == <<m>>
           t == <<m, n>>
<1>1. /\ e \in Seq(Messages) /\ Len(e) = 0
      /\ s \in Seq(Messages) /\ Len(s) = 1 /\ s[1] = m
      /\ t \in Seq(Messages) /\ Len(t) = 2 /\ t[1] = m /\ t[2] = n
    BY Short
<1> HIDE DEF e, s, t
<1>2. Append(e, m) = s
    <2> DEFINE a == Append(e, m)
    <2>1. a \in Seq(Messages) /\ Len(a) = 1 /\ a[1] = m
        BY <1>1, AppendProperties
    <2> HIDE DEF a
    <2>2. a = s
        BY <1>1, <2>1, SeqEqual
    <2> QED BY <2>2 DEF a
<1>3. Append(s, n) = t
    BY <1>1, OneMore
<1> QED BY <1>2, <1>3 DEF e, s, t

LEMMA InspectEffects ==
    ASSUME Types, NEW p \in Sent, Address(p), Inspects(p)
    PROVE  \E ms \in Seq(Messages) : Handle(p, ms, target') /\ Effect(p, ms)
<1> DEFINE stopped == target.state = "stopped"
<1>1. ASSUME NEW m \in Messages, Handle(p, <<m>>, target), target' = target => Says(p, m)
      PROVE  \E ms \in Seq(Messages) : Handle(p, ms, target') /\ Effect(p, ms)
    <2>1. target' = target /\ target.alive /\ target.busy = NoOutgoing
          /\ Handle(p, <<m>>, target')
        BY <1>1 DEF Handle
    <2>2. Transition(p) /\ Keeps(p) /\ Installation(p)
        BY <2>1 DEF Transition, Keeps, Installation
    <2>3. Effect(p, <<m>>) /\ <<m>> \in Seq(Messages)
        BY <1>1, <2>1, <2>2, Speaking, Short DEF Effect
    <2> QED BY <2>1, <2>3
<1>2. CASE (p.command = "stackTrace" \/ p.use = "inspection")
           /\ Handle(p, <<Reply(p, stopped)>>, target)
    <2> DEFINE m == Reply(p, stopped)
    <2>1. stopped \in BOOLEAN
        OBVIOUS
    <2>2. /\ m \in Messages /\ m.type = "response" /\ m.request = p /\ m.ok = stopped
          /\ m.data = target.no /\ m.value = IF stopped THEN "ok" ELSE "error"
        BY ZenonT(60), <2>1, Wording, Values
    <2>3. p.use # "condition"
        BY <1>2 DEF Address, Workers
    <2> HIDE DEF m
    <2>4. target' = target => Says(p, m)
        BY <2>2, <2>3 DEF Says
    <2> QED BY <1>1, <1>2, <2>2, <2>4 DEF m
<1>3. CASE p.use = "condition"
    <2>1. p.command = "work"
        BY <1>3 DEF Address, Workers
    <2>2. PICK holds \in IF target.no = p.stop.no THEN {p.stop.holds} ELSE BOOLEAN :
             Handle(p, <<Message("response", p, stopped,
                           IF ~stopped THEN "error"
                           ELSE IF holds THEN "true" ELSE "false", NoStop)>>, target)
        BY <1>3, <2>1 DEF Inspects
    <2> DEFINE value == IF ~stopped THEN "error" ELSE IF holds THEN "true" ELSE "false"
               m == Message("response", p, stopped, value, NoStop)
    <2>3. value \in Results
        BY DEF Results
    <2>4. m \in Messages
        BY <2>3, MessagesTyped, Values
    <2>5. /\ m.type = "response" /\ m.request = p /\ m.ok = stopped
          /\ m.data = target.no /\ m.value = value
        BY DEF Message
    <2>6. target.no = p.stop.no => holds = p.stop.holds
        OBVIOUS
    <2>7. value # "ok" /\ (value = "false" => ~holds) /\ (~stopped => value = "error")
        OBVIOUS
    <2>8. Handle(p, <<m>>, target)
        BY <2>2
    <2> HIDE DEF m, value
    <2>9. target' = target => Says(p, m)
        BY <1>3, <2>1, <2>5, <2>6, <2>7 DEF Says
    <2> QED BY <1>1, <2>4, <2>8, <2>9
<1>4. CASE p.command = "threads" /\ Handle(p, <<Reply(p, TRUE)>>, target)
    <2> DEFINE m == Reply(p, TRUE)
    <2>2. /\ m \in Messages /\ m.type = "response" /\ m.request = p /\ m.ok
          /\ m.data = target.no
        BY ZenonT(60), Wording, Values
    <2>3. p.use # "condition" /\ p.use # "inspection"
        BY <1>4 DEF Address, Workers
    <2> HIDE DEF m
    <2>4. target' = target => Says(p, m)
        BY <1>4, <2>2, <2>3 DEF Says
    <2> QED BY <1>1, <1>4, <2>2, <2>4 DEF m
<1> QED BY <1>2, <1>3, <1>4 DEF Inspects

LEMMA MoveEffects ==
    ASSUME Types, NEW p \in Sent, Address(p), Continues(p) \/ Halts(p) \/ Leaves(p)
    PROVE  \E ms \in Seq(Messages) : Handle(p, ms, target') /\ Effect(p, ms)
<1> DEFINE running == [target EXCEPT !.state = "running"]
           resuming == [running EXCEPT !.busy = p]
           halted == [target EXCEPT !.state = "stopped", !.no = target.no + 1]
           gone == [target EXCEPT !.state = "gone"]
           where == [NoStop EXCEPT !.no = target.no + 1]
           stop == StopEvent(where)
           continued == Event("continued")
           terminated == Event("terminated")
           good == Reply(p, TRUE)
           bad == Reply(p, FALSE)
<1>1. /\ target \in Targets /\ target.no \in Nat
      /\ \A ms, t : Handle(p, ms, t) =>
            /\ target.alive /\ target.busy = NoOutgoing /\ target' = t
            /\ Handle(p, ms, target')
    BY DEF Types, Targets, Handle
<1>2. /\ running.state = "running" /\ running.no = target.no
      /\ running.alive = target.alive /\ running.busy = target.busy
      /\ running.launch = target.launch /\ running.source = target.source
      /\ running.function = target.function /\ running \in Targets
    BY <1>1 DEF Targets
<1>3. /\ resuming.state = "running" /\ resuming.no = target.no
      /\ resuming.alive = target.alive /\ resuming.busy = p
      /\ resuming.launch = target.launch /\ resuming.source = target.source
      /\ resuming.function = target.function
    <2> HIDE DEF running
    <2> QED BY <1>2 DEF Targets
<1>4. /\ halted.state = "stopped" /\ halted.no = target.no + 1
      /\ halted.alive = target.alive /\ halted.busy = target.busy
      /\ halted.launch = target.launch /\ halted.source = target.source
      /\ halted.function = target.function
    BY <1>1 DEF Targets
<1>5. /\ gone.state = "gone" /\ gone.no = target.no
      /\ gone.alive = target.alive /\ gone.busy = target.busy
      /\ gone.launch = target.launch /\ gone.source = target.source
      /\ gone.function = target.function
    BY <1>1 DEF Targets
<1>6. /\ good \in Messages /\ good.type = "response" /\ good.request = p /\ good.ok
      /\ good.data = target.no
    BY ZenonT(60), Wording, Values
<1>7. /\ bad \in Messages /\ bad.type = "response" /\ bad.request = p /\ ~bad.ok
      /\ bad.data = target.no /\ bad.value = "error"
    BY Wording, Values
<1>8. where \in Stops
    BY <1>1, Values DEF Stops
<1>9. /\ stop \in Messages /\ stop.type = "stopped" /\ stop.stop = where
      /\ continued \in Messages /\ continued.type = "continued"
      /\ terminated \in Messages /\ terminated.type = "terminated"
    <2> HIDE DEF where
    <2> QED BY <1>8, Wording, Values
<1>10. /\ p.command \in {"continue", "next", "pause", "disconnect"}
       /\ p.use \notin Workers
    BY DEF Continues, Halts, Leaves, Resumes, Address
<1>11. Says(p, good) /\ ~Moving(good)
    BY <1>6, <1>7, <1>9, <1>10 DEF Says, Moving, Workers
<1>12. target' = target => Says(p, bad)
    BY <1>7, <1>10 DEF Says, Workers
<1> HIDE DEF running, resuming, halted, gone, stop, continued, terminated, good, bad, where
<1>13. CASE Continues(p)
    <2>1. /\ Resumes(p.command)
          /\ \/ /\ target.state = "stopped"
                /\ \/ Handle(p, <<>>, resuming)
                   \/ Handle(p, <<continued>>, resuming)
                   \/ Handle(p, <<good, continued>>, running)
             \/ Handle(p, <<bad>>, target)
        BY <1>13 DEF Continues, running, resuming, continued, good, bad
    <2>2. CASE target.state = "stopped" /\ (Handle(p, <<>>, resuming)
                \/ Handle(p, <<continued>>, resuming)
                \/ Handle(p, <<good, continued>>, running))
        <3>1. target' \in {resuming, running} /\ target.alive /\ target.busy = NoOutgoing
            BY <1>1, <2>2
        <3>2. Transition(p) /\ Keeps(p) /\ Installation(p)
            BY <1>2, <1>3, <2>1, <2>2, <3>1 DEF Transition, Keeps, Installation
        <3>3. Says(p, continued)
            BY <1>9, <2>1, <2>2 DEF Says
        <3>4. /\ Effect(p, <<>>) /\ Effect(p, <<continued>>)
              /\ Effect(p, <<good, continued>>)
              /\ <<>> \in Seq(Messages) /\ <<continued>> \in Seq(Messages)
              /\ <<good, continued>> \in Seq(Messages)
            BY <1>6, <1>9, <1>11, <3>2, <3>3, Speaking, Short DEF Effect
        <3> QED BY <1>1, <2>2, <3>4
    <2>3. CASE Handle(p, <<bad>>, target)
        <3>1. target' = target /\ target.alive /\ target.busy = NoOutgoing
            BY <1>1, <2>3
        <3>2. Transition(p) /\ Keeps(p) /\ Installation(p)
            BY <3>1 DEF Transition, Keeps, Installation
        <3>3. Effect(p, <<bad>>) /\ <<bad>> \in Seq(Messages)
            BY <1>7, <1>12, <3>1, <3>2, Speaking, Short DEF Effect
        <3> QED BY <1>1, <2>3, <3>3
    <2> QED BY <2>1, <2>2, <2>3
<1>14. CASE Halts(p)
    <2>1. /\ p.command = "pause"
          /\ \/ /\ target.state = "running"
                /\ \/ Handle(p, <<good, stop>>, halted)
                   \/ Handle(p, <<stop, good>>, halted)
             \/ Handle(p, <<good>>, target)
             \/ Handle(p, <<bad>>, target)
        BY <1>14 DEF Halts, halted, stop, good, bad, where
    <2>2. CASE target.state = "running" /\ (Handle(p, <<good, stop>>, halted)
                   \/ Handle(p, <<stop, good>>, halted))
        <3>1. target' = halted /\ target.alive /\ target.busy = NoOutgoing
            BY <1>1, <2>2
        <3>2. Transition(p) /\ Keeps(p) /\ Installation(p)
            BY <1>4, <2>1, <2>2, <3>1 DEF Transition, Keeps, Installation
        <3>3. Says(p, stop)
            BY <1>4, <1>9, <2>1, <3>1 DEF Says, where
        <3>4. /\ Effect(p, <<good, stop>>) /\ Effect(p, <<stop, good>>)
              /\ <<stop, good>> \in Seq(Messages)
              /\ <<good, stop>> \in Seq(Messages)
            BY <1>6, <1>9, <1>11, <3>2, <3>3, Speaking, Short DEF Effect
        <3> QED BY <1>1, <2>2, <3>4
    <2>3. CASE Handle(p, <<good>>, target) \/ Handle(p, <<bad>>, target)
        <3>1. target' = target /\ target.alive /\ target.busy = NoOutgoing
            BY <1>1, <2>3
        <3>2. Transition(p) /\ Keeps(p) /\ Installation(p)
            BY <3>1 DEF Transition, Keeps, Installation
        <3>3. /\ Effect(p, <<good>>) /\ Effect(p, <<bad>>)
              /\ <<good>> \in Seq(Messages) /\ <<bad>> \in Seq(Messages)
            BY <1>6, <1>7, <1>11, <1>12, <3>1, <3>2, Speaking, Short DEF Effect
        <3> QED BY <1>1, <2>3, <3>3
    <2> QED BY <2>1, <2>2, <2>3
<1>15. CASE Leaves(p)
    <2>1. /\ p.command = "disconnect"
          /\ \/ Handle(p, Append(<<>>, good), gone)
             \/ Handle(p, Append(<<terminated>>, good), gone)
        BY <1>15 DEF Leaves, gone, good, terminated
    <2>3. Handle(p, <<good>>, gone) \/ Handle(p, <<terminated, good>>, gone)
        BY <1>6, <1>9, <2>1, Appending
    <2>4. target' = gone /\ target.alive /\ target.busy = NoOutgoing
        BY <1>1, <2>3
    <2>5. Transition(p) /\ Keeps(p) /\ Installation(p)
        BY <1>5, <2>1, <2>4 DEF Transition, Keeps, Installation
    <2>6. Says(p, terminated)
        BY <1>9, <2>1 DEF Says
    <2>7. /\ Effect(p, <<good>>) /\ Effect(p, <<terminated, good>>)
          /\ <<good>> \in Seq(Messages) /\ <<terminated, good>> \in Seq(Messages)
        BY <1>6, <1>9, <1>11, <2>5, <2>6, Speaking, Short DEF Effect
    <2> QED BY <1>1, <2>3, <2>7
<1> QED BY <1>13, <1>14, <1>15

LEMMA AdapterEffects ==
    ASSUME Types, Addressed, Adapter
    PROVE  \E p \in Sent, ms \in Seq(Messages) :
               Handle(p, ms, target') /\ Effect(p, ms) /\ Address(p)
<1> DEFINE p == Head(toAdapter)
<1>1. p \in Sent /\ p = toAdapter[1] /\ 1 \in 1 .. Len(toAdapter)
    BY DEF Adapter, Types
<1>2. Address(p)
    BY <1>1 DEF Addressed
<1>3. \/ AdapterLaunches(p) \/ AdapterRefuses(p) \/ Installs(p) \/ Inspects(p)
      \/ Continues(p) \/ Halts(p) \/ Leaves(p)
    BY DEF Adapter
<1> HIDE DEF p
<1> QED BY <1>1, <1>2, <1>3, LaunchEffects, InstallEffects, InspectEffects, MoveEffects

\* Elements of a queue that has lost its head, got one element, or several.
LEMMA Tails ==
    ASSUME NEW S, NEW q \in Seq(S), q # <<>>
    PROVE  /\ Tail(q) \in Seq(S) /\ Len(Tail(q)) = Len(q) - 1
           /\ Head(q) = q[1] /\ 1 \in 1 .. Len(q) /\ Head(q) \in S
           /\ \A i \in 1 .. Len(Tail(q)) : i + 1 \in 1 .. Len(q) /\ Tail(q)[i] = q[i + 1]
OBVIOUS

LEMMA Appends ==
    ASSUME NEW S, NEW q \in Seq(S), NEW x \in S
    PROVE  /\ Append(q, x) \in Seq(S) /\ Len(Append(q, x)) = Len(q) + 1
           /\ Append(q, x)[Len(q) + 1] = x
           /\ \A i \in 1 .. Len(q) : Append(q, x)[i] = q[i]
           /\ \A i \in 1 .. Len(Append(q, x)) : i \in 1 .. Len(q) \/ i = Len(q) + 1
OBVIOUS

LEMMA Joins ==
    ASSUME NEW S, NEW q \in Seq(S), NEW r \in Seq(S)
    PROVE  /\ q \o r \in Seq(S) /\ Len(q \o r) = Len(q) + Len(r)
           /\ \A i \in 1 .. Len(q) : (q \o r)[i] = q[i] /\ i \in 1 .. Len(q \o r)
           /\ \A i \in 1 .. Len(q \o r) :
                 \/ i \in 1 .. Len(q) /\ (q \o r)[i] = q[i]
                 \/ /\ i \notin 1 .. Len(q) /\ i - Len(q) \in 1 .. Len(r)
                    /\ (q \o r)[i] = r[i - Len(q)]
<1>1. q \o r \in Seq(S) /\ Len(q \o r) = Len(q) + Len(r)
    BY ConcatProperties
<1>2. \A i \in 1 .. Len(q) + Len(r) :
          (q \o r)[i] = IF i <= Len(q) THEN q[i] ELSE r[i - Len(q)]
    BY ConcatProperties
<1>3. Len(q) \in Nat /\ Len(r) \in Nat
    OBVIOUS
<1> DEFINE w == q \o r
           n == Len(q)
           k == Len(r)
<1>4. n \in Nat /\ k \in Nat /\ Len(w) = n + k
      /\ \A i \in 1 .. n + k : w[i] = IF i <= n THEN q[i] ELSE r[i - n]
    BY <1>1, <1>2, <1>3
<1> HIDE DEF w, n, k
<1>5. \A i \in 1 .. n : w[i] = q[i] /\ i \in 1 .. n + k
    BY <1>4
<1>6. \A i \in 1 .. n + k :
          \/ i \in 1 .. n /\ w[i] = q[i]
          \/ i \notin 1 .. n /\ i - n \in 1 .. k /\ w[i] = r[i - n]
    BY <1>4
<1>7. /\ \A i \in 1 .. n : w[i] = q[i] /\ i \in 1 .. Len(w)
      /\ \A i \in 1 .. Len(w) :
            \/ i \in 1 .. n /\ w[i] = q[i]
            \/ i \notin 1 .. n /\ i - n \in 1 .. k /\ w[i] = r[i - n]
    BY <1>4, <1>5, <1>6
<1> QED BY <1>1, <1>7 DEF w, n, k

\* What the loop itself asks for at its end is nobody's request.
LEMMA LastWord ==
    ASSUME Shutdown
    PROVE  /\ ~Working' /\ toAdapter' = <<>>
           /\ pending' \subseteq pending \cup {ShutdownRequest}
           /\ ShutdownRequest.use = "client" /\ ShutdownRequest.command = "disconnect"
           /\ ShutdownRequest.seq = FreshSeq(pending)
BY DEF Shutdown, Working, ShutdownRequest, Outgoing

\* Every step is one of the loop, one of lldb-dap or one of the target, or it
\* is elsewhere.
Apart == UNCHANGED <<at, session, pending, toAdapter, fromAdapter, target>>

LEMMA Steps ==
    ASSUME SafetyInv, Addressed, [Next]_vars
    PROVE  \/ OwnStep \/ \E m : MessageStep(m)
           \/ Shutdown \/ Apart
           \/ \E p \in Sent, ms \in Seq(Messages) :
                 Handle(p, ms, target') /\ Effect(p, ms) /\ Address(p)
           \/ AdapterAnswers \/ TargetStops \/ TargetExits \/ Crash
<1>1. Types /\ Closed
    BY DEF SafetyInv
<1>2. UNCHANGED vars => Apart
    BY DEF vars, Apart
<1>3. (\E w \in Workers : Worker(w)) \/ ClientSends \/ ClientLeaves => Apart
    BY DEF Worker, WorkerStart, WorkerFinish, WorkerTimeout, StepWorker, ClientSends,
       ClientLeaves, Apart
<1>4. /\ OnClient => OwnStep
      /\ DrainStop \/ DrainRequest => OwnStep
      /\ OnWork => OwnStep
      /\ Timeout => OwnStep
    BY <1>1, ClientSteps, DrainSteps, WorkSteps, TimeoutSteps
<1>5. OnAdapter => \E m : MessageStep(m)
    BY <1>1, AdapterSteps
<1>6. Adapter => \E p \in Sent, ms \in Seq(Messages) :
                     Handle(p, ms, target') /\ Effect(p, ms) /\ Address(p)
    BY <1>1, AdapterEffects
<1>7. \/ OnClient \/ OnAdapter \/ OnWork \/ DrainStop \/ DrainRequest \/ Timeout
      \/ Shutdown \/ \E w \in Workers : Worker(w)
      \/ ClientSends \/ ClientLeaves \/ Adapter
      \/ AdapterAnswers \/ TargetStops \/ TargetExits \/ Crash \/ UNCHANGED vars
    BY DEF Next
<1>8. CASE OnClient \/ DrainStop \/ DrainRequest \/ OnWork \/ Timeout
    BY <1>4, <1>8
<1>9. CASE OnAdapter
    BY <1>5, <1>9
<1>10. CASE Adapter
    BY <1>6, <1>10
<1>11. CASE UNCHANGED vars \/ (\E w \in Workers : Worker(w)) \/ ClientSends \/ ClientLeaves
    BY <1>2, <1>3, <1>11
<1>12. CASE Shutdown \/ AdapterAnswers \/ TargetStops \/ TargetExits \/ Crash
    BY <1>12
<1> QED BY <1>7, <1>8, <1>9, <1>10, <1>11, <1>12

-----------------------------------------------------------------------------
(* What is on its way to lldb-dap and back.                                  *)

\* A queue the loop has written to, lldb-dap has taken from, or has written to.
LEMMA Grown ==
    ASSUME Types, NEW p, NEW ps, Goes(p, ps)
    PROVE  /\ p \in Sent /\ Len(toAdapter) \in Nat
           /\ Len(toAdapter') = Len(toAdapter) + 1
           /\ toAdapter'[Len(toAdapter) + 1] = p
           /\ \A i \in 1 .. Len(toAdapter) : toAdapter'[i] = toAdapter[i]
           /\ \A i \in 1 .. Len(toAdapter') :
                 i \in 1 .. Len(toAdapter) \/ i = Len(toAdapter) + 1
<1>1. toAdapter \in Seq(Sent) /\ p \in Sent /\ toAdapter' = Append(toAdapter, p)
    BY DEF Types, Goes
<1> QED BY <1>1, Appends

LEMMA Handled ==
    ASSUME Types, NEW p, NEW ms \in Seq(Messages), NEW t, Handle(p, ms, t)
    PROVE  /\ p = toAdapter[1] /\ 1 \in 1 .. Len(toAdapter) /\ p \in Sent
           /\ Len(toAdapter) \in Nat
           /\ Len(toAdapter') = Len(toAdapter) - 1
           /\ \A i \in 1 .. Len(toAdapter') :
                 i + 1 \in 1 .. Len(toAdapter) /\ toAdapter'[i] = toAdapter[i + 1]
           /\ \A i \in 1 .. Len(fromAdapter') :
                 \/ i \in 1 .. Len(fromAdapter) /\ fromAdapter'[i] = fromAdapter[i]
                 \/ /\ i \notin 1 .. Len(fromAdapter)
                    /\ i - Len(fromAdapter) \in 1 .. Len(ms)
                    /\ fromAdapter'[i] = ms[i - Len(fromAdapter)]
           /\ \A i \in 1 .. Len(fromAdapter) :
                 i \in 1 .. Len(fromAdapter') /\ fromAdapter'[i] = fromAdapter[i]
<1>1. /\ toAdapter \in Seq(Sent) /\ fromAdapter \in Seq(Messages)
      /\ toAdapter # <<>> /\ p = Head(toAdapter) /\ toAdapter' = Tail(toAdapter)
      /\ fromAdapter' = fromAdapter \o ms
    BY DEF Types, Handle
<1>2. /\ p = toAdapter[1] /\ 1 \in 1 .. Len(toAdapter) /\ p \in Sent
      /\ Len(toAdapter) \in Nat
      /\ Len(toAdapter') = Len(toAdapter) - 1
      /\ \A i \in 1 .. Len(toAdapter') :
            i + 1 \in 1 .. Len(toAdapter) /\ toAdapter'[i] = toAdapter[i + 1]
    BY <1>1, Tails
<1>3. /\ \A i \in 1 .. Len(fromAdapter') :
                 \/ i \in 1 .. Len(fromAdapter) /\ fromAdapter'[i] = fromAdapter[i]
                 \/ /\ i \notin 1 .. Len(fromAdapter)
                    /\ i - Len(fromAdapter) \in 1 .. Len(ms)
                    /\ fromAdapter'[i] = ms[i - Len(fromAdapter)]
      /\ \A i \in 1 .. Len(fromAdapter) :
                 i \in 1 .. Len(fromAdapter') /\ fromAdapter'[i] = fromAdapter[i]
    BY <1>1, Joins
<1> QED BY <1>2, <1>3

LEMMA Heard ==
    ASSUME Types, fromAdapter # <<>>, fromAdapter' = Tail(fromAdapter)
    PROVE  /\ Len(fromAdapter) \in Nat /\ 1 \in 1 .. Len(fromAdapter)
           /\ Head(fromAdapter) = fromAdapter[1]
           /\ Len(fromAdapter') = Len(fromAdapter) - 1
           /\ \A i \in 1 .. Len(fromAdapter') :
                 i + 1 \in 1 .. Len(fromAdapter) /\ fromAdapter'[i] = fromAdapter[i + 1]
<1>1. fromAdapter \in Seq(Messages)
    BY DEF Types
<1> QED BY <1>1, Tails

LEMMA Moved ==
    ASSUME Types, NEW ms \in Seq(Messages), NEW t, TargetMoves(ms, t)
    PROVE  /\ \A i \in 1 .. Len(fromAdapter') :
                 \/ i \in 1 .. Len(fromAdapter) /\ fromAdapter'[i] = fromAdapter[i]
                 \/ /\ i \notin 1 .. Len(fromAdapter)
                    /\ i - Len(fromAdapter) \in 1 .. Len(ms)
                    /\ fromAdapter'[i] = ms[i - Len(fromAdapter)]
           /\ \A i \in 1 .. Len(fromAdapter) :
                 i \in 1 .. Len(fromAdapter') /\ fromAdapter'[i] = fromAdapter[i]
           /\ target.alive /\ target' = t
           /\ UNCHANGED <<at, session, pending, breakpoints, conditions, inspection,
                          workers, client, fromClient, toAdapter>>
<1>1. fromAdapter \in Seq(Messages) /\ fromAdapter' = fromAdapter \o ms
    BY DEF Types, TargetMoves
<1> QED BY <1>1, Joins DEF TargetMoves

LEMMA AddressedKept ==
    ASSUME SafetyInv, Addressed, [Next]_vars
    PROVE  Addressed'
<1>0. Types
    BY DEF SafetyInv
<1>1. CASE SendsLittle
    <2>1. CASE toAdapter' = toAdapter /\ pending' \subseteq pending
        BY <2>1 DEF Addressed, Address
    <2>2. CASE \E p : Sends(p)
        <3>1. PICK p : Sends(p)
            BY <2>2
        <3>2. PICK ps \in SUBSET pending : Goes(p, ps)
            BY <3>1 DEF Sends
        <3>3. Address(p)
            BY <3>1 DEF Sends
        <3>4. pending' = ps \cup {p}
            BY <3>2 DEF Goes
        <3> QED BY <1>0, <3>2, <3>3, <3>4, Grown DEF Addressed, Address
    <2> QED BY <1>1, <2>1, <2>2 DEF SendsLittle
<1>2. CASE \E p \in Sent, ms \in Seq(Messages) :
               Handle(p, ms, target') /\ Effect(p, ms) /\ Address(p)
    <2>1. PICK p \in Sent, ms \in Seq(Messages) : Handle(p, ms, target')
        BY <1>2
    <2>2. pending' = pending
        BY <2>1 DEF Handle
    <2>3. \A i \in 1 .. Len(toAdapter') :
             i + 1 \in 1 .. Len(toAdapter) /\ toAdapter'[i] = toAdapter[i + 1]
        BY <1>0, <2>1, Handled
    <2>4. ASSUME NEW i \in 1 .. Len(toAdapter')
          PROVE  Address(toAdapter'[i])
        <3>1. i + 1 \in 1 .. Len(toAdapter) /\ toAdapter'[i] = toAdapter[i + 1]
            BY <2>3, <2>4
        <3>2. Address(toAdapter[i + 1])
            BY <3>1 DEF Addressed
        <3> QED BY <3>1, <3>2
    <2>5. \A q \in pending' : Address(q)
        BY <2>2 DEF Addressed
    <2> QED BY <2>4, <2>5 DEF Addressed, Address
<1>3. CASE Shutdown
    <2> DEFINE e == <<>>
    <2>1. Len(e) = 0 /\ toAdapter' = e
        BY <1>3, LastWord
    <2>2. Address(ShutdownRequest)
        BY <1>3, LastWord, Values DEF Address
    <2>3. \A p \in pending' : Address(p)
        BY <1>3, <2>2, LastWord DEF Addressed
    <2> HIDE DEF e
    <2> QED BY <2>1, <2>3 DEF Addressed, Address
<1>4. CASE Apart \/ AdapterAnswers \/ TargetStops \/ TargetExits \/ Crash
    BY <1>4 DEF Apart, AdapterAnswers, TargetStops, TargetExits, Crash, TargetMoves,
       Addressed, Address
<1>5. OwnStep \/ (\E m : MessageStep(m)) => SendsLittle
    BY DEF OwnStep, MessageStep
<1> QED BY <1>1, <1>2, <1>3, <1>4, <1>5, Steps

\* What lldb-dap and the debuggee say of themselves.
KeepsPlace == UNCHANGED <<target.source, target.function, target.launch>>
SaysDone(ms) ==
    /\ target.busy # NoOutgoing /\ target'.busy = NoOutgoing
    /\ target'.state = target.state /\ target'.no = target.no /\ target'.alive
    /\ Len(ms) = 1 /\ ms[1].type = "response" /\ ms[1].request = target.busy
    /\ ms[1].ok /\ ms[1].data = target.no
SaysStopped(ms) ==
    /\ target.state = "running" /\ target'.state = "stopped"
    /\ target'.no = target.no + 1 /\ target'.busy = target.busy /\ target'.alive
    /\ Len(ms) > 0 /\ (PairedStops \/ Len(ms) = 1)
    /\ \A i \in 1 .. Len(ms) :
          /\ ms[i].type = "stopped" /\ ms[i].stop.no = target.no + 1
          /\ ms[i].stop.by \subseteq {target.source, target.function}
SaysExited(ms) ==
    /\ target.state = "running" /\ target'.state = "gone"
    /\ target'.no = target.no /\ target'.busy = target.busy /\ target'.alive
    /\ Len(ms) = 2 /\ ms[1].type = "exited" /\ ms[2].type = "terminated"
SaysFailed(ms) ==
    /\ target'.state = "gone" /\ target'.no = target.no
    /\ target'.busy = target.busy /\ ~target'.alive
    /\ Len(ms) = 1 /\ ms[1].type = "failed"
Reports(ms) ==
    /\ TargetMoves(ms, target') /\ KeepsPlace
    /\ \A i \in 1 .. Len(ms) : ms[i] \in Messages
    /\ SaysDone(ms) \/ SaysStopped(ms) \/ SaysExited(ms) \/ SaysFailed(ms)

LEMMA StopsWorded ==
    ASSUME Types, NEW ids \in SUBSET HitKinds, ids \subseteq Installed, NEW holds \in BOOLEAN
    PROVE  LET m == StopEvent(StopsAt(ids, holds)) IN
           /\ m \in Messages /\ m.type = "stopped" /\ m.stop.no = target.no + 1
           /\ m.stop.by \subseteq {target.source, target.function}
<1>1. target \in Targets
    BY DEF Types
<1>2. InstallersOf(ids) \subseteq {target.source, target.function}
    BY DEF InstallersOf
<1>3. InstallersOf(ids) \in SUBSET Requests
    BY <1>1 DEF InstallersOf, Installed, Targets, HitKinds, NoRequest
<1>4. StopsAt(ids, holds) \in Stops
    BY <1>1, <1>3 DEF StopsAt, Stops, Targets
<1>5. NoOutgoing \in Sent
    BY Values
<1> QED BY <1>2, <1>4, <1>5, Wording DEF StopsAt

LEMMA TargetEffects ==
    ASSUME Types, AdapterAnswers \/ TargetStops \/ TargetExits \/ Crash
    PROVE  \E ms \in Seq(Messages) : Reports(ms)
<1>1. target \in Targets /\ target.busy \in Sent /\ target.no \in Nat
      /\ NoOutgoing \in Sent /\ NoStop \in Stops
    BY Values DEF Types, Targets
<1>2. CASE AdapterAnswers
    <2> DEFINE m == Reply(target.busy, TRUE)
               ms == <<m>>
               t == [target EXCEPT !.busy = NoOutgoing]
    <2>1. m \in Messages /\ m.type = "response" /\ m.request = target.busy /\ m.ok
          /\ m.data = target.no
        BY ZenonT(60), <1>1, Wording
    <2>2. TargetMoves(ms, t) /\ target.busy # NoOutgoing /\ target.alive /\ target' = t
        BY <1>2 DEF AdapterAnswers, TargetMoves
    <2>3. /\ t.busy = NoOutgoing /\ t.state = target.state /\ t.no = target.no
          /\ t.alive = target.alive /\ t.source = target.source
          /\ t.function = target.function /\ t.launch = target.launch
        BY <1>1 DEF Targets
    <2>4. ms \in Seq(Messages) /\ Len(ms) = 1 /\ ms[1] = m
        BY <2>1, Short
    <2> HIDE DEF ms, m, t
    <2>5. SaysDone(ms) /\ KeepsPlace
        BY <2>1, <2>2, <2>3, <2>4 DEF SaysDone, KeepsPlace
    <2>6. \A i \in 1 .. Len(ms) : ms[i] \in Messages
        BY <2>4
    <2>7. Reports(ms)
        BY <2>2, <2>5, <2>6 DEF Reports
    <2> QED BY <2>4, <2>7
<1>3. CASE TargetStops
    <2> DEFINE t == [target EXCEPT !.state = "stopped", !.no = @ + 1]
    <2>1. /\ t.busy = target.busy /\ t.state = "stopped" /\ t.no = target.no + 1
          /\ t.alive = target.alive /\ t.source = target.source
          /\ t.function = target.function /\ t.launch = target.launch
        BY <1>1 DEF Targets
    <2>21. PICK ids \in {i \in HitSets : i \subseteq Installed} :
             \E holds \in IF ids = {} THEN {FALSE} ELSE BOOLEAN :
             \/ TargetMoves(<<StopEvent(StopsAt(ids, holds))>>, t)
             \/ /\ PairedStops
                /\ \E more \in {i \in HitSets : i \subseteq Installed} :
                   \E also \in IF more = {} THEN {FALSE} ELSE BOOLEAN :
                      TargetMoves(<<StopEvent(StopsAt(ids, holds)),
                                    StopEvent(StopsAt(more, also))>>, t)
        BY <1>3 DEF TargetStops
    <2>2. PICK holds \in IF ids = {} THEN {FALSE} ELSE BOOLEAN :
             \/ TargetMoves(<<StopEvent(StopsAt(ids, holds))>>, t)
             \/ /\ PairedStops
                /\ \E more \in {i \in HitSets : i \subseteq Installed} :
                   \E also \in IF more = {} THEN {FALSE} ELSE BOOLEAN :
                      TargetMoves(<<StopEvent(StopsAt(ids, holds)),
                                    StopEvent(StopsAt(more, also))>>, t)
        BY <2>21
    <2>3. target.state = "running"
        BY <1>3 DEF TargetStops
    <2> DEFINE Fits(m) == /\ m \in Messages /\ m.type = "stopped"
                          /\ m.stop.no = target.no + 1
                          /\ m.stop.by \subseteq {target.source, target.function}
    <2>4. \A i \in HitSets, h \in BOOLEAN :
              i \subseteq Installed => Fits(StopEvent(StopsAt(i, h)))
        BY StopsWorded, LiveAssumption
    <2> DEFINE m == StopEvent(StopsAt(ids, holds))
    <2>5. Fits(m)
        BY <2>2, <2>4
    <2> HIDE DEF t, m
    <2>6. ASSUME NEW ms \in Seq(Messages), TargetMoves(ms, t), Len(ms) > 0,
                 PairedStops \/ Len(ms) = 1, \A i \in 1 .. Len(ms) : Fits(ms[i])
          PROVE  Reports(ms)
        <3>1. target' = t /\ target.alive
            BY <2>6 DEF TargetMoves
        <3>2. SaysStopped(ms) /\ KeepsPlace
            BY <2>1, <2>3, <2>6, <3>1 DEF SaysStopped, KeepsPlace
        <3> QED BY <2>6, <3>1, <3>2 DEF Reports
    <2> HIDE DEF Fits
    <2>7. CASE TargetMoves(<<m>>, t)
        <3> DEFINE ms == <<m>>
        <3>1. ms \in Seq(Messages) /\ Len(ms) = 1 /\ ms[1] = m
            BY <2>5, Short DEF Fits
        <3>2. TargetMoves(ms, t)
            BY <2>7
        <3> HIDE DEF ms
        <3>3. \A i \in 1 .. Len(ms) : Fits(ms[i])
            BY <2>5, <3>1
        <3>4. Reports(ms)
            BY <2>6, <3>1, <3>2, <3>3
        <3> QED BY <3>1, <3>4
    <2>8. ASSUME PairedStops,
                 NEW more \in {i \in HitSets : i \subseteq Installed},
                 NEW also \in IF more = {} THEN {FALSE} ELSE BOOLEAN,
                 TargetMoves(<<m, StopEvent(StopsAt(more, also))>>, t)
          PROVE  \E ms \in Seq(Messages) : Reports(ms)
        <3> DEFINE n == StopEvent(StopsAt(more, also))
                   ms == <<m, n>>
        <3>1. Fits(n)
            BY <2>4
        <3>2. ms \in Seq(Messages) /\ Len(ms) = 2 /\ ms[1] = m /\ ms[2] = n
            BY <2>5, <3>1, Short DEF Fits
        <3>3. TargetMoves(ms, t)
            BY <2>8
        <3> HIDE DEF ms, n
        <3>4. \A i \in 1 .. Len(ms) : i = 1 \/ i = 2
            BY <3>2
        <3>5. \A i \in 1 .. Len(ms) : Fits(ms[i])
            BY <2>5, <3>1, <3>2, <3>4
        <3>6. Len(ms) > 0
            BY <3>2
        <3>7. Reports(ms)
            BY <2>6, <2>8, <3>2, <3>3, <3>5, <3>6
        <3> QED BY <3>2, <3>7
    <2> QED BY <2>2, <2>7, <2>8 DEF m
<1>4. CASE TargetExits
    <2> DEFINE e == Event("exited")
               f == Event("terminated")
               ms == <<e, f>>
               t == [target EXCEPT !.state = "gone"]
    <2>1. e \in Messages /\ e.type = "exited" /\ f \in Messages /\ f.type = "terminated"
        BY <1>1, Wording
    <2>2. TargetMoves(ms, t) /\ target.state = "running" /\ target.alive /\ target' = t
        BY <1>4 DEF TargetExits, TargetMoves
    <2>3. /\ t.busy = target.busy /\ t.state = "gone" /\ t.no = target.no
          /\ t.alive = target.alive /\ t.source = target.source
          /\ t.function = target.function /\ t.launch = target.launch
        BY <1>1 DEF Targets
    <2>4. ms \in Seq(Messages) /\ Len(ms) = 2 /\ ms[1] = e /\ ms[2] = f
        BY <2>1, Short
    <2> HIDE DEF ms, e, f, t
    <2>5. SaysExited(ms) /\ KeepsPlace
        BY <2>1, <2>2, <2>3, <2>4 DEF SaysExited, KeepsPlace
    <2>6. \A i \in 1 .. Len(ms) : i = 1 \/ i = 2
        BY <2>4
    <2>7. \A i \in 1 .. Len(ms) : ms[i] \in Messages
        BY <2>1, <2>4, <2>6
    <2>8. Reports(ms)
        BY <2>2, <2>5, <2>7 DEF Reports
    <2> QED BY <2>4, <2>8
<1>5. CASE Crash
    <2> DEFINE e == Event("failed")
               ms == <<e>>
               t == [target EXCEPT !.state = "gone", !.alive = FALSE]
    <2>1. e \in Messages /\ e.type = "failed"
        BY <1>1, Wording
    <2>2. TargetMoves(ms, t) /\ target' = t
        BY <1>5 DEF Crash, TargetMoves
    <2>3. /\ t.busy = target.busy /\ t.state = "gone" /\ t.no = target.no
          /\ ~t.alive /\ t.source = target.source
          /\ t.function = target.function /\ t.launch = target.launch
        BY <1>1 DEF Targets
    <2>4. ms \in Seq(Messages) /\ Len(ms) = 1 /\ ms[1] = e
        BY <2>1, Short
    <2> HIDE DEF ms, e, t
    <2>5. SaysFailed(ms) /\ KeepsPlace
        BY <2>1, <2>2, <2>3, <2>4 DEF SaysFailed, KeepsPlace
    <2>6. \A i \in 1 .. Len(ms) : ms[i] \in Messages
        BY <2>1, <2>4
    <2>7. Reports(ms)
        BY <2>2, <2>5, <2>6 DEF Reports
    <2> QED BY <2>4, <2>7
<1> QED BY <1>2, <1>3, <1>4, <1>5

\* The target starts once, when the configuration is done, and exits once:
\* configurationDone is on its way only to a target that has not started, a
\* disconnect is the last request, and the exit is the last event of a target
\* the session takes for alive.
Configuring(i) == i \in 1 .. Len(toAdapter) /\ toAdapter[i].command = "configurationDone"
Leaving(i) == i \in 1 .. Len(toAdapter) /\ toAdapter[i].command = "disconnect"
Exiting(i) == i \in 1 .. Len(fromAdapter) /\ fromAdapter[i].type = "exited"
Unstarted == target.state = "none" \/ ~target.alive
StartsOnce ==
    /\ ~session.configured => /\ Unstarted \/ session.closing
                              /\ \A i : ~Configuring(i)
    /\ \A i, j : Configuring(i) /\ Configuring(j) => i = j /\ Unstarted
    /\ \A i : Leaving(i) => session.closing /\ i = Len(toAdapter)
ExitsOnce ==
    /\ \A i : Exiting(i) => target.state = "gone" /\ ~session.exited
    /\ \A i, j : Exiting(i) /\ Exiting(j) => i = j
    /\ session.exited => target.state = "gone"

LEMMA StartsKept ==
    ASSUME SafetyInv, Addressed, StartsOnce, [Next]_vars
    PROVE  StartsOnce'
<1>0. Types /\ session \in Flags /\ target \in Targets
    BY DEF SafetyInv, Types
<1>1. CASE SendsLittle /\ Lasts /\ UNCHANGED target
    <2>1. CASE toAdapter' = toAdapter /\ pending' \subseteq pending
        <3>1. ~session'.configured => ~session.configured
            BY <1>1 DEF Lasts
        <3>2. session.closing => session'.closing
            BY <1>1 DEF Lasts
        <3> QED BY <1>1, <2>1, <3>1, <3>2 DEF StartsOnce, Configuring, Leaving, Unstarted
    <2>2. CASE \E p : Sends(p)
        <3>1. PICK p : Sends(p)
            BY <2>2
        <3>2. PICK ps \in SUBSET pending : Goes(p, ps)
            BY <3>1 DEF Sends
        <3>3. /\ ~session.closing
              /\ p.command = "configurationDone" => ~session.configured /\ session'.configured
              /\ p.command = "disconnect" => session'.closing
            BY <3>1 DEF Sends
        <3>4. ~session'.configured => ~session.configured
            BY <1>1 DEF Lasts
        <3>5. /\ Len(toAdapter) \in Nat
              /\ Len(toAdapter') = Len(toAdapter) + 1
              /\ toAdapter'[Len(toAdapter) + 1] = p
              /\ \A i \in 1 .. Len(toAdapter) : toAdapter'[i] = toAdapter[i]
              /\ \A i \in 1 .. Len(toAdapter') :
                    i \in 1 .. Len(toAdapter) \/ i = Len(toAdapter) + 1
            BY <1>0, <3>2, Grown
        <3>6. \A i : Configuring(i)' => \/ Configuring(i)
                                        \/ /\ i = Len(toAdapter) + 1
                                           /\ p.command = "configurationDone"
            BY <3>5 DEF Configuring
        <3>7. \A i : Leaving(i)' => i = Len(toAdapter') /\ session'.closing
            BY <3>3, <3>5 DEF StartsOnce, Leaving
        <3>8. ~session'.configured => Unstarted' /\ \A i : ~Configuring(i)'
            BY <1>1, <3>3, <3>4, <3>6 DEF StartsOnce, Unstarted
        <3>9. \A i, j : Configuring(i)' /\ Configuring(j)' => i = j /\ Unstarted'
            BY <1>1, <3>3, <3>6 DEF StartsOnce, Unstarted
        <3> QED BY <3>7, <3>8, <3>9 DEF StartsOnce
    <2> QED BY <1>1, <2>1, <2>2 DEF SendsLittle
<1>2. CASE \E p \in Sent, ms \in Seq(Messages) :
               Handle(p, ms, target') /\ Effect(p, ms) /\ Address(p)
    <2>1. PICK p \in Sent, ms \in Seq(Messages) : Handle(p, ms, target') /\ Effect(p, ms)
        BY <1>2
    <2>2. session' = session /\ target.alive
        BY <2>1 DEF Handle
    <2>3. /\ p = toAdapter[1] /\ 1 \in 1 .. Len(toAdapter)
          /\ Len(toAdapter) \in Nat
          /\ Len(toAdapter') = Len(toAdapter) - 1
          /\ \A i \in 1 .. Len(toAdapter') :
                i + 1 \in 1 .. Len(toAdapter) /\ toAdapter'[i] = toAdapter[i + 1]
        BY <1>0, <2>1, Handled
    <2>4. \A i : Configuring(i)' => i + 1 \in Int /\ Configuring(i + 1) /\ i \in Int
        BY <2>3 DEF Configuring
    <2>5. \A i : Leaving(i)' => i + 1 \in Int /\ Leaving(i + 1) /\ i \in Int
        BY <2>3 DEF Leaving
    <2>6. p.command = "configurationDone" => Configuring(1)
        BY <2>3 DEF Configuring
    <2>7. p.command = "disconnect" => Leaving(1)
        BY <2>3 DEF Leaving
    <2>8. /\ Transition(p) /\ target'.alive
        BY <2>1 DEF Effect, Keeps
    <2>9. \/ target'.state = target.state
          \/ p.command = "configurationDone"
          \/ target.state # "none" /\ p.command # "disconnect"
          \/ p.command = "disconnect"
        BY <2>8 DEF Transition
    <2>10. \A i, j : Configuring(i)' /\ Configuring(j)' => i = j /\ Unstarted'
        <3> SUFFICES ASSUME NEW i, NEW j, Configuring(i)', Configuring(j)'
                     PROVE  i = j /\ Unstarted'
            OBVIOUS
        <3>1. i \in Int /\ j \in Int /\ Configuring(i + 1) /\ Configuring(j + 1)
            BY <2>4
        <3>2. i + 1 = j + 1 /\ Unstarted
            BY <3>1 DEF StartsOnce
        <3>3. i = j
            BY <3>1, <3>2
        <3>4. p.command # "configurationDone"
            <4> SUFFICES ASSUME p.command = "configurationDone" PROVE FALSE
                OBVIOUS
            <4>1. i + 1 = 1
                BY <2>6, <3>1 DEF StartsOnce
            <4>2. i \in 1 .. Len(toAdapter')
                BY DEF Configuring
            <4> QED BY <2>3, <4>1, <4>2
        <3>5. p.command # "disconnect"
            <4> SUFFICES ASSUME p.command = "disconnect" PROVE FALSE
                OBVIOUS
            <4>1. Len(toAdapter) = 1
                BY <2>7 DEF StartsOnce
            <4>2. i \in 1 .. Len(toAdapter')
                BY DEF Configuring
            <4> QED BY <2>3, <4>1, <4>2
        <3> QED BY <2>2, <2>9, <3>2, <3>3, <3>4, <3>5 DEF Unstarted
    <2>11. \A i : Leaving(i)' => session'.closing /\ i = Len(toAdapter')
        <3> SUFFICES ASSUME NEW i, Leaving(i)'
                     PROVE  session'.closing /\ i = Len(toAdapter')
            OBVIOUS
        <3>1. i \in Int /\ Leaving(i + 1)
            BY <2>5
        <3>2. session.closing /\ i + 1 = Len(toAdapter)
            BY <3>1 DEF StartsOnce
        <3> QED BY <2>2, <2>3, <3>1, <3>2
    <2>12. ASSUME ~session'.configured
           PROVE  (Unstarted' \/ session'.closing) /\ \A i : ~Configuring(i)'
        <3>1. ~session.configured
            BY <2>2, <2>12
        <3>2. (Unstarted \/ session.closing) /\ \A i : ~Configuring(i)
            BY <3>1 DEF StartsOnce
        <3>3. \A i : ~Configuring(i)'
            BY <2>4, <3>2
        <3>4. p.command # "configurationDone"
            BY <2>6, <3>2
        <3>5. p.command = "disconnect" => session.closing
            BY <2>7 DEF StartsOnce
        <3> QED BY <2>2, <2>9, <3>2, <3>3, <3>4, <3>5 DEF Unstarted
    <2> QED BY <2>10, <2>11, <2>12 DEF StartsOnce
<1>3. CASE Shutdown
    <2>1. toAdapter' = <<>> /\ ~target'.alive
        BY <1>0, <1>3 DEF Shutdown, Targets
    <2>2. \A i : ~Configuring(i)' /\ ~Leaving(i)'
        BY <2>1, Short DEF Configuring, Leaving
    <2> QED BY <2>1, <2>2 DEF StartsOnce, Unstarted
<1>4. CASE Apart
    BY <1>4 DEF Apart, StartsOnce, Configuring, Leaving, Unstarted
<1>5. CASE AdapterAnswers \/ TargetStops \/ TargetExits \/ Crash
    <2>1. PICK ms \in Seq(Messages) : Reports(ms)
        BY <1>0, <1>5, TargetEffects
    <2>2. session' = session /\ toAdapter' = toAdapter /\ target.alive
        BY <2>1 DEF Reports, TargetMoves
    <2>3. Unstarted => Unstarted'
        BY <2>1, <2>2 DEF Reports, SaysDone, SaysStopped, SaysExited, SaysFailed, Unstarted
    <2> QED BY <2>2, <2>3 DEF StartsOnce, Configuring, Leaving
<1>6. OwnStep \/ (\E m : MessageStep(m)) => SendsLittle /\ Lasts /\ UNCHANGED target
    BY DEF OwnStep, MessageStep
<1> QED BY <1>1, <1>2, <1>3, <1>4, <1>5, <1>6, Steps

LEMMA ExitsKept ==
    ASSUME SafetyInv, Addressed, StartsOnce, ExitsOnce, [Next]_vars
    PROVE  ExitsOnce'
<1>0. Types /\ session \in Flags /\ target \in Targets
    BY DEF SafetyInv, Types
<1>1. CASE OwnStep
    BY <1>1 DEF OwnStep, ExitsOnce, Exiting
<1>2. CASE \E m : MessageStep(m)
    <2>1. PICK m : MessageStep(m)
        BY <1>2
    <2>2. /\ UNCHANGED target /\ fromAdapter # <<>> /\ m = Head(fromAdapter)
          /\ fromAdapter' = Tail(fromAdapter)
          /\ session'.exited = (session.exited \/ m.type = "exited")
        BY <2>1 DEF MessageStep
    <2>3. /\ m = fromAdapter[1] /\ 1 \in 1 .. Len(fromAdapter)
          /\ \A i \in 1 .. Len(fromAdapter') :
                i + 1 \in 1 .. Len(fromAdapter) /\ fromAdapter'[i] = fromAdapter[i + 1]
        BY <1>0, <2>2, Heard
    <2>4. \A i : Exiting(i)' => i \in Int /\ i > 0 /\ Exiting(i + 1)
        BY <2>3 DEF Exiting
    <2>5. m.type = "exited" => Exiting(1)
        BY <2>3 DEF Exiting
    <2>6. \A i : Exiting(i)' => m.type # "exited"
        <3> SUFFICES ASSUME NEW i, Exiting(i)', m.type = "exited" PROVE FALSE
            OBVIOUS
        <3>1. i \in Int /\ i > 0 /\ Exiting(i + 1) /\ Exiting(1)
            BY <2>4, <2>5
        <3>2. i + 1 = 1
            BY <3>1 DEF ExitsOnce
        <3> QED BY <3>1, <3>2
    <2>7. \A i, j : Exiting(i)' /\ Exiting(j)' => i = j
        <3> SUFFICES ASSUME NEW i, NEW j, Exiting(i)', Exiting(j)' PROVE i = j
            OBVIOUS
        <3>1. i \in Int /\ j \in Int /\ Exiting(i + 1) /\ Exiting(j + 1)
            BY <2>4
        <3>2. i + 1 = j + 1
            BY <3>1 DEF ExitsOnce
        <3> QED BY <3>1, <3>2
    <2>8. \A i : Exiting(i)' => target'.state = "gone" /\ ~session'.exited
        BY <2>2, <2>4, <2>6 DEF ExitsOnce
    <2>9. session'.exited => target'.state = "gone"
        BY <2>2, <2>5 DEF ExitsOnce
    <2> QED BY <2>7, <2>8, <2>9 DEF ExitsOnce
<1>3. CASE \E p \in Sent, ms \in Seq(Messages) :
               Handle(p, ms, target') /\ Effect(p, ms) /\ Address(p)
    <2>1. PICK p \in Sent, ms \in Seq(Messages) : Handle(p, ms, target') /\ Effect(p, ms)
        BY <1>3
    <2>2. session' = session /\ target.alive
        BY <2>1 DEF Handle
    <2>3. \A i \in 1 .. Len(ms) : ms[i].type # "exited"
        BY <2>1 DEF Effect, Speaks, Says
    <2>4. /\ \A i \in 1 .. Len(fromAdapter') :
                 \/ i \in 1 .. Len(fromAdapter) /\ fromAdapter'[i] = fromAdapter[i]
                 \/ /\ i \notin 1 .. Len(fromAdapter)
                    /\ i - Len(fromAdapter) \in 1 .. Len(ms)
                    /\ fromAdapter'[i] = ms[i - Len(fromAdapter)]
          /\ p = toAdapter[1] /\ 1 \in 1 .. Len(toAdapter)
        BY <1>0, <2>1, Handled
    <2>5. \A i : Exiting(i)' => Exiting(i)
        BY <2>3, <2>4 DEF Exiting
    <2>6. p.command = "configurationDone" => target.state = "none"
        BY <2>2, <2>4 DEF StartsOnce, Configuring, Unstarted
    <2>7. target.state = "gone" => target'.state = "gone"
        BY <2>1, <2>6 DEF Effect, Transition
    <2> QED BY <2>2, <2>5, <2>7 DEF ExitsOnce
<1>4. CASE Shutdown
    <2>1. fromAdapter' = <<>> /\ target'.state = "gone"
        BY <1>0, <1>4 DEF Shutdown, Targets
    <2>2. \A i : ~Exiting(i)'
        BY <2>1, Short DEF Exiting
    <2> QED BY <2>1, <2>2 DEF ExitsOnce
<1>5. CASE Apart
    BY <1>5 DEF Apart, ExitsOnce, Exiting
<1>6. CASE AdapterAnswers \/ TargetStops \/ TargetExits \/ Crash
    <2>1. PICK ms \in Seq(Messages) : Reports(ms)
        BY <1>0, <1>6, TargetEffects
    <2>2. session' = session
        BY <2>1 DEF Reports, TargetMoves
    <2>3. \A i \in 1 .. Len(fromAdapter') :
                 \/ i \in 1 .. Len(fromAdapter) /\ fromAdapter'[i] = fromAdapter[i]
                 \/ /\ i \notin 1 .. Len(fromAdapter)
                    /\ i - Len(fromAdapter) \in 1 .. Len(ms)
                    /\ fromAdapter'[i] = ms[i - Len(fromAdapter)]
        BY <1>0, <2>1, Moved DEF Reports
    <2>4. target.state = "gone" => target'.state = "gone"
        BY <2>1 DEF Reports, SaysDone, SaysStopped, SaysExited, SaysFailed
    <2>5. CASE SaysExited(ms)
        <3>1. /\ target.state = "running" /\ target'.state = "gone"
              /\ Len(ms) = 2 /\ ms[2].type # "exited"
            BY <2>5 DEF SaysExited
        <3>2. \A i : ~Exiting(i)
            BY <3>1 DEF ExitsOnce
        <3>3. ~session.exited
            BY <3>1 DEF ExitsOnce
        <3>4. \A i \in 1 .. Len(ms) : i = 1 \/ i = 2
            BY <3>1
        <3>5. Len(fromAdapter) \in Nat
            BY <1>0 DEF Types
        <3>6. \A i : Exiting(i)' => i = Len(fromAdapter) + 1
            <4> SUFFICES ASSUME NEW i, Exiting(i)' PROVE i = Len(fromAdapter) + 1
                OBVIOUS
            <4>1. i \in 1 .. Len(fromAdapter') /\ fromAdapter'[i].type = "exited"
                BY DEF Exiting
            <4>2. ~(i \in 1 .. Len(fromAdapter) /\ fromAdapter'[i] = fromAdapter[i])
                BY <3>2, <4>1 DEF Exiting
            <4>3. /\ i - Len(fromAdapter) \in 1 .. Len(ms)
                  /\ ms[i - Len(fromAdapter)].type = "exited"
                BY <2>3, <4>1, <4>2
            <4>4. i - Len(fromAdapter) = 1
                BY <3>1, <3>4, <4>3
            <4>5. i \in Int
                BY <4>1
            <4> QED BY <3>5, <4>4, <4>5
        <3> QED BY <2>2, <3>1, <3>3, <3>6 DEF ExitsOnce
    <2>6. CASE ~SaysExited(ms)
        <3>1. SaysDone(ms) \/ SaysStopped(ms) \/ SaysFailed(ms)
            BY <2>1, <2>6 DEF Reports
        <3>2. \A i \in 1 .. Len(ms) : ms[i].type # "exited"
            BY <3>1 DEF SaysDone, SaysStopped, SaysFailed
        <3>3. \A i : Exiting(i)' => Exiting(i)
            BY <2>3, <3>2 DEF Exiting
        <3> QED BY <2>2, <2>4, <3>3 DEF ExitsOnce
    <2> QED BY <2>5, <2>6
<1> QED BY <1>1, <1>2, <1>3, <1>4, <1>5, <1>6, Steps

LEMMA InitFlow == Init => Addressed /\ StartsOnce /\ ExitsOnce
<1> SUFFICES ASSUME Init PROVE Addressed /\ StartsOnce /\ ExitsOnce
    OBVIOUS
<1> DEFINE hello == Outgoing(1, NoRequest, "initialize", "client", "none", NoStop, 0, 0)
<1>1. /\ hello.command = "initialize" /\ hello.use = "client"
      /\ pending \in {{}, {hello}} /\ toAdapter \in {<<>>, <<hello>>}
      /\ fromAdapter = <<>>
      /\ ~session.configured => target.state = "none"
      /\ ~session.exited
    <2>1. /\ hello.command = "initialize" /\ hello.use = "client"
        BY DEF Outgoing
    <2>2. pending \in {{}, {hello}} /\ toAdapter \in {<<>>, <<hello>>} /\ fromAdapter = <<>>
        BY Zenon DEF Init
    <2>3. session = IF StartRunning
                 THEN [FlagsAtLaunch EXCEPT !.ready = TRUE,
                           !.configured = TRUE, !.launchAnswered = TRUE]
                 ELSE FlagsAtLaunch
        BY DEF Init
    <2>4. (~session.configured => ~StartRunning) /\ ~session.exited
        BY <2>3 DEF FlagsAtLaunch
    <2>5. ~StartRunning => target.state = "none"
        BY DEF Init
    <2> QED BY <2>1, <2>2, <2>4, <2>5
<1> HIDE DEF hello
<1>2. Address(hello)
    BY <1>1 DEF Address, Workers
<1>3. \A i \in 1 .. Len(toAdapter) : toAdapter[i] = hello
    <2>1. CASE toAdapter = <<>>
        BY <2>1, Short
    <2>2. CASE toAdapter = <<hello>>
        <3>1. Len(toAdapter) = 1 /\ toAdapter[1] = hello
            BY <2>2, Short
        <3> QED BY <3>1
    <2> QED BY <1>1, <2>1, <2>2
<1>4. Addressed
    BY <1>1, <1>2, <1>3 DEF Addressed
<1>5. \A i : ~Configuring(i) /\ ~Leaving(i)
    BY <1>1, <1>3 DEF Configuring, Leaving
<1>6. \A i : ~Exiting(i)
    BY <1>1, Short DEF Exiting
<1>7. StartsOnce
    BY <1>1, <1>5 DEF StartsOnce, Unstarted
<1>8. ExitsOnce
    BY <1>1, <1>6 DEF ExitsOnce
<1> QED BY <1>4, <1>7, <1>8

FlowInv == AnswersInv /\ SafetyInv /\ Addressed /\ StartsOnce /\ ExitsOnce

LEMMA FlowHolds == Spec => []FlowInv
<1>1. Init => Addressed /\ StartsOnce /\ ExitsOnce
    BY InitFlow
<1>2. SafetyInv /\ Addressed /\ StartsOnce /\ ExitsOnce /\ [Next]_vars
      => (Addressed /\ StartsOnce /\ ExitsOnce)'
    BY AddressedKept, StartsKept, ExitsKept
<1> QED BY <1>1, <1>2, AnswersHold, SafetyHolds, PTL DEF Spec, FlowInv

-----------------------------------------------------------------------------
(* The jobs of the function and the panic worker.                            *)

\* The jobs a worker has queued or is at.
Load(me) == Len(me.queue) + Count(me.pc # "idle")
Held(me) == {me.queue[i] : i \in 1 .. Len(me.queue)}
            \cup (IF me.pc = "idle" THEN {} ELSE {me.job})

LEMMA LoadTyped ==
    ASSUME NEW me \in WorkerStates
    PROVE  /\ Load(me) \in Nat /\ Len(me.queue) \in Nat
           /\ Load(me) = 0 => Held(me) = {}
           /\ Held(me) \subseteq Orders
<1>1. me.queue \in Seq(Orders) /\ Len(me.queue) \in Nat /\ me.job \in Orders
    BY DEF WorkerStates
<1>2. Count(me.pc # "idle") \in {0, 1} /\ (Count(me.pc # "idle") = 0 <=> me.pc = "idle")
    BY DEF Count
<1>3. Load(me) = 0 => Len(me.queue) = 0 /\ me.pc = "idle"
    BY <1>1, <1>2 DEF Load
<1>4. Load(me) = 0 => Held(me) = {}
    BY <1>3 DEF Held
<1> QED BY <1>1, <1>2, <1>4 DEF Load, Held

LEMMA SameLoad ==
    ASSUME NEW me, NEW to, to.queue = me.queue, to.job = me.job,
           to.pc = "idle" <=> me.pc = "idle"
    PROVE  Load(to) = Load(me) /\ Held(to) = Held(me)
<1>1. Count(to.pc # "idle") = Count(me.pc # "idle")
    BY DEF Count
<1> QED BY <1>1 DEF Load, Held

LEMMA ReleaseLoad ==
    ASSUME NEW ws \in [Workers -> WorkerStates], NEW S, NEW w \in Workers
    PROVE  Load(Release(ws, S)[w]) = Load(ws[w]) /\ Held(Release(ws, S)[w]) = Held(ws[w])
<1> DEFINE to == Release(ws, S)[w]
           me == ws[w]
<1>1. me \in WorkerStates
    OBVIOUS
<1>2. \/ to = me
      \/ to = [me EXCEPT !.pc = "replied", !.seq = 0, !.result = "error"] /\ me.pc = "wait"
    BY DEF Release
<1> HIDE DEF to, me
<1>3. to.queue = me.queue /\ to.job = me.job /\ (to.pc = "idle" <=> me.pc = "idle")
    BY <1>1, <1>2 DEF WorkerStates
<1>4. Load(to) = Load(me) /\ Held(to) = Held(me)
    BY <1>3, SameLoad
<1> QED BY <1>4 DEF to, me

LEMMA EnqueueLoad ==
    ASSUME NEW ws \in [Workers -> WorkerStates], NEW v \in Workers, NEW job \in Orders,
           NEW w \in Workers
    PROVE  /\ w # v => Enqueue(ws, v, job)[w] = ws[w]
           /\ w = v => /\ Load(Enqueue(ws, v, job)[w]) = Load(ws[w]) + 1
                       /\ Held(Enqueue(ws, v, job)[w]) \subseteq Held(ws[w]) \cup {job}
<1>1. w # v => Enqueue(ws, v, job)[w] = ws[w]
    BY DEF Enqueue
<1>2. ASSUME w = v
      PROVE  /\ Load(Enqueue(ws, v, job)[w]) = Load(ws[w]) + 1
             /\ Held(Enqueue(ws, v, job)[w]) \subseteq Held(ws[w]) \cup {job}
    <2> DEFINE to == Enqueue(ws, v, job)[w]
               me == ws[w]
    <2>1. me \in WorkerStates
        OBVIOUS
    <2>2. to = [me EXCEPT !.queue = Append(me.queue, job)]
        BY <1>2 DEF Enqueue
    <2> HIDE DEF to, me
    <2>3. /\ to.queue = Append(me.queue, job) /\ to.job = me.job /\ to.pc = me.pc
          /\ me.queue \in Seq(Orders)
        BY <2>1, <2>2 DEF WorkerStates
    <2>4. /\ Len(to.queue) = Len(me.queue) + 1 /\ to.queue[Len(me.queue) + 1] = job
          /\ \A i \in 1 .. Len(me.queue) : to.queue[i] = me.queue[i]
          /\ \A i \in 1 .. Len(to.queue) : i \in 1 .. Len(me.queue) \/ i = Len(me.queue) + 1
        BY <2>3, Appends
    <2>5. Held(to) \subseteq Held(me) \cup {job}
        BY <2>3, <2>4 DEF Held
    <2>6. Load(to) = Load(me) + 1
        <3>1. Len(me.queue) \in Nat /\ Count(me.pc # "idle") \in Nat
            BY <2>3 DEF Count
        <3> QED BY <2>3, <2>4, <3>1 DEF Load
    <2> QED BY <2>5, <2>6 DEF to, me
<1> QED BY <1>1, <1>2

LEMMA RestedLoad ==
    ASSUME Types, NEW v \in Workers, workers[v].pc = "done", NEW w \in Workers
    PROVE  /\ w # v => Rested(v)[w] = workers[w]
           /\ w = v => /\ Load(Rested(v)[w]) = Load(workers[w]) - 1
                       /\ Held(Rested(v)[w]) \subseteq Held(workers[w])
<1>1. w # v => Rested(v)[w] = workers[w]
    BY DEF Rested, Types
<1>2. ASSUME w = v
      PROVE  /\ Load(Rested(v)[w]) = Load(workers[w]) - 1
             /\ Held(Rested(v)[w]) \subseteq Held(workers[w])
    <2> DEFINE to == Rested(v)[w]
               me == workers[w]
    <2>1. me \in WorkerStates /\ me.pc = "done"
        BY <1>2 DEF Types
    <2>2. to = [me EXCEPT !.pc = "idle", !.job = NoJob, !.result = "none", !.data = 0]
        BY <1>2 DEF Rested, Types
    <2> HIDE DEF to, me
    <2>3. to.queue = me.queue /\ to.pc = "idle" /\ Len(me.queue) \in Nat
        BY <2>1, <2>2 DEF WorkerStates
    <2>4. Count(to.pc # "idle") = 0 /\ Count(me.pc # "idle") = 1
        BY <2>1, <2>3 DEF Count
    <2>5. Load(to) = Load(me) - 1 /\ Held(to) \subseteq Held(me)
        BY <2>3, <2>4 DEF Load, Held
    <2> QED BY <2>5 DEF to, me
<1> QED BY <1>1, <1>2

\* The two workers whose breakpoint work execution waits for.
Installers == {"function", "panic"}
Idle(w, b) == IF w = "function" THEN b.function = NoRequest ELSE b.panic = None

SteadyAt(w) == /\ Load(workers'[w]) = Load(workers[w])
               /\ Held(workers'[w]) \subseteq Held(workers[w])
Steady == \A w \in Installers : SteadyAt(w)
Holding == /\ breakpoints'.function = breakpoints.function
           /\ breakpoints'.panic = breakpoints.panic
\* Work is cancelled, and the request it is for is refused.
Voids ==
    /\ breakpoints'.function = NoRequest /\ breakpoints'.panic = None
    /\ breakpoints.function # NoRequest
          => client'.outcome[breakpoints.function] = "error"
Cancelling ==
    /\ Voids
    /\ \/ ~(at' \in {"loop", "drain"}) \/ session'.closing \/ session'.ended
       \/ session'.exited /\ Exiting(1)
Begins(w) ==
    /\ Working /\ ~WorkPending /\ ~session.closing /\ ~session.ended
    /\ Load(workers'[w]) = Load(workers[w]) + 1
    /\ \E job \in Orders : /\ Held(workers'[w]) \subseteq Held(workers[w]) \cup {job}
                           /\ w = "function" => job.cause = breakpoints'.function
    /\ \A v \in Installers \ {w} :
          SteadyAt(v) /\ (Idle(v, breakpoints') <=> Idle(v, breakpoints))
    /\ ~Idle(w, breakpoints')
Finishes(w) ==
    /\ workers[w].pc = "done"
    /\ Load(workers'[w]) = Load(workers[w]) - 1
    /\ Held(workers'[w]) \subseteq Held(workers[w])
    /\ \A v \in Installers \ {w} : SteadyAt(v)
    /\ \/ ~(at' \in {"loop", "drain"}) /\ Voids
       \/ /\ Idle(w, breakpoints')
          /\ \A v \in Installers \ {w} : Idle(v, breakpoints') <=> Idle(v, breakpoints)
          /\ w = "function" \/ breakpoints'.function = breakpoints.function
          /\ w = "function" /\ breakpoints.function # NoRequest
                => client'.outcome[breakpoints.function] = "ok"
JobStep == \/ Steady /\ Holding
           \/ Steady /\ Cancelling
           \/ \E w \in Installers : Begins(w) \/ Finishes(w)

\* Cancelling answers with an error, and nothing that follows takes it back.
LEMMA CancelledVoids ==
    ASSUME Types, NEW c \in Editors, breakpoints' = CancelledWork,
           LET d == AnswerStale(AnswerCancelled(c)) IN
           \/ client' \in {CancelLaunch(d), TellExited(d), TellTerminated(d)}
           \/ \E S : client' = Answer(CancelLaunch(d), S, "error")
    PROVE  Voids
<1>0. breakpoints \in BreakpointStates /\ breakpoints.function \in Others \cup {NoRequest}
      /\ Others \subseteq Requests
    BY DEF Types, BreakpointStates, Others
<1>1. breakpoints'.function = NoRequest /\ breakpoints'.panic = None
    BY <1>0 DEF CancelledWork, BreakpointStates
<1>2. SUFFICES ASSUME breakpoints.function # NoRequest
               PROVE  client'.outcome[breakpoints.function] = "error"
    BY <1>1 DEF Voids
<1> DEFINE f == breakpoints.function
           d == AnswerCancelled(c)
<1>3. f \in Requests
    BY <1>0, <1>2
<1>4. \A S : \A e \in Editors : Answer(e, S, "error").outcome
                               = [r \in Requests |-> IF r \in S THEN "error" ELSE e.outcome[r]]
    BY DEF Answer, Editors
<1>5. \A S : \A e \in Editors : Answer(e, S, "error") \in Editors
    BY AnswerTyped
<1>6. \A S : \A e \in Editors : f \in S \/ e.outcome[f] = "error"
                               => Answer(e, S, "error").outcome[f] = "error"
    <2> HIDE DEF f
    <2> SUFFICES ASSUME NEW e \in Editors, NEW S, f \in S \/ e.outcome[f] = "error"
                 PROVE  Answer(e, S, "error").outcome[f] = "error"
        OBVIOUS
    <2>1. Answer(e, S, "error").outcome
              = [r \in Requests |-> IF r \in S THEN "error" ELSE e.outcome[r]]
        BY <1>4
    <2> QED BY <1>3, <2>1
<1>7. d \in Editors /\ d.outcome[f] = "error"
    <2> DEFINE e == Answer(c, {f} \cap Requests, "error")
               g == Answer(e, {breakpoints.panic} \cap Requests, "error")
    <2>1. e \in Editors /\ e.outcome[f] = "error"
        BY <1>3, <1>5, <1>6
    <2>2. g \in Editors /\ g.outcome[f] = "error"
        <3> HIDE DEF e
        <3> QED BY <1>5, <1>6, <2>1
    <2>3. d = Answer(g, {breakpoints.deferred[i].seq : i \in DOMAIN breakpoints.deferred},
                     "error")
        BY DEF AnswerCancelled
    <2> HIDE DEF e, g, d
    <2> QED BY <1>5, <1>6, <2>2, <2>3
<1> HIDE DEF d, f
<1>8. AnswerStale(d) \in Editors /\ AnswerStale(d).outcome[f] = "error"
    BY <1>5, <1>6, <1>7 DEF AnswerStale
<1> DEFINE e == AnswerStale(d)
<1> HIDE DEF e
<1>9. e \in Editors /\ e.outcome[f] = "error"
    BY <1>8 DEF e
<1>10. /\ CancelLaunch(e) \in Editors /\ CancelLaunch(e).outcome[f] = "error"
       /\ TellExited(e).outcome = e.outcome
       /\ TellTerminated(e).outcome = e.outcome
    <2>1. TellExited(e).outcome = e.outcome
        BY <1>9 DEF TellExited, Editors
    <2>2. TellTerminated(e).outcome = e.outcome
        BY <1>9 DEF TellTerminated, TellExited, Editors
    <2>3. CancelLaunch(e) \in Editors /\ CancelLaunch(e).outcome[f] = "error"
        BY <1>5, <1>6, <1>9 DEF CancelLaunch
    <2> QED BY <2>1, <2>2, <2>3
<1>11. \A S : Answer(CancelLaunch(e), S, "error").outcome[f] = "error"
    BY <1>6, <1>10
<1>12. \/ client' \in {CancelLaunch(e), TellExited(e), TellTerminated(e)}
       \/ \E S : client' = Answer(CancelLaunch(e), S, "error")
    BY DEF e, d
<1> QED BY <1>9, <1>10, <1>11, <1>12 DEF f

LEMMA StandStill ==
    ASSUME workers' = workers
    PROVE  Steady
BY DEF Steady, SteadyAt

LEMMA Releasing ==
    ASSUME Types, NEW S, workers' = Release(workers, S)
    PROVE  Steady
<1>1. workers \in [Workers -> WorkerStates] /\ Installers \subseteq Workers
    BY DEF Types, Installers, Workers
<1> QED BY <1>1, ReleaseLoad DEF Steady, SteadyAt

\* The step of one worker that keeps its queue and its job, or that is not an
\* installer's.
LEMMA OneWorker ==
    ASSUME Types, NEW v \in Workers, NEW to, workers' = [workers EXCEPT ![v] = to],
           v \in Installers => /\ Load(to) = Load(workers[v])
                               /\ Held(to) \subseteq Held(workers[v])
    PROVE  Steady
<1>1. workers \in [Workers -> WorkerStates] /\ Installers \subseteq Workers
    BY DEF Types, Installers, Workers
<1> SUFFICES ASSUME NEW w \in Installers PROVE SteadyAt(w)
    BY DEF Steady
<1>2. CASE w = v
    <2>1. workers'[w] = to
        BY <1>1, <1>2
    <2> QED BY <1>2, <2>1 DEF SteadyAt
<1>3. CASE w # v
    <2>1. workers'[w] = workers[w]
        BY <1>1, <1>3
    <2> QED BY <2>1 DEF SteadyAt
<1> QED BY <1>2, <1>3

LEMMA Queueing ==
    ASSUME Types, NEW v \in Workers \ Installers, NEW job \in Orders,
           NEW S, workers' \in {Enqueue(workers, v, job), Enqueue(Release(workers, S), v, job)}
    PROVE  Steady
<1>1. workers \in [Workers -> WorkerStates] /\ Installers \subseteq Workers
    BY DEF Types, Installers, Workers
<1>2. Release(workers, S) \in [Workers -> WorkerStates]
    BY <1>1, ReleaseTyped
<1>3. \A w \in Installers : workers'[w] = workers[w] \/ workers'[w] = Release(workers, S)[w]
    BY <1>1, <1>2, EnqueueLoad
<1> QED BY <1>1, <1>3, ReleaseLoad DEF Steady, SteadyAt

LEMMA Beginning ==
    ASSUME Types, NEW w \in Installers, NEW job \in Orders,
           workers' = Enqueue(workers, w, job),
           Working, ~WorkPending, ~session.closing, ~session.ended,
           w = "function" => job.cause = breakpoints'.function,
           \A v \in Installers \ {w} : Idle(v, breakpoints') <=> Idle(v, breakpoints),
           ~Idle(w, breakpoints')
    PROVE  Begins(w)
<1>1. workers \in [Workers -> WorkerStates] /\ Installers \subseteq Workers
    BY DEF Types, Installers, Workers
<1>2. /\ Load(workers'[w]) = Load(workers[w]) + 1
      /\ Held(workers'[w]) \subseteq Held(workers[w]) \cup {job}
    BY <1>1, EnqueueLoad
<1>3. \A v \in Installers \ {w} : workers'[v] = workers[v]
    BY <1>1, EnqueueLoad
<1>4. \A v \in Installers \ {w} : SteadyAt(v)
    BY <1>3 DEF SteadyAt
<1> QED BY <1>2, <1>4 DEF Begins

LEMMA PerformJobs ==
    ASSUME Types, NEW req \in Asks, NEW b \in BreakpointStates, Perform(req, b),
           b.function = breakpoints.function, b.panic = breakpoints.panic,
           Working, ~session.closing, Deferrable(req.command) => ~WorkPending
    PROVE  (Steady /\ Holding) \/ \E w \in Installers : Begins(w)
<1>1. workers \in [Workers -> WorkerStates] /\ session \in Flags
    BY DEF Types
<1>2. CASE \/ Refused(req) /\ ReplyAtOnce(req, "error", b)
           \/ ReplaceSources(req, b) \/ Threads(req, b) \/ StackTrace(req, b)
           \/ Pause(req, b)
    <2>1. workers' = workers /\ breakpoints' = b
        BY <1>2 DEF ReplyAtOnce, ReplaceSources, Threads, StackTrace, Pause
    <2> QED BY <2>1, StandStill DEF Holding
<1>3. CASE Resume(req, b)
    <2>1. workers' = Release(workers, {"inspection", "condition"}) /\ breakpoints' = b
        BY <1>3 DEF Resume
    <2> QED BY <2>1, Releasing DEF Holding
<1>4. CASE Variables(req, b)
    <2> DEFINE job == [NoJob EXCEPT !.cause = req.seq, !.epoch = InspectionEpoch,
                                    !.frame = req.frame]
    <2>1. workers' = Enqueue(workers, "inspection", job) /\ breakpoints' = b
        BY <1>4 DEF Variables
    <2>2. InspectionEpoch \in Revisions
        BY <1>1, Values DEF InspectionEpoch, Flags, Revisions
    <2>3. job \in Orders
        BY <2>2, Values DEF Orders, Asks
    <2>4. "inspection" \in Workers \ Installers
        BY DEF Workers, Installers
    <2> HIDE DEF job
    <2>5. Steady
        BY <2>1, <2>3, <2>4, Queueing
    <2> QED BY <2>1, <2>5 DEF Holding
<1>5. CASE ReplaceFunctions(req, b)
    <2> DEFINE job == [NoJob EXCEPT !.cause = req.seq, !.kind = req.kind]
    <2>1. /\ workers' = Enqueue(workers, "function", job)
          /\ breakpoints' = [b EXCEPT !.function = req.seq, !.requested = req.kind]
          /\ ~session.ended /\ req.command = "setFunctionBreakpoints" /\ Valid(req)
        BY <1>5 DEF ReplaceFunctions, Configurable
    <2>2. job \in Orders /\ job.cause = req.seq
        BY <2>1, Values DEF Orders, Asks, KnownKinds, Valid, NoJob
    <2>3. breakpoints'.function = req.seq /\ breakpoints'.panic = b.panic
        BY <2>1 DEF BreakpointStates
    <2>4. req.seq # NoRequest
        BY DEF Asks, Requests, NoRequest
    <2>5. ~WorkPending
        BY <2>1 DEF Deferrable
    <2> HIDE DEF job
    <2>6. "function" \in Installers /\ \A v \in Installers \ {"function"} : v = "panic"
        BY DEF Installers
    <2>7. Begins("function")
        BY <2>1, <2>2, <2>3, <2>4, <2>5, <2>6, Beginning DEF Idle
    <2> QED BY <2>6, <2>7
<1>6. ASSUME NEW job \in Orders, workers' = Enqueue(workers, "panic", job),
             ~WorkPending, ~session.ended, breakpoints'.function = b.function,
             breakpoints'.panic # None
      PROVE  \E w \in Installers : Begins(w)
    <2>1. "panic" \in Installers /\ \A v \in Installers \ {"panic"} : v = "function"
        BY DEF Installers
    <2>2. Begins("panic")
        BY <1>6, <2>1, Beginning DEF Idle
    <2> QED BY <2>1, <2>2
<1>7. CASE ReplacePanic(req, b)
    <2> DEFINE job == [NoJob EXCEPT !.cause = req.seq, !.kind = req.kind]
    <2>1. /\ workers' = Enqueue(workers, "panic", job)
          /\ breakpoints' = [b EXCEPT !.panic = req.seq]
          /\ ~session.ended /\ req.command = "setExceptionBreakpoints" /\ Valid(req)
        BY <1>7 DEF ReplacePanic, Configurable
    <2>2. job \in Orders
        BY <2>1, Values DEF Orders, Asks, KnownKinds, Valid, NoJob
    <2>3. breakpoints'.function = b.function /\ breakpoints'.panic = req.seq
        BY <2>1 DEF BreakpointStates
    <2>4. req.seq # None
        BY DEF Asks, Requests, None
    <2>5. ~WorkPending
        BY <2>1 DEF Deferrable
    <2> HIDE DEF job
    <2> QED BY <1>6, <2>1, <2>2, <2>3, <2>4, <2>5
<1>8. CASE ConfigurationDone(req, b)
    <2>1. CASE b.panicConfigured
        <3>1. workers' = workers /\ breakpoints' = b
            BY <1>8, <2>1 DEF ConfigurationDone
        <3> QED BY <3>1, StandStill DEF Holding
    <2>2. CASE ~b.panicConfigured
        <3> DEFINE job == [NoJob EXCEPT !.kind = "plain"]
        <3>1. /\ workers' = Enqueue(workers, "panic", job)
              /\ breakpoints' = [b EXCEPT !.panic = 0, !.deferred = Append(@, req)]
              /\ ~session.ended /\ req.command = "configurationDone"
            BY <1>8, <2>2 DEF ConfigurationDone, Configurable
        <3>2. job \in Orders
            BY Values DEF Orders, KnownKinds, Kinds, NoJob
        <3>3. breakpoints'.function = b.function /\ breakpoints'.panic = 0
            BY <3>1 DEF BreakpointStates
        <3>4. 0 # None
            BY DEF None
        <3>5. ~WorkPending
            BY <3>1 DEF Deferrable
        <3> HIDE DEF job
        <3> QED BY <1>6, <3>1, <3>2, <3>3, <3>4, <3>5
    <2> QED BY <2>1, <2>2
<1> QED BY <1>2, <1>3, <1>4, <1>5, <1>7, <1>8 DEF Perform

LEMMA ClientJobs ==
    ASSUME Types, OnClient
    PROVE  JobStep
<1> SUFFICES ASSUME NEW req, req = Head(fromClient), fromClient # <<>>,
                    \/ DeferRequest(req) \/ InterruptCondition(req)
                    \/ PerformRequest(req) \/ Disconnect(req)
                    \/ RefuseWhileClosing(req) \/ ClientEof(req)
             PROVE  JobStep
    BY DEF OnClient
<1>1. /\ req \in Asks \cup Eofs
      /\ req.command # "eof" => req \in Asks
      /\ breakpoints \in BreakpointStates /\ session \in Flags
    BY HeadTyped DEF Types, Eofs
<1>2. CASE DeferRequest(req)
    <2>1. /\ workers' = workers
          /\ \/ breakpoints' = breakpoints
             \/ breakpoints' = [breakpoints EXCEPT !.deferred = Append(@, req)]
        BY <1>2 DEF DeferRequest, ReplyAtOnce
    <2>2. Holding
        BY <1>1, <2>1 DEF Holding, BreakpointStates
    <2> QED BY <2>1, <2>2, StandStill DEF JobStep
<1>3. CASE InterruptCondition(req) \/ RefuseWhileClosing(req) \/ ClientEof(req)
    <2>1. workers' = workers /\ breakpoints' = breakpoints
        BY <1>3 DEF InterruptCondition, RefuseWhileClosing, ClientEof, ReplyAtOnce
    <2> QED BY <2>1, StandStill DEF JobStep, Holding
<1>4. CASE PerformRequest(req)
    <2>1. /\ req.command # "eof" /\ ~session.closing /\ Perform(req, breakpoints)
          /\ ~MustDefer(req) /\ Working
        BY <1>4 DEF PerformRequest, TakeRequest, Working
    <2>2. Deferrable(req.command) => ~WorkPending
        BY <2>1 DEF MustDefer
    <2> QED BY <1>1, <2>1, <2>2, PerformJobs DEF JobStep
<1>5. CASE Disconnect(req)
    <2>1. /\ workers' = Release(workers, Workers) /\ breakpoints' = CancelledWork
          /\ session' = [session EXCEPT !.closing = TRUE, !.launchAnswered = TRUE]
          /\ client' = CancelLaunch(AnswerStale(AnswerCancelled(client)))
        BY <1>5 DEF Disconnect
    <2>2. session'.closing
        BY <1>1, <2>1 DEF Flags
    <2>3. Voids
        BY <2>1, CancelledVoids DEF Types
    <2> QED BY <2>1, <2>2, <2>3, Releasing DEF JobStep, Cancelling
<1> QED BY <1>2, <1>3, <1>4, <1>5

LEMMA PublishJobs ==
    ASSUME Types, NEW stop \in Stops, NEW c, NEW cond, NEW ws, NEW revision \in Nat,
           NEW S, ws \in {workers, Release(workers, S)},
           \/ PublishStop(stop, c, cond, ws, revision)
           \/ PublishConditionStop(stop, c, cond, ws, revision)
    PROVE  Steady
<1> DEFINE job == ConditionJob(stop, revision)
<1>1. job \in Orders
    BY Values DEF ConditionJob, Orders, Revisions
<1>2. workers' \in {ws, Enqueue(ws, "condition", job)}
    BY DEF PublishStop, PublishConditionStop
<1>3. "condition" \in Workers \ Installers
    BY DEF Workers, Installers
<1> HIDE DEF job
<1>4. \/ workers' \in {workers, Release(workers, S)}
      \/ workers' \in {Enqueue(workers, "condition", job),
                       Enqueue(Release(workers, S), "condition", job)}
    BY <1>2
<1> QED BY <1>1, <1>3, <1>4, StandStill, Releasing, Queueing

LEMMA DrainJobs ==
    ASSUME Types, Closed, DrainsAtRest, DrainStop \/ DrainRequest
    PROVE  JobStep
<1>1. /\ breakpoints \in BreakpointStates /\ session \in Flags /\ session.revision \in Nat
      /\ ~session.closing
    BY DEF Types, Flags, Closed, DrainStop, DrainRequest
<1>2. CASE DrainStop
    <2>1. Head(breakpoints.stops) \in Stops
        BY <1>1, <1>2 DEF DrainStop, BreakpointStates
    <2>2. /\ breakpoints' = [breakpoints EXCEPT !.stops = Tail(@)]
          /\ PublishStop(Head(breakpoints.stops), client, conditions, workers,
                         session.revision)
        BY <1>2 DEF DrainStop
    <2>3. Holding
        BY <1>1, <2>2 DEF Holding, BreakpointStates
    <2> QED BY <1>1, <2>1, <2>2, <2>3, PublishJobs DEF JobStep
<1>3. CASE DrainRequest
    <2> DEFINE req == Head(breakpoints.deferred)
               b == [breakpoints EXCEPT !.deferred = Tail(@)]
    <2>1. /\ breakpoints.deferred # <<>> /\ breakpoints.stops = <<>> /\ at = "drain"
          /\ Perform(req, b) /\ Working
        BY <1>3 DEF DrainRequest, Working
    <2>2. breakpoints.deferred \in Seq(Asks) /\ Tail(breakpoints.deferred) \in Seq(Asks)
          /\ req \in Asks
        BY <1>1, <2>1 DEF BreakpointStates
    <2>3. b \in BreakpointStates /\ b.function = breakpoints.function
          /\ b.panic = breakpoints.panic
        BY <1>1, <2>2 DEF BreakpointStates
    <2>4. ~WorkPending
        BY <2>1 DEF DrainsAtRest
    <2> HIDE DEF req, b
    <2> QED BY <1>1, <2>1, <2>2, <2>3, <2>4, PerformJobs DEF JobStep
<1> QED BY <1>2, <1>3

LEMMA RaiseJobs ==
    ASSUME Types, NEW c \in Editors, NEW ps, Raise(c, ps, workers)
    PROVE  JobStep
<1>1. /\ workers' = Release(workers, Workers) /\ breakpoints' = CancelledWork
      /\ at' = "shutdown" /\ breakpoints \in BreakpointStates
    BY DEF Raise, Types
<1>2. Voids
    BY CancelledVoids DEF Raise
<1> QED BY <1>1, <1>2, Releasing DEF JobStep, Cancelling

LEMMA TimeoutJobs ==
    ASSUME Types, Timeout
    PROVE  JobStep
<1>1. CASE Raise(client, pending, workers)
    BY <1>1, RaiseJobs DEF Types
<1>2. CASE workers' = workers /\ breakpoints' = breakpoints
    BY <1>2, StandStill DEF JobStep, Holding
<1> QED BY <1>1, <1>2 DEF Timeout

LEMMA ReplyJobs ==
    ASSUME Types, NEW m,
           \/ OnConditionContinued(m) \/ \E w \in Workers : OnWorkerReply(m, w)
           \/ \E panicked \in BOOLEAN : OnStopClassified(m, panicked)
           \/ OnStackTrace(m) \/ OnSourcesReplaced(m) \/ OnInitialize(m)
           \/ OnLaunched(m) \/ OnConfigured(m) \/ OnResumed(m) \/ OnPauseAnswered(m)
           \/ OnThreads(m) \/ OnDisconnected(m)
    PROVE  JobStep
<1>1. CASE \E w \in Workers : OnWorkerReply(m, w)
    <2>1. PICK w \in Workers : OnWorkerReply(m, w)
        BY <1>1
    <2>2. breakpoints' = breakpoints
        BY <2>1 DEF OnWorkerReply
    <2>3. CASE workers' = workers
        BY <2>2, <2>3, StandStill DEF JobStep, Holding
    <2>4. CASE workers' # workers
        <3> DEFINE me == workers[w]
                   to == [me EXCEPT !.pc = "replied", !.seq = 0,
                                    !.result = m.value, !.data = m.data]
        <3>1. workers' = [workers EXCEPT ![w] = to] /\ me.pc = "wait" /\ me \in WorkerStates
            BY <2>1, <2>4 DEF OnWorkerReply, Types
        <3> HIDE DEF me
        <3>2. to.queue = me.queue /\ to.job = me.job /\ (to.pc = "idle" <=> me.pc = "idle")
            BY <3>1 DEF WorkerStates
        <3> HIDE DEF to
        <3>3. Load(to) = Load(me) /\ Held(to) = Held(me)
            BY <3>2, SameLoad
        <3>4. Steady
            BY <3>1, <3>3, OneWorker DEF me
        <3> QED BY <2>2, <3>4 DEF JobStep, Holding
    <2> QED BY <2>3, <2>4
<1>2. CASE \E panicked \in BOOLEAN : OnStopClassified(m, panicked)
    <2>1. PICK panicked \in BOOLEAN : OnStopClassified(m, panicked)
        BY <1>2
    <2>2. breakpoints' = breakpoints
        BY <2>1 DEF OnStopClassified
    <2>3. m.request.stop \in Stops /\ session.revision \in Nat
        BY <2>1 DEF OnStopClassified, TakeResponse, Types, Sent, Flags
    <2>4. \/ workers' = workers
          \/ PublishConditionStop(m.request.stop, client, conditions, workers,
                                  session.revision)
        BY <2>1 DEF OnStopClassified
    <2>5. Steady
        BY <2>3, <2>4, StandStill, PublishJobs
    <2> QED BY <2>2, <2>5 DEF JobStep, Holding
<1>3. CASE \/ OnConditionContinued(m) \/ OnStackTrace(m) \/ OnLaunched(m)
           \/ OnConfigured(m) \/ OnResumed(m) \/ OnPauseAnswered(m) \/ OnThreads(m)
    <2>1. workers' = workers /\ breakpoints' = breakpoints
        BY <1>3 DEF OnConditionContinued, OnStackTrace, OnLaunched, OnConfigured, OnResumed,
           OnPauseAnswered, OnThreads
    <2> QED BY <2>1, StandStill DEF JobStep, Holding
<1>4. CASE OnSourcesReplaced(m) \/ OnInitialize(m) \/ OnDisconnected(m)
    <2> DEFINE told == Answer(client, {m.request.client}, "error")
    <2>0. client \in Editors /\ told \in Editors
        BY AnswerTyped DEF Types
    <2>1. \/ workers' = workers /\ breakpoints' = breakpoints
          \/ \E ps : \E c \in Editors : Raise(c, ps, workers)
        BY <1>4, <2>0 DEF OnSourcesReplaced, OnInitialize, OnDisconnected
    <2> QED BY <2>1, RaiseJobs, StandStill DEF JobStep, Holding
<1> QED BY <1>1, <1>2, <1>3, <1>4

LEMMA EventJobs ==
    ASSUME Types, fromAdapter # <<>>, NEW m, m = Head(fromAdapter),
           \/ OnInitialized(m) \/ OnStopped(m) \/ OnContinued(m) \/ OnExited(m)
           \/ OnTerminated(m) \/ OnFailed(m)
    PROVE  JobStep
<1>0. breakpoints \in BreakpointStates /\ session \in Flags /\ session.revision \in Nat
      /\ m \in Messages /\ m.stop \in Stops
    <2>1. fromAdapter \in Seq(Messages)
        BY DEF Types
    <2>2. m \in Messages
        BY <2>1, Tails
    <2> QED BY <2>2 DEF Types, Flags, Messages
<1>1. CASE OnInitialized(m)
    <2>1. workers' = workers /\ breakpoints' = breakpoints
        BY <1>1 DEF OnInitialized
    <2> QED BY <2>1, StandStill DEF JobStep, Holding
<1>2. CASE OnStopped(m)
    <2> DEFINE S == {"inspection", "condition"}
               cond == [conditions EXCEPT !.active = NoJob, !.suppress = FALSE,
                            !.stepping = @ \/ session.pauseRevision # None]
               ws == Release(workers, S)
    <2>1. \/ workers' = workers /\ breakpoints' = breakpoints
          \/ /\ breakpoints' = [breakpoints EXCEPT !.stops = Append(@, m.stop)]
             /\ workers' = ws
          \/ /\ PublishStop(m.stop, AnswerStale(client), cond, ws, session.revision + 1)
             /\ breakpoints' = breakpoints
        BY <1>2 DEF OnStopped
    <2>2. Holding
        BY <1>0, <2>1 DEF Holding, BreakpointStates
    <2>3. session.revision + 1 \in Nat
        BY <1>0
    <2> HIDE DEF cond
    <2>4. Steady
        BY <1>0, <2>1, <2>3, StandStill, Releasing, PublishJobs
    <2> QED BY <2>2, <2>4 DEF JobStep
<1>3. CASE OnContinued(m)
    <2>1. breakpoints' = breakpoints
          /\ workers' \in {workers, Release(workers, {"inspection", "condition"})}
        BY <1>3 DEF OnContinued
    <2> QED BY <2>1, StandStill, Releasing DEF JobStep, Holding
<1>4. CASE OnExited(m) \/ OnTerminated(m)
    <2>1. workers' = Release(workers, Workers) /\ breakpoints' = CancelledWork
        BY <1>4 DEF OnExited, OnTerminated
    <2>2. Voids
        BY <1>4, <2>1, CancelledVoids DEF OnExited, OnTerminated, Types
    <2>3. session'.ended \/ (session'.exited /\ Exiting(1))
        <3>1. CASE OnTerminated(m)
            BY <1>0, <3>1 DEF OnTerminated, Finished, Flags
        <3>2. CASE OnExited(m)
            <4>1. session'.exited /\ m.type = "exited"
                BY <1>0, <3>2 DEF OnExited, TakeEvent, Flags
            <4>2. m = fromAdapter[1] /\ 1 \in 1 .. Len(fromAdapter)
                BY Tails DEF Types
            <4> QED BY <4>1, <4>2 DEF Exiting
        <3> QED BY <1>4, <3>1, <3>2
    <2> QED BY <2>1, <2>2, <2>3, Releasing DEF JobStep, Cancelling
<1>5. CASE OnFailed(m)
    <2>1. \/ workers' = workers /\ breakpoints' = breakpoints
          \/ Raise(client, pending, workers)
        BY <1>5 DEF OnFailed
    <2> QED BY <2>1, RaiseJobs, StandStill DEF JobStep, Holding, Types
<1> QED BY <1>1, <1>2, <1>3, <1>4, <1>5

LEMMA AdapterJobs ==
    ASSUME Types, OnAdapter
    PROVE  JobStep
BY ReplyJobs, EventJobs DEF OnAdapter

LEMMA Resting ==
    ASSUME Types, NEW v \in Workers \ Installers, workers[v].pc = "done", NEW S,
           workers' \in {Rested(v), Release(Rested(v), S)}
    PROVE  Steady
<1>1. workers \in [Workers -> WorkerStates] /\ Installers \subseteq Workers
      /\ Rested(v) \in [Workers -> WorkerStates]
    BY RestedTyped DEF Types, Installers, Workers
<1>2. \A w \in Installers : Rested(v)[w] = workers[w]
    BY <1>1, RestedLoad
<1> QED BY <1>1, <1>2, ReleaseLoad DEF Steady, SteadyAt

\* An installer is done; its request is answered, or the session gives up.
LEMMA FinishingOne ==
    ASSUME Types, NEW w \in Installers, workers[w].pc = "done", NEW S,
           workers' \in {Rested(w), Release(Rested(w), S)},
           \/ ~(at' \in {"loop", "drain"}) /\ Voids
           \/ /\ Idle(w, breakpoints')
              /\ \A v \in Installers \ {w} : Idle(v, breakpoints') <=> Idle(v, breakpoints)
              /\ w = "function" \/ breakpoints'.function = breakpoints.function
              /\ w = "function" /\ breakpoints.function # NoRequest
                    => client'.outcome[breakpoints.function] = "ok"
    PROVE  Finishes(w)
<1>1. workers \in [Workers -> WorkerStates] /\ Installers \subseteq Workers
      /\ Rested(w) \in [Workers -> WorkerStates]
    BY RestedTyped DEF Types, Installers, Workers
<1>2. /\ Load(Rested(w)[w]) = Load(workers[w]) - 1
      /\ Held(Rested(w)[w]) \subseteq Held(workers[w])
      /\ \A v \in Installers \ {w} : Rested(w)[v] = workers[v]
    BY <1>1, RestedLoad
<1>3. /\ Load(workers'[w]) = Load(workers[w]) - 1
      /\ Held(workers'[w]) \subseteq Held(workers[w])
      /\ \A v \in Installers \ {w} : SteadyAt(v)
    BY <1>1, <1>2, ReleaseLoad DEF SteadyAt
<1> QED BY <1>3 DEF Finishes

LEMMA DoneJobs ==
    ASSUME Types, OnFunctionDone \/ OnPanicDone
    PROVE  JobStep
<1>0. /\ breakpoints \in BreakpointStates /\ "function" \in Installers
      /\ "panic" \in Installers
      /\ \A v \in Installers \ {"function"} : v = "panic"
      /\ \A v \in Installers \ {"panic"} : v = "function"
    BY DEF Types, Installers
<1>1. ASSUME NEW w \in Installers, RaiseDone(w)
      PROVE  JobStep
    <2>1. workers[w].pc = "done" /\ at' = "shutdown"
          /\ workers' = Release(Rested(w), Workers)
        BY <1>1 DEF RaiseDone, TakeWork, Raise
    <2>3. Voids
        BY <1>1, CancelledVoids DEF RaiseDone, Raise, Types
    <2>2. Finishes(w)
        BY <2>1, <2>3, FinishingOne
    <2> QED BY <2>2 DEF JobStep
<1>2. ASSUME NEW w \in Installers, IgnoreDone(w), Idle(w, breakpoints)
      PROVE  JobStep
    <2>1. workers[w].pc = "done" /\ workers' = Rested(w) /\ breakpoints' = breakpoints
        BY <1>2 DEF IgnoreDone, TakeWork
    <2>2. Finishes(w)
        BY <1>2, <2>1, FinishingOne DEF Idle
    <2> QED BY <2>2 DEF JobStep
<1>3. CASE OnFunctionDone
    <2>1. CASE breakpoints.function = NoRequest
        BY <1>0, <1>2, <1>3, <2>1 DEF OnFunctionDone, Idle
    <2>2. CASE breakpoints.function # NoRequest
        <3>1. CASE RaiseDone("function")
            BY <1>0, <1>1, <3>1
        <3>2. CASE ~RaiseDone("function")
            <4>1. /\ workers["function"].pc = "done" /\ workers' = Rested("function")
                  /\ breakpoints' = [breakpoints EXCEPT !.function = NoRequest,
                                                        !.requested = "none"]
                BY <1>3, <2>2, <3>2 DEF OnFunctionDone, TakeWork
            <4>2. breakpoints'.function = NoRequest
                  /\ breakpoints'.panic = breakpoints.panic
                BY <1>0, <4>1 DEF BreakpointStates
            <4>3. client' = Answer(client, {breakpoints.function}, "ok")
                BY <1>3, <2>2, <3>2 DEF OnFunctionDone, TakeWork
            <4>4. breakpoints.function \in Requests
                BY <1>0, <2>2 DEF BreakpointStates, Others
            <4>5. client'.outcome[breakpoints.function] = "ok"
                BY <4>3, <4>4 DEF Answer, Types, Editors
            <4>6. Finishes("function")
                BY <1>0, <4>1, <4>2, <4>5, FinishingOne DEF Idle
            <4> QED BY <1>0, <4>6 DEF JobStep
        <3> QED BY <3>1, <3>2
    <2> QED BY <2>1, <2>2
<1>4. CASE OnPanicDone
    <2>1. CASE breakpoints.panic = None
        BY <1>0, <1>2, <1>4, <2>1 DEF OnPanicDone, Idle
    <2>2. CASE breakpoints.panic # None
        <3>1. CASE RaiseDone("panic")
            BY <1>0, <1>1, <3>1
        <3>2. CASE ~RaiseDone("panic")
            <4>1. /\ workers["panic"].pc = "done" /\ workers' = Rested("panic")
                  /\ breakpoints' = [breakpoints EXCEPT !.panic = None,
                               !.panicConfigured = TRUE,
                               !.panicInstalled = workers["panic"].job.kind # "none"]
                BY <1>4, <2>2, <3>2 DEF OnPanicDone, TakeWork
            <4>2. breakpoints'.panic = None
                  /\ breakpoints'.function = breakpoints.function
                BY <1>0, <4>1 DEF BreakpointStates
            <4>3. Finishes("panic")
                BY <1>0, <4>1, <4>2, FinishingOne DEF Idle
            <4> QED BY <1>0, <4>3 DEF JobStep
        <3> QED BY <3>1, <3>2
    <2> QED BY <2>1, <2>2
<1> QED BY <1>3, <1>4

LEMMA WorkJobs ==
    ASSUME Types, OnWork
    PROVE  JobStep
<1>1. ASSUME NEW w \in Workers, OnRead(w)
      PROVE  JobStep
    <2> DEFINE me == workers[w]
               n == FreshSeq(pending)
               to1 == [me EXCEPT !.pc = "wait", !.seq = n]
               to2 == [me EXCEPT !.pc = "replied", !.result = "error"]
    <2>1. me \in WorkerStates /\ me.pc = "read" /\ breakpoints' = breakpoints
        BY <1>1 DEF OnRead, TakeWork, Types
    <2>2. \/ workers' = [workers EXCEPT ![w].pc = "wait", ![w].seq = n]
          \/ workers' = [workers EXCEPT ![w].pc = "replied", ![w].result = "error"]
        BY <1>1 DEF OnRead
    <2>3. workers' = [workers EXCEPT ![w] = to1] \/ workers' = [workers EXCEPT ![w] = to2]
        BY <2>2 DEF Types
    <2> HIDE DEF me, n
    <2>4. /\ to1.queue = me.queue /\ to1.job = me.job /\ to1.pc = "wait"
          /\ to2.queue = me.queue /\ to2.job = me.job /\ to2.pc = "replied"
        BY <2>1 DEF WorkerStates
    <2> HIDE DEF to1, to2
    <2>5. /\ Load(to1) = Load(me) /\ Held(to1) = Held(me)
          /\ Load(to2) = Load(me) /\ Held(to2) = Held(me)
        BY <2>1, <2>4, SameLoad
    <2>6. Steady
        BY <2>3, <2>5, OneWorker DEF me
    <2> QED BY <2>1, <2>6 DEF JobStep, Holding
<1>2. ASSUME NEW v \in Workers \ Installers, workers[v].pc = "done",
             breakpoints' = breakpoints, NEW S,
             workers' \in {Rested(v), Release(Rested(v), S)}
      PROVE  JobStep
    BY <1>2, Resting DEF JobStep, Holding
<1>3. "inspection" \in Workers \ Installers /\ "condition" \in Workers \ Installers
    BY DEF Workers, Installers
<1>4. CASE OnInspectDone
    <2>1. workers["inspection"].pc = "done" /\ workers' = Rested("inspection")
          /\ breakpoints' = breakpoints
        BY <1>4 DEF OnInspectDone, TakeWork
    <2> QED BY <1>2, <1>3, <2>1
<1>5. CASE OnConditionDone
    <2>1. /\ workers["condition"].pc = "done" /\ breakpoints' = breakpoints
          /\ workers' \in {Rested("condition"),
                           Release(Rested("condition"), {"inspection", "condition"})}
        BY <1>5 DEF OnConditionDone, IgnoreDone, TakeWork
    <2> QED BY <1>2, <1>3, <2>1
<1> QED BY <1>1, <1>4, <1>5, DoneJobs DEF OnWork

LEMMA WorkerJobs ==
    ASSUME Types, NEW w \in Workers, Worker(w)
    PROVE  JobStep
<1> DEFINE me == workers[w]
<1>1. me \in WorkerStates /\ breakpoints' = breakpoints
    BY DEF Worker, WorkerStart, WorkerFinish, WorkerTimeout, StepWorker, Types
<1>2. ASSUME NEW to, workers' = [workers EXCEPT ![w] = to],
             Load(to) = Load(me), Held(to) \subseteq Held(me)
      PROVE  JobStep
    BY <1>1, <1>2, OneWorker DEF JobStep, Holding
<1>3. CASE WorkerStart(w)
    <2> DEFINE job == Head(me.queue)
               taken == [me EXCEPT !.queue = Tail(me.queue), !.job = job]
               to1 == [taken EXCEPT !.pc = "done", !.result = "error"]
               to2 == [taken EXCEPT !.pc = "done", !.result = "ok"]
               to3 == [taken EXCEPT !.pc = "read"]
    <2>1. /\ me.pc = "idle" /\ me.queue # <<>>
          /\ \/ workers' = [workers EXCEPT ![w] = to1]
             \/ workers' = [workers EXCEPT ![w] = to2]
             \/ workers' = [workers EXCEPT ![w] = to3]
        BY <1>3 DEF WorkerStart, StepWorker
    <2> HIDE DEF me
    <2>2. me.queue \in Seq(Orders)
        BY <1>1 DEF WorkerStates
    <2>3. /\ Len(Tail(me.queue)) = Len(me.queue) - 1 /\ job = me.queue[1]
          /\ 1 \in 1 .. Len(me.queue)
          /\ \A i \in 1 .. Len(Tail(me.queue)) :
                i + 1 \in 1 .. Len(me.queue) /\ Tail(me.queue)[i] = me.queue[i + 1]
        BY <2>1, <2>2, Tails
    <2>4. /\ \A to \in {to1, to2, to3} :
                to.queue = Tail(me.queue) /\ to.job = job /\ to.pc # "idle"
        BY <1>1 DEF WorkerStates
    <2> HIDE DEF job, taken, to1, to2, to3
    <2>5. ASSUME NEW to \in {to1, to2, to3}
          PROVE  Load(to) = Load(me) /\ Held(to) \subseteq Held(me)
        <3>1. to.queue = Tail(me.queue) /\ to.job = job /\ to.pc # "idle"
            BY <2>4
        <3>2. Count(to.pc # "idle") = 1 /\ Count(me.pc # "idle") = 0
            BY <2>1, <3>1 DEF Count
        <3>3. Load(to) = Load(me)
            BY <2>2, <2>3, <3>1, <3>2 DEF Load
        <3>4. Held(to) \subseteq Held(me)
            BY <2>3, <3>1 DEF Held
        <3> QED BY <3>3, <3>4
    <2> QED BY <1>2, <2>1, <2>5
<1>4. ASSUME WorkerFinish(w) \/ WorkerTimeout(w)
      PROVE  JobStep
    <2> DEFINE result == IF EpochHolds(w, me.job) THEN me.result ELSE "error"
               installed == IF me.result = "ok" THEN me.job.kind # "none"
                            ELSE me.installed
               to1 == [me EXCEPT !.pc = "done", !.result = result,
                                 !.installed = installed]
               to2 == [me EXCEPT !.pc = "done", !.seq = 0, !.result = "error"]
    <2>1. /\ me.pc # "idle"
          /\ workers' = [workers EXCEPT ![w] = to1] \/ workers' = [workers EXCEPT ![w] = to2]
        BY <1>4 DEF WorkerFinish, WorkerTimeout, StepWorker
    <2> HIDE DEF me, result, installed
    <2>2. /\ to1.queue = me.queue /\ to1.job = me.job /\ to1.pc = "done"
          /\ to2.queue = me.queue /\ to2.job = me.job /\ to2.pc = "done"
        BY <1>1 DEF WorkerStates
    <2> HIDE DEF to1, to2
    <2>3. /\ Load(to1) = Load(me) /\ Held(to1) = Held(me)
          /\ Load(to2) = Load(me) /\ Held(to2) = Held(me)
        BY <2>1, <2>2, SameLoad
    <2> QED BY <1>2, <2>1, <2>3
<1> QED BY <1>3, <1>4 DEF Worker

LEMMA JobSteps ==
    ASSUME AnswersInv, SafetyInv, [Next]_vars
    PROVE  JobStep
<1>0. Types /\ Closed /\ DrainsAtRest
    BY DEF SafetyInv, AnswersInv
<1>1. workers' = workers /\ breakpoints' = breakpoints => JobStep
    BY StandStill DEF JobStep, Holding
<1>2. CASE UNCHANGED vars \/ ClientSends \/ ClientLeaves \/ Adapter \/ AdapterAnswers
           \/ TargetStops \/ TargetExits \/ Crash \/ Shutdown
    <2>1. Adapter => \E p, ms, t : Handle(p, ms, t)
        BY Zenon DEF Adapter, AdapterLaunches, AdapterRefuses, Installs, Inspects, Continues,
           Halts, Leaves
    <2>2. workers' = workers /\ breakpoints' = breakpoints
        BY <1>2, <2>1 DEF vars, ClientSends, ClientLeaves, Handle, AdapterAnswers,
           TargetStops, TargetExits, Crash, TargetMoves, Shutdown
    <2> QED BY <1>1, <2>2
<1>4. CASE OnClient \/ OnAdapter \/ OnWork \/ DrainStop \/ DrainRequest \/ Timeout
           \/ \E w \in Workers : Worker(w)
    BY <1>0, <1>4, ClientJobs, AdapterJobs, WorkJobs, DrainJobs, TimeoutJobs, WorkerJobs
<1> QED BY <1>2, <1>4 DEF Next

\* What is over stays over, in every step.
LEMMA Monotone ==
    ASSUME SafetyInv, Addressed, [Next]_vars
    PROVE  /\ Working' => Working
           /\ session.closing => session'.closing
           /\ session.ended => session'.ended
           /\ session.exited => session'.exited
           /\ session.revision <= session'.revision
           /\ session'.exited => session.exited \/ Exiting(1)
<1>0. Types /\ session \in Flags /\ session.revision \in Nat
    BY DEF SafetyInv, Types, Flags
<1>1. CASE OwnStep
    BY <1>1 DEF OwnStep, Lasts
<1>2. CASE \E m : MessageStep(m)
    <2>1. PICK m : MessageStep(m)
        BY <1>2
    <2>2. m = fromAdapter[1] /\ 1 \in 1 .. Len(fromAdapter)
        BY <1>0, <2>1, Tails DEF MessageStep, Types
    <2> QED BY <2>1, <2>2 DEF MessageStep, Lasts, Exiting
<1>3. CASE \E p \in Sent, ms \in Seq(Messages) :
               Handle(p, ms, target') /\ Effect(p, ms) /\ Address(p)
    BY <1>0, <1>3 DEF Handle, Working
<1>4. CASE Shutdown
    BY <1>0, <1>4 DEF Shutdown, Working, Finished, Flags
<1>5. CASE Apart
    BY <1>0, <1>5 DEF Apart, Working
<1>6. CASE AdapterAnswers \/ TargetStops \/ TargetExits \/ Crash
    <2>1. session' = session /\ at' = at
        BY <1>0, <1>6, TargetEffects DEF Reports, TargetMoves
    <2> QED BY <1>0, <2>1 DEF Working
<1> QED BY <1>1, <1>2, <1>3, <1>4, <1>5, <1>6, Steps

\* Each installer has at most two jobs: one for the request it is at, and one
\* that was under way when the target exited.  While a request is at an
\* installer, a job of that installer is under way for it.
JobsInv ==
    \A w \in Installers :
        /\ Load(workers[w]) <= 2
        /\ Working /\ ~session.ended /\ ~session.closing
              => Load(workers[w]) <= Count(session.exited) + Count(~Idle(w, breakpoints))
        /\ Working /\ ~Idle(w, breakpoints) => Load(workers[w]) >= 1

LEMMA JobsKept ==
    ASSUME FlowInv, JobsInv, [Next]_vars, Types'
    PROVE  JobsInv'
<1>0. /\ AnswersInv /\ SafetyInv /\ Addressed /\ ExitsOnce
      /\ Types /\ session \in Flags
    BY DEF FlowInv, SafetyInv, Types
<1>1. /\ Working' => Working
      /\ session.closing => session'.closing
      /\ session.ended => session'.ended
      /\ session.exited => session'.exited
      /\ session'.exited => session.exited \/ Exiting(1)
    BY <1>0, Monotone
<1>2. Exiting(1) => ~session.exited
    BY <1>0 DEF ExitsOnce
<1>3. /\ session.exited \in BOOLEAN /\ session'.exited \in BOOLEAN
      /\ session.ended \in BOOLEAN /\ session'.ended \in BOOLEAN
      /\ session.closing \in BOOLEAN /\ session'.closing \in BOOLEAN
    BY <1>0 DEF Types, Flags
<1>4. \A w \in Installers : /\ Load(workers[w]) \in Nat /\ Load(workers'[w]) \in Nat
    <2>1. \A w \in Installers : workers[w] \in WorkerStates /\ workers'[w] \in WorkerStates
        BY <1>0 DEF Types, Installers, Workers
    <2> QED BY <2>1, LoadTyped
<1>5. /\ Count(session.exited) = IF session.exited THEN 1 ELSE 0
      /\ Count(session'.exited) = IF session'.exited THEN 1 ELSE 0
      /\ \A w : Count(~Idle(w, breakpoints)) = IF Idle(w, breakpoints) THEN 0 ELSE 1
      /\ \A w : Count(~Idle(w, breakpoints')) = IF Idle(w, breakpoints') THEN 0 ELSE 1
    BY DEF Count
<1> DEFINE Bounded(w) ==
        /\ Load(workers[w]) <= 2
        /\ Working /\ ~session.ended /\ ~session.closing
              => Load(workers[w]) <= (IF session.exited THEN 1 ELSE 0)
                                     + (IF Idle(w, breakpoints) THEN 0 ELSE 1)
        /\ Working /\ ~Idle(w, breakpoints) => Load(workers[w]) >= 1
    Bounds(w) ==
        /\ Load(workers'[w]) <= 2
        /\ Working' /\ ~session'.ended /\ ~session'.closing
              => Load(workers'[w]) <= (IF session'.exited THEN 1 ELSE 0)
                                     + (IF Idle(w, breakpoints') THEN 0 ELSE 1)
        /\ Working' /\ ~Idle(w, breakpoints') => Load(workers'[w]) >= 1
<1>6. \A w \in Installers : Bounded(w)
    BY <1>5 DEF JobsInv
<1>7. ASSUME NEW w \in Installers, Load(workers'[w]) = Load(workers[w]),
             \/ ~Working' \/ (Idle(w, breakpoints') <=> Idle(w, breakpoints))
      PROVE  Bounds(w)
    BY <1>1, <1>3, <1>4, <1>6, <1>7
<1>8. ASSUME JobStep PROVE \A w \in Installers : Bounds(w)
    <2>1. CASE Steady /\ Holding
        BY <1>7, <2>1 DEF Steady, SteadyAt, Holding, Idle
    <2>2. CASE Steady /\ Cancelling
        <3> SUFFICES ASSUME NEW w \in Installers PROVE Bounds(w)
            OBVIOUS
        <3>1. Load(workers'[w]) = Load(workers[w]) /\ Idle(w, breakpoints')
            BY <2>2 DEF Steady, SteadyAt, Cancelling, Voids, Idle
        <3>2. \/ ~Working' \/ session'.closing \/ session'.ended
              \/ session'.exited /\ ~session.exited
            BY <1>2, <2>2 DEF Cancelling, Working
        <3> QED BY <1>1, <1>3, <1>4, <1>6, <3>1, <3>2
    <2>3. ASSUME NEW w \in Installers, Begins(w)
          PROVE  \A v \in Installers : Bounds(v)
        <3>1. ASSUME NEW v \in Installers \ {w} PROVE Bounds(v)
            BY <1>7, <2>3 DEF Begins, SteadyAt
        <3>2. Idle(w, breakpoints)
            BY <2>3 DEF Begins, WorkPending, Idle, Installers
        <3>3. /\ ~session.closing /\ ~session.ended /\ ~Idle(w, breakpoints')
              /\ Load(workers'[w]) = Load(workers[w]) + 1
            BY <2>3 DEF Begins
        <3>4. Working
            BY <2>3 DEF Begins
        <3>5. Load(workers[w]) <= (IF session.exited THEN 1 ELSE 0)
            BY <1>4, <1>6, <3>2, <3>3, <3>4
        <3>6. Bounds(w)
            BY <1>1, <1>3, <1>4, <3>3, <3>5
        <3> QED BY <3>1, <3>6
    <2>4. ASSUME NEW w \in Installers, Finishes(w)
          PROVE  \A v \in Installers : Bounds(v)
        <3>1. ASSUME NEW v \in Installers \ {w} PROVE Bounds(v)
            BY <1>7, <2>4 DEF Finishes, SteadyAt, Working
        <3>2. /\ Load(workers'[w]) = Load(workers[w]) - 1
              /\ ~Working' \/ Idle(w, breakpoints')
            BY <2>4 DEF Finishes, Working
        <3>3. Bounds(w)
            BY <1>1, <1>3, <1>4, <1>6, <3>2
        <3> QED BY <3>1, <3>3
    <2> QED BY <1>8, <2>1, <2>2, <2>3, <2>4 DEF JobStep
<1>9. \A w \in Installers : Bounds(w)
    BY <1>0, <1>8, JobSteps
<1> QED BY <1>5, <1>9 DEF JobsInv

LEMMA JobsHold == Spec => [](FlowInv /\ JobsInv)
<1>1. Init => JobsInv
    <2> SUFFICES ASSUME Init PROVE JobsInv
        OBVIOUS
    <2>1. \A w \in Installers : workers[w].queue = <<>> /\ workers[w].pc = "idle"
        BY DEF Init, Installers, Workers
    <2>2. \A w \in Installers : Load(workers[w]) = 0
        <3> DEFINE e == <<>>
        <3>1. Len(e) = 0
            BY Short
        <3>2. \A w \in Installers : workers[w].queue = e /\ Count(workers[w].pc # "idle") = 0
            BY <2>1 DEF Count
        <3> HIDE DEF e
        <3> QED BY <3>1, <3>2 DEF Load
    <2>3. \A w \in Installers : Idle(w, breakpoints)
        BY DEF Init, Idle, Installers
    <2>4. \A h : Count(h) \in {0, 1}
        BY DEF Count
    <2> QED BY <2>2, <2>3, <2>4 DEF JobsInv
<1>2. FlowInv => Types
    BY DEF FlowInv, SafetyInv
<1>3. FlowInv /\ Types' /\ JobsInv /\ [Next]_vars => JobsInv'
    BY JobsKept
<1> QED BY <1>1, <1>2, <1>3, TypesHold, FlowHolds, PTL DEF Spec

\* The loop never waits for a worker that waits for the loop: a second job is
\* put on the queue of the function or the panic worker only while that worker
\* takes the one before it without a read.
THEOREM PutsAlwaysEnd == Spec => []PutsEnd
<1>1. FlowInv /\ JobsInv => PutsEnd
    <2> SUFFICES ASSUME FlowInv, JobsInv, NEW w \in Installers, Len(workers[w].queue) > 1
                 PROVE  workers[w].pc = "idle"
        BY DEF PutsEnd, Installers
    <2>1. workers[w] \in WorkerStates
        BY DEF FlowInv, SafetyInv, Types, Installers, Workers
    <2>2. Len(workers[w].queue) \in Nat
        BY <2>1, LoadTyped
    <2>3. Len(workers[w].queue) + Count(workers[w].pc # "idle") <= 2
        BY DEF JobsInv, Load
    <2>4. Count(workers[w].pc # "idle") = IF workers[w].pc = "idle" THEN 0 ELSE 1
        BY DEF Count
    <2> QED BY <2>2, <2>3, <2>4
<1> QED BY <1>1, JobsHold, PTL

-----------------------------------------------------------------------------
(* Whose function breakpoints are answered.                                  *)

\* While the target lives, every job of the function worker is for the request
\* the session is at.
OwnInv ==
    Working /\ ~session.exited /\ breakpoints.function # NoRequest
    => \A j \in Held(workers["function"]) : j.cause = breakpoints.function

LEMMA OwnKept ==
    ASSUME FlowInv, JobsInv, OwnInv, [Next]_vars
    PROVE  OwnInv'
<1>0. /\ AnswersInv /\ SafetyInv /\ Addressed /\ Types
    BY DEF FlowInv, SafetyInv
<1>1. /\ Working' => Working
      /\ session.exited => session'.exited
    BY <1>0, Monotone
<1>2. "function" \in Installers /\ "panic" \in Installers
    BY DEF Installers
<1> SUFFICES ASSUME Working', ~session'.exited, breakpoints'.function # NoRequest
             PROVE  \A j \in Held(workers'["function"]) : j.cause = breakpoints'.function
    BY DEF OwnInv
<1>3. Working /\ ~session.exited
    BY <1>1
<1>4. ASSUME breakpoints'.function = breakpoints.function, SteadyAt("function")
      PROVE  \A j \in Held(workers'["function"]) : j.cause = breakpoints'.function
    BY <1>3, <1>4 DEF OwnInv, SteadyAt
<1>5. CASE Steady /\ Holding
    BY <1>2, <1>4, <1>5 DEF Steady, Holding
<1>6. CASE Steady /\ Cancelling
    BY <1>6 DEF Cancelling, Voids
<1>7. CASE Begins("function")
    <2>1. Idle("function", breakpoints) /\ ~session.ended /\ ~session.closing
        BY <1>7 DEF Begins, WorkPending, Idle
    <2>2. Load(workers["function"]) <= Count(session.exited)
                                       + Count(~Idle("function", breakpoints))
        BY <1>2, <1>3, <2>1 DEF JobsInv
    <2>3. Count(session.exited) = 0 /\ Count(~Idle("function", breakpoints)) = 0
        BY <1>3, <2>1 DEF Count
    <2>4. workers["function"] \in WorkerStates
        BY <1>0 DEF Types, Workers
    <2>5. Held(workers["function"]) = {}
        BY <2>2, <2>3, <2>4, LoadTyped
    <2> QED BY <1>7, <2>5 DEF Begins
<1>8. CASE Begins("panic")
    <2>1. Idle("function", breakpoints) /\ Idle("function", breakpoints')
        BY <1>2, <1>8 DEF Begins, WorkPending, Idle
    <2> QED BY <2>1 DEF Idle
<1>9. CASE Finishes("function")
    BY <1>9 DEF Finishes, Idle, Working
<1>10. CASE Finishes("panic")
    <2>1. breakpoints'.function = breakpoints.function /\ SteadyAt("function")
        BY <1>2, <1>10 DEF Finishes, Working
    <2> QED BY <1>4, <2>1
<1> QED BY <1>0, <1>5, <1>6, <1>7, <1>8, <1>9, <1>10, JobSteps DEF JobStep, Installers

\* The stops the session knows of and no longer holds back.
Passed == {NoStop, client.stop, conditions.active.stop}
          \cup {p.stop : p \in {q \in pending :
                                  q.use \in {"stopContext", "conditionContinue"}}}

Shown(stop) == stop \in Passed \/ Passes(stop)

\* What the editor is told: a request that was told how it went was answered,
\* an answer is not taken back, and no stop is shown that was not let through.
Honest(c) ==
    /\ \A r \in Requests : c.outcome[r] # "none" \/ client.answers[r] >= 1
                           => c.answers[r] >= 1
    /\ Shown(c.stop)

LEMMA AnswersHonest ==
    ASSUME NEW c \in Editors, Honest(c)
    PROVE  /\ \A S, o : Honest(Answer(c, S, o))
           /\ \A stop : Shown(stop) => Honest(TellStopped(c, stop))
           /\ Honest(TellContinued(c)) /\ Honest(TellExited(c)) /\ Honest(TellTerminated(c))
           /\ \A v, s, x, f : /\ Honest([c EXCEPT !.view = v, !.resume = x])
                              /\ Honest([c EXCEPT !.frame = f])
<1>1. ASSUME NEW S, NEW o PROVE Honest(Answer(c, S, o))
    <2> DEFINE d == Answer(c, S, o)
    <2>1. /\ d.answers = [r \in Requests |-> IF r \in S THEN c.answers[r] + 1 ELSE c.answers[r]]
          /\ d.outcome = [r \in Requests |-> IF r \in S THEN o ELSE c.outcome[r]]
          /\ d.stop = c.stop
        BY DEF Answer, Editors
    <2>2. \A r \in Requests : c.answers[r] \in Nat
        BY DEF Editors
    <2> HIDE DEF d
    <2>3. \A r \in Requests : \/ d.answers[r] = c.answers[r] /\ d.outcome[r] = c.outcome[r]
                              \/ d.answers[r] >= 1
        BY <2>1, <2>2
    <2>4. Honest(d)
        BY <2>1, <2>3 DEF Honest
    <2> QED BY <2>4 DEF d
<1>2. ASSUME NEW d, d.answers = c.answers, d.outcome = c.outcome, Shown(d.stop)
      PROVE  Honest(d)
    BY <1>2 DEF Honest
<1>3. ASSUME NEW stop, Shown(stop)
      PROVE  Honest(TellStopped(c, stop))
    <2>1. /\ TellStopped(c, stop).answers = c.answers
          /\ TellStopped(c, stop).outcome = c.outcome
          /\ TellStopped(c, stop).stop = stop
        BY DEF TellStopped, Editors
    <2> QED BY <1>2, <1>3, <2>1
<1>4. Shown(c.stop)
    BY DEF Honest
<1>5. Honest(TellContinued(c)) /\ Honest(TellExited(c))
    <2>1. /\ TellContinued(c).answers = c.answers /\ TellContinued(c).outcome = c.outcome
          /\ TellExited(c).answers = c.answers /\ TellExited(c).outcome = c.outcome
          /\ TellContinued(c).stop = c.stop /\ TellExited(c).stop = c.stop
        BY DEF TellContinued, TellExited, Editors
    <2> QED BY <1>2, <1>4, <2>1
<1>6. Honest(TellTerminated(c))
    <2>1. /\ TellTerminated(c).answers = c.answers /\ TellTerminated(c).outcome = c.outcome
          /\ TellTerminated(c).stop = c.stop
        BY DEF TellTerminated, TellExited, Editors
    <2> QED BY <1>2, <1>4, <2>1
<1>7. ASSUME NEW v, NEW x, NEW f
      PROVE  Honest([c EXCEPT !.view = v, !.resume = x]) /\ Honest([c EXCEPT !.frame = f])
    <2>1. /\ [c EXCEPT !.view = v, !.resume = x].answers = c.answers
          /\ [c EXCEPT !.view = v, !.resume = x].outcome = c.outcome
          /\ [c EXCEPT !.view = v, !.resume = x].stop = c.stop
          /\ [c EXCEPT !.frame = f].answers = c.answers
          /\ [c EXCEPT !.frame = f].outcome = c.outcome
          /\ [c EXCEPT !.frame = f].stop = c.stop
        BY DEF Editors
    <2> QED BY <1>2, <1>4, <2>1
<1> QED BY <1>1, <1>3, <1>5, <1>6, <1>7

LEMMA CancelsHonest ==
    ASSUME NEW c \in Editors, Honest(c)
    PROVE  /\ Honest(AnswerCancelled(c)) /\ AnswerCancelled(c) \in Editors
           /\ Honest(AnswerStale(c)) /\ AnswerStale(c) \in Editors
           /\ Honest(CancelLaunch(c)) /\ CancelLaunch(c) \in Editors
<1>1. \A S : \A d \in Editors : Honest(d) => /\ Answer(d, S, "error") \in Editors
                                         /\ Honest(Answer(d, S, "error"))
    BY AnswersHonest, AnswerTyped
<1>2. Honest(AnswerStale(c)) /\ Honest(CancelLaunch(c))
    BY <1>1 DEF AnswerStale, CancelLaunch
<1>3. Honest(AnswerCancelled(c))
    BY <1>1 DEF AnswerCancelled
<1> QED BY <1>2, <1>3, CancelsTyped

LEMMA RaiseHonest ==
    ASSUME NEW c \in Editors, Honest(c), NEW ps, NEW ws, Raise(c, ps, ws)
    PROVE  Honest(client')
<1> DEFINE d == AnswerCancelled(c)
           e == AnswerStale(d)
           f == CancelLaunch(e)
<1>1. client' = Answer(f, Asked(ps), "error")
    BY DEF Raise
<1>2. d \in Editors /\ Honest(d)
    BY CancelsHonest
<1> HIDE DEF d
<1>3. e \in Editors /\ Honest(e)
    BY <1>2, CancelsHonest
<1> HIDE DEF e
<1>4. f \in Editors /\ Honest(f)
    BY <1>3, CancelsHonest
<1> HIDE DEF f
<1> QED BY <1>1, <1>4, AnswersHonest

LEMMA PublishHonest ==
    ASSUME NEW c \in Editors, Honest(c), NEW stop, Shown(stop),
           NEW cond, NEW ws, NEW revision,
           \/ PublishStop(stop, c, cond, ws, revision)
           \/ PublishConditionStop(stop, c, cond, ws, revision)
    PROVE  Honest(client')
<1>1. client' \in {c, TellStopped(c, stop)}
    BY DEF PublishStop, PublishConditionStop
<1> QED BY <1>1, AnswersHonest

LEMMA PerformHonest ==
    ASSUME Types, Honest(client), NEW req, NEW b, Perform(req, b)
    PROVE  Honest(client')
<1>0. client \in Editors
    BY DEF Types
<1>1. CASE Refused(req) /\ ReplyAtOnce(req, "error", b)
    BY <1>0, <1>1, AnswersHonest DEF ReplyAtOnce
<1>2. CASE Threads(req, b)
    <2>1. client' = client \/ client' = Answer(client, {req.seq}, "ok")
        BY <1>2 DEF Threads, ReplyAtOnce
    <2> QED BY ZenonT(60), <1>0, <2>1, AnswersHonest
<1>3. CASE Resume(req, b)
    <2>1. client' = [AnswerStale(client) EXCEPT !.view = "running", !.resume = req.seq]
        BY <1>3 DEF Resume
    <2> DEFINE d == AnswerStale(client)
    <2>2. d \in Editors /\ Honest(d)
        BY <1>0, CancelsHonest
    <2> HIDE DEF d
    <2>3. client' = [d EXCEPT !.view = "running", !.resume = req.seq]
        BY <2>1 DEF d
    <2> QED BY <2>2, <2>3, AnswersHonest
<1>4. CASE \/ ReplaceFunctions(req, b) \/ ReplaceSources(req, b) \/ ReplacePanic(req, b)
           \/ ConfigurationDone(req, b) \/ StackTrace(req, b)
           \/ Variables(req, b) \/ Pause(req, b)
    <2>1. client' = client
        BY <1>4 DEF ReplaceFunctions, ReplaceSources, ReplacePanic,
           ConfigurationDone, StackTrace, Variables, Pause
    <2> QED BY <2>1
<1> QED BY <1>1, <1>2, <1>3, <1>4 DEF Perform

LEMMA ClientHonest ==
    ASSUME Types, Honest(client), OnClient \/ DrainStop \/ DrainRequest \/ Timeout \/ Shutdown
    PROVE  Honest(client')
<1>0. client \in Editors
    BY DEF Types
<1>1. CASE OnClient
    <2> SUFFICES ASSUME NEW req, \/ DeferRequest(req) \/ InterruptCondition(req)
                                 \/ PerformRequest(req) \/ Disconnect(req)
                                 \/ RefuseWhileClosing(req) \/ ClientEof(req)
                 PROVE  Honest(client')
        BY <1>1 DEF OnClient
    <2>1. CASE DeferRequest(req) \/ RefuseWhileClosing(req) \/ ClientEof(req)
        <3>1. client' = client \/ client' = Answer(client, {req.seq}, "error")
            BY <2>1 DEF DeferRequest, RefuseWhileClosing, ClientEof, ReplyAtOnce
        <3> QED BY ZenonT(60), <1>0, <3>1, AnswersHonest
    <2>2. CASE InterruptCondition(req)
        <3> DEFINE d == Answer(client, {req.seq}, "ok")
        <3>1. client' = TellStopped(d, conditions.active.stop)
            BY <2>2 DEF InterruptCondition
        <3>2. d \in Editors /\ Honest(d)
            BY <1>0, AnswersHonest, AnswerTyped
        <3> HIDE DEF d
        <3>3. Shown(conditions.active.stop)
            BY DEF Shown, Passed
        <3> QED BY <3>1, <3>2, <3>3, AnswersHonest
    <2>3. CASE PerformRequest(req)
        BY <2>3, PerformHonest DEF PerformRequest
    <2>4. CASE Disconnect(req)
        <3> DEFINE d == AnswerCancelled(client)
                   e == AnswerStale(d)
        <3>1. client' = CancelLaunch(e)
            BY <2>4 DEF Disconnect
        <3>2. d \in Editors /\ Honest(d)
            BY <1>0, CancelsHonest
        <3> HIDE DEF d
        <3>3. e \in Editors /\ Honest(e)
            BY <3>2, CancelsHonest
        <3> HIDE DEF e
        <3> QED BY <3>1, <3>3, CancelsHonest
    <2> QED BY <2>1, <2>2, <2>3, <2>4
<1>2. CASE DrainStop
    <2>1. Shown(Head(breakpoints.stops))
        BY <1>2 DEF DrainStop, Shown, Passes
    <2> QED BY <1>0, <1>2, <2>1, PublishHonest DEF DrainStop
<1>3. CASE DrainRequest
    BY <1>3, PerformHonest DEF DrainRequest
<1>4. CASE Timeout
    BY <1>0, <1>4, RaiseHonest DEF Timeout
<1>5. CASE Shutdown
    BY <1>0, <1>5, AnswersHonest DEF Shutdown
<1> QED BY <1>1, <1>2, <1>3, <1>4, <1>5

LEMMA ReplyHonest ==
    ASSUME Types, Honest(client), NEW m,
           \/ OnConditionContinued(m) \/ \E w \in Workers : OnWorkerReply(m, w)
           \/ \E panicked \in BOOLEAN : OnStopClassified(m, panicked)
           \/ OnStackTrace(m) \/ OnSourcesReplaced(m) \/ OnInitialize(m)
           \/ OnLaunched(m) \/ OnConfigured(m) \/ OnResumed(m) \/ OnPauseAnswered(m)
           \/ OnThreads(m) \/ OnDisconnected(m)
    PROVE  Honest(client')
<1>0. client \in Editors
    BY DEF Types
<1> DEFINE a(o) == Answer(client, {m.request.client}, o)
<1>1. ASSUME NEW o \in {"ok", "error"} PROVE a(o) \in Editors /\ Honest(a(o))
    BY <1>0, AnswersHonest, AnswerTyped
<1>2. CASE OnConditionContinued(m) \/ \E w \in Workers : OnWorkerReply(m, w)
    <2>1. \/ client' = client
          \/ client' = TellStopped(client, m.request.stop) /\ Shown(m.request.stop)
        BY <1>2 DEF OnConditionContinued, OnWorkerReply, TakeResponse, Shown, Passed
    <2> QED BY ZenonT(60), <1>0, <2>1, AnswersHonest
<1>3. CASE \E panicked \in BOOLEAN : OnStopClassified(m, panicked)
    <2>1. \/ client' \in {client, TellStopped(client, m.request.stop)}
          \/ PublishConditionStop(m.request.stop, client, conditions, workers,
                                  session.revision)
        BY <1>3 DEF OnStopClassified
    <2>2. Shown(m.request.stop)
        BY <1>3 DEF OnStopClassified, TakeResponse, Shown, Passed
    <2> QED BY <1>0, <2>1, <2>2, AnswersHonest, PublishHonest
<1>4. CASE OnStackTrace(m)
    <2> DEFINE d == [a("ok") EXCEPT !.data[m.request.client] = m.data]
               h == MapFrames(m.request.client)
    <2>1. client' = a("error") \/ client' = [d EXCEPT !.frame = h]
        BY <1>4 DEF OnStackTrace, AnswerWithData
    <2>2. /\ [d EXCEPT !.frame = h].answers = a("ok").answers
          /\ [d EXCEPT !.frame = h].outcome = a("ok").outcome
          /\ [d EXCEPT !.frame = h].stop = a("ok").stop
        <3>1. a("ok") \in Editors
            BY <1>1
        <3> DEFINE c == a("ok")
        <3> HIDE DEF a, h
        <3> QED BY <3>1 DEF Editors
    <2>3. Honest([d EXCEPT !.frame = h])
        BY <1>1, <2>2 DEF Honest
    <2> QED BY <1>1, <2>1, <2>3
<1>5. CASE OnSourcesReplaced(m)
    <2>1. client' = a("ok") \/ Raise(a("error"), Settled(m), workers)
        BY <1>5 DEF OnSourcesReplaced
    <2> HIDE DEF a
    <2> QED BY <1>1, <2>1, RaiseHonest
<1>6. CASE OnInitialize(m)
    <2>1. client' = client \/ Raise(client, Settled(m), workers)
        BY <1>6 DEF OnInitialize
    <2> QED BY <1>0, <2>1, RaiseHonest
<1>7. CASE OnLaunched(m)
    <2> DEFINE d == IF session.launchAnswered THEN client
                    ELSE Answer(client, {Launch}, IF m.ok THEN "ok" ELSE "error")
    <2>1. client' \in {d, TellTerminated(d)}
        BY <1>7 DEF OnLaunched
    <2>2. d \in Editors /\ Honest(d)
        BY <1>0, AnswersHonest, AnswerTyped
    <2> HIDE DEF d
    <2> QED BY <2>1, <2>2, AnswersHonest
<1>8. CASE OnConfigured(m)
    <2>1. client' = a("ok") \/ client' = TellTerminated(a("error"))
        BY <1>8 DEF OnConfigured
    <2> HIDE DEF a
    <2> QED BY <1>1, <2>1, AnswersHonest
<1>9. CASE OnResumed(m) \/ OnPauseAnswered(m) \/ OnThreads(m)
    <2>1. client' = a(IF m.ok THEN "ok" ELSE "error")
        BY <1>9 DEF OnResumed, OnPauseAnswered, OnThreads
    <2> QED BY <1>1, <2>1
<1>10. CASE OnDisconnected(m)
    <2> DEFINE o == IF m.ok THEN "ok" ELSE "error"
               d == Answer(a(o), Asked(Settled(m)), "error")
    <2>1. client' = TellTerminated(d) \/ Raise(a(o), Settled(m), workers)
        BY <1>10 DEF OnDisconnected
    <2>2. a(o) \in Editors /\ Honest(a(o))
        BY <1>1
    <2> HIDE DEF a, o
    <2>3. d \in Editors /\ Honest(d)
        BY <2>2, AnswersHonest, AnswerTyped
    <2> HIDE DEF d
    <2> QED BY <2>1, <2>2, <2>3, AnswersHonest, RaiseHonest
<1> QED BY <1>2, <1>3, <1>4, <1>5, <1>6, <1>7, <1>8, <1>9, <1>10

LEMMA EventHonest ==
    ASSUME Types, Honest(client), NEW m,
           \/ OnInitialized(m) \/ OnStopped(m) \/ OnContinued(m) \/ OnExited(m)
           \/ OnTerminated(m) \/ OnFailed(m)
    PROVE  Honest(client')
<1>0. client \in Editors
    BY DEF Types
<1> DEFINE d == AnswerStale(client)
           e == AnswerStale(AnswerCancelled(client))
<1>1. d \in Editors /\ Honest(d)
    BY <1>0, CancelsHonest
<1>2. e \in Editors /\ Honest(e)
    <2> DEFINE f == AnswerCancelled(client)
    <2>1. f \in Editors /\ Honest(f)
        BY <1>0, CancelsHonest
    <2> HIDE DEF f
    <2>2. AnswerStale(f) \in Editors /\ Honest(AnswerStale(f))
        BY <2>1, CancelsHonest
    <2> QED BY <2>2 DEF f
<1>3. CASE OnInitialized(m) \/ OnExited(m) \/ OnTerminated(m) \/ OnFailed(m)
    <2>1. \/ client' \in {client, TellExited(e), TellTerminated(e)}
          \/ Raise(client, pending, workers)
        BY <1>3 DEF OnInitialized, OnExited, OnTerminated, OnFailed
    <2> HIDE DEF e
    <2> QED BY <1>0, <1>2, <2>1, AnswersHonest, RaiseHonest
<1>4. CASE OnStopped(m)
    <2>1. \/ client' \in {client, d}
          \/ /\ \E cond, ws, revision : PublishStop(m.stop, d, cond, ws, revision)
             /\ Shown(m.stop)
        BY <1>4 DEF OnStopped, TakeEvent, TakeMessage, Shown, Passes
    <2> HIDE DEF d
    <2> QED BY <1>1, <2>1, PublishHonest
<1>5. CASE OnContinued(m)
    <2>1. client' \in {client, d, TellContinued(d)}
        BY <1>5 DEF OnContinued
    <2> HIDE DEF d
    <2> QED BY <1>1, <2>1, AnswersHonest
<1> QED BY <1>3, <1>4, <1>5

LEMMA WorkHonest ==
    ASSUME Types, Honest(client), OnWork
    PROVE  Honest(client')
<1>0. client \in Editors
    BY DEF Types
<1>1. CASE \E w \in Workers : OnRead(w)
    BY <1>1 DEF OnRead
<1>2. CASE OnInspectDone
    <2> DEFINE me == workers["inspection"]
               a == Answer(client, {me.job.cause}, "ok")
    <2>1. \/ client' = client \/ client' = Answer(client, {me.job.cause}, "error")
          \/ client' = [a EXCEPT !.data[me.job.cause] = me.data]
        BY <1>2 DEF OnInspectDone, AnswerWithData
    <2>2. a \in Editors /\ Honest(a)
        BY <1>0, AnswersHonest, AnswerTyped
    <2> HIDE DEF a
    <2>3. Honest([a EXCEPT !.data[me.job.cause] = me.data])
        BY <2>2 DEF Honest, Editors
    <2>4. Honest(Answer(client, {me.job.cause}, "error"))
        BY <1>0, AnswersHonest
    <2> QED BY <2>1, <2>3, <2>4
<1>3. CASE OnFunctionDone \/ OnPanicDone
    <2>1. \/ \E S : client' = Answer(client, S, "ok")
          \/ client' = client \/ \E ws : Raise(client, pending, ws)
        BY <1>3 DEF OnFunctionDone, OnPanicDone, IgnoreDone, RaiseDone
    <2> QED BY ZenonT(60), <1>0, <2>1, AnswersHonest, RaiseHonest
<1>4. CASE OnConditionDone
    <2>1. client' \in {client, AnswerStale(client),
                       TellStopped(client, conditions.active.stop)}
        BY <1>4 DEF OnConditionDone, IgnoreDone
    <2>2. Shown(conditions.active.stop)
        BY DEF Shown, Passed
    <2> QED BY <1>0, <2>1, <2>2, AnswersHonest, CancelsHonest
<1> QED BY <1>1, <1>2, <1>3, <1>4 DEF OnWork

\* Before the step.
Truthful == \A r \in Requests : client.outcome[r] # "none" => client.answers[r] >= 1

LEMMA HonestKept ==
    ASSUME Types, Truthful, [Next]_vars
    PROVE  Honest(client')
<1>0. Honest(client)
    BY DEF Truthful, Honest, Shown, Passed
<1>1. CASE OnAdapter
    BY <1>0, <1>1, ReplyHonest, EventHonest DEF OnAdapter
<1>2. CASE client' = client
    BY <1>0, <1>2
<1>3. CASE ClientSends \/ ClientLeaves
    <2>1. /\ client'.answers = client.answers /\ client'.outcome = client.outcome
          /\ client'.stop = client.stop
        BY <1>3 DEF ClientSends, ClientLeaves, Types, Editors
    <2> QED BY <1>0, <2>1 DEF Honest
<1>4. CASE UNCHANGED vars \/ (\E w \in Workers : Worker(w)) \/ Adapter \/ AdapterAnswers
           \/ TargetStops \/ TargetExits \/ Crash
    <2>1. Adapter => \E p, ms, t : Handle(p, ms, t)
        BY Zenon DEF Adapter, AdapterLaunches, AdapterRefuses, Installs, Inspects, Continues,
           Halts, Leaves
    <2> QED BY <1>2, <1>4, <2>1 DEF vars, Worker, WorkerStart, WorkerFinish, WorkerTimeout,
               StepWorker, Handle, AdapterAnswers, TargetStops, TargetExits, Crash,
               TargetMoves
<1> QED BY <1>0, <1>1, <1>3, <1>4, ClientHonest, WorkHonest DEF Next

\* The request the session is at was not told `ok`.
Unsaid == breakpoints.function # NoRequest
          => client.outcome[breakpoints.function] # "ok"

LEMMA WorkingUnsaid == AnswersInv /\ Working /\ Truthful => Unsaid
<1> SUFFICES ASSUME AnswersInv, Working, Truthful, breakpoints.function # NoRequest,
                    client.outcome[breakpoints.function] = "ok"
             PROVE  FALSE
    BY DEF Unsaid
<1> DEFINE f == breakpoints.function
<1>1. f \in Others /\ client \in Editors /\ f \in Requests
    BY DEF AnswersInv, Types, BreakpointStates, Others
<1>2. Balanced
    BY DEF AnswersInv, Working
<1>3. client.answers[f] >= 1
    BY <1>1 DEF Truthful
<1>4. Count(Coming(f)) + Balance(f, pending, breakpoints, inspection.waiting, client) = 1
    BY <1>1, <1>2 DEF Balanced
<1>5. Count(breakpoints.function = f) = 1
    BY DEF Count
<1>6. /\ Count(Coming(f)) \in {0, 1} /\ Count(InRouter(pending, f)) \in {0, 1}
      /\ Count(InQueue(breakpoints.deferred, f)) \in {0, 1}
      /\ Count(Reads(inspection.waiting, f)) \in {0, 1}
      /\ Count(breakpoints.panic = f) \in {0, 1}
      /\ client.answers[f] \in Nat
    BY <1>1 DEF Count, Editors
<1> HIDE DEF f
<1> QED BY <1>3, <1>4, <1>5, <1>6 DEF Balance

\* How the loop ends.
LEMMA Endings ==
    ASSUME Types, Working, ~Working', [Next]_vars
    PROVE  \/ client' = client /\ breakpoints' = breakpoints
           \/ breakpoints'.function = NoRequest
           \/ \E m : OnDisconnected(m) /\ m.ok
<1>0. breakpoints \in BreakpointStates
    BY DEF Types
<1>1. CancelledWork.function = NoRequest
    BY <1>0 DEF CancelledWork, BreakpointStates
<1>2. \A c, ps, ws : Raise(c, ps, ws) => breakpoints'.function = NoRequest
    BY <1>1 DEF Raise
<1>3. EnterDrain \/ KeepDraining \/ at' = "loop" => Working'
    BY DEF EnterDrain, KeepDraining, Working
<1>4. CASE OnClient
    <2>1. OnClient => \E req : ClientEof(req) \/ at' = "loop" \/ EnterDrain
        BY DEF OnClient, DeferRequest, InterruptCondition, PerformRequest, Disconnect,
           RefuseWhileClosing
    <2> QED BY <1>3, <1>4, <2>1 DEF ClientEof
<1>5. CASE OnAdapter
    <2>1. PICK m :
             \/ OnConditionContinued(m) \/ (\E w \in Workers : OnWorkerReply(m, w))
             \/ (\E panicked \in BOOLEAN : OnStopClassified(m, panicked))
             \/ OnStackTrace(m) \/ OnSourcesReplaced(m) \/ OnInitialize(m)
             \/ OnLaunched(m) \/ OnConfigured(m) \/ OnResumed(m) \/ OnPauseAnswered(m)
             \/ OnThreads(m) \/ OnDisconnected(m)
             \/ OnInitialized(m) \/ OnStopped(m) \/ OnContinued(m) \/ OnExited(m)
             \/ OnTerminated(m) \/ OnFailed(m)
        BY <1>5 DEF OnAdapter
    <2>2. \/ at' = "loop" \/ EnterDrain \/ (\E c, ps, ws : Raise(c, ps, ws))
          \/ OnDisconnected(m) /\ m.ok
          \/ client' = client /\ breakpoints' = breakpoints
        BY <2>1 DEF OnConditionContinued, OnWorkerReply, OnStopClassified, OnStackTrace,
           OnSourcesReplaced, OnInitialize, OnLaunched, OnConfigured, OnResumed,
           OnPauseAnswered, OnThreads, OnDisconnected, OnInitialized, OnStopped,
           OnContinued, OnExited, OnTerminated, OnFailed
    <2> QED BY <1>2, <1>3, <2>2
<1>6. CASE OnWork
    <2>1. \/ at' = "loop" \/ EnterDrain \/ (\E c, ps, ws : Raise(c, ps, ws))
        BY <1>6 DEF OnWork, OnRead, OnInspectDone, OnFunctionDone, OnPanicDone,
           OnConditionDone, IgnoreDone, RaiseDone
    <2> QED BY <1>2, <1>3, <2>1
<1>7. CASE DrainStop \/ DrainRequest
    BY <1>3, <1>7 DEF DrainStop, DrainRequest
<1>8. CASE Timeout
    BY <1>2, <1>8 DEF Timeout
<1>9. CASE Shutdown
    BY <1>9 DEF Shutdown, Working
<1>10. CASE UNCHANGED vars \/ (\E w \in Workers : Worker(w)) \/ Adapter \/ AdapterAnswers
           \/ TargetStops \/ TargetExits \/ Crash \/ ClientSends \/ ClientLeaves
    <2>1. Adapter => \E p, ms, t : Handle(p, ms, t)
        BY ZenonT(60) DEF Adapter, AdapterLaunches, AdapterRefuses, Installs, Inspects, Continues,
           Halts, Leaves
    <2>2. at' = at
        BY <1>10, <2>1 DEF vars, Worker, WorkerStart, WorkerFinish, WorkerTimeout,
           StepWorker, Handle, AdapterAnswers, TargetStops, TargetExits, Crash,
           TargetMoves, ClientSends, ClientLeaves
    <2> QED BY <2>2 DEF Working
<1> QED BY <1>4, <1>5, <1>6, <1>7, <1>8, <1>9, <1>10 DEF Next

LEMMA AfterWork ==
    ASSUME Types, ~Working, [Next]_vars
    PROVE  breakpoints' = breakpoints /\ client'.outcome = client.outcome
<1>0. client \in Editors
    BY DEF Types
<1>1. CASE OnClient \/ OnAdapter \/ OnWork \/ DrainStop \/ DrainRequest \/ Timeout
    <2>1. Working
        BY <1>1 DEF OnClient, DeferRequest, InterruptCondition, PerformRequest, Disconnect,
           RefuseWhileClosing, ClientEof, TakeRequest,
           OnAdapter, OnConditionContinued, OnWorkerReply, OnStopClassified, OnStackTrace,
           OnSourcesReplaced, OnInitialize, OnLaunched, OnConfigured, OnResumed,
           OnPauseAnswered, OnThreads, OnDisconnected, OnInitialized, OnStopped,
           OnContinued, OnExited, OnTerminated, OnFailed, TakeResponse, TakeEvent,
           TakeMessage, OnWork, OnRead, OnInspectDone, OnFunctionDone, OnPanicDone,
           OnConditionDone, IgnoreDone, RaiseDone, TakeWork, DrainStop, DrainRequest,
           Timeout, Working
    <2> QED BY <2>1
<1>2. CASE Shutdown
    BY <1>0, <1>2 DEF Shutdown, TellTerminated, TellExited, Editors
<1>3. CASE ClientSends \/ ClientLeaves
    BY <1>0, <1>3 DEF ClientSends, ClientLeaves, Editors
<1>4. CASE UNCHANGED vars \/ (\E w \in Workers : Worker(w)) \/ Adapter \/ AdapterAnswers
           \/ TargetStops \/ TargetExits \/ Crash
    <2>1. Adapter => \E p, ms, t : Handle(p, ms, t)
        BY Zenon DEF Adapter, AdapterLaunches, AdapterRefuses, Installs, Inspects, Continues,
           Halts, Leaves
    <2> QED BY <1>4, <2>1 DEF vars, Worker, WorkerStart, WorkerFinish, WorkerTimeout,
           StepWorker, Handle, AdapterAnswers, TargetStops, TargetExits, Crash, TargetMoves
<1> QED BY <1>1, <1>2, <1>3, <1>4 DEF Next

LEMMA DisconnectedUnsaid ==
    ASSUME AnswersInv, Working, Unsaid, NEW m, OnDisconnected(m), m.ok
    PROVE  Unsaid'
<1> DEFINE f == breakpoints.function
           x == m.request.client
           d == Answer(client, {x}, "ok")
           e == Answer(d, Asked(Settled(m)), "error")
<1>0. /\ client \in Editors /\ f \in Others \cup {NoRequest} /\ Others \subseteq Requests
      /\ Balanced
    BY DEF AnswersInv, Types, BreakpointStates, Others, Working
<1>1. client' = TellTerminated(e) /\ breakpoints' = breakpoints /\ m.request \in pending
    BY DEF OnDisconnected, TakeResponse
<1> SUFFICES ASSUME f # NoRequest PROVE client'.outcome[f] # "ok"
    BY <1>1 DEF Unsaid
<1>2. f \in Others /\ f \in Requests
    BY <1>0
<1>3. x # f
    <2> SUFFICES ASSUME x = f PROVE FALSE
        OBVIOUS
    <2>1. InRouter(pending, f)
        BY <1>1 DEF InRouter
    <2>2. Count(Coming(f)) + Balance(f, pending, breakpoints, inspection.waiting, client) = 1
        BY <1>0, <1>2 DEF Balanced
    <2>3. Count(breakpoints.function = f) = 1 /\ Count(InRouter(pending, f)) = 1
        BY <2>1 DEF Count
    <2>4. /\ Count(Coming(f)) \in {0, 1}
          /\ Count(InQueue(breakpoints.deferred, f)) \in {0, 1}
          /\ Count(Reads(inspection.waiting, f)) \in {0, 1}
          /\ Count(breakpoints.panic = f) \in {0, 1}
          /\ client.answers[f] \in Nat
        BY <1>0, <1>2 DEF Count, Editors
    <2> HIDE DEF f
    <2> QED BY <2>2, <2>3, <2>4 DEF Balance
<1>4. d \in Editors /\ d.outcome[f] # "ok"
    <2>1. d.outcome = [r \in Requests |-> IF r \in {x} THEN "ok" ELSE client.outcome[r]]
        BY <1>0 DEF Answer, Editors
    <2> QED BY <1>0, <1>2, <1>3, <2>1, AnswerTyped DEF Unsaid
<1> HIDE DEF d
<1>5. e \in Editors /\ e.outcome[f] # "ok"
    <2>1. e.outcome = [r \in Requests |-> IF r \in Asked(Settled(m)) THEN "error"
                                          ELSE d.outcome[r]]
        BY <1>4 DEF Answer, Editors
    <2> QED BY <1>2, <1>4, <2>1, AnswerTyped
<1> HIDE DEF e
<1>6. TellTerminated(e).outcome = e.outcome
    BY <1>5 DEF TellTerminated, TellExited, Editors
<1> QED BY <1>1, <1>5, <1>6

LEMMA UnsaidKept ==
    ASSUME AnswersInv, AnswersInv', Truthful', Unsaid, [Next]_vars
    PROVE  Unsaid'
<1>0. Types
    BY DEF AnswersInv
<1>1. (AnswersInv /\ Working /\ Truthful => Unsaid)'
    BY WorkingUnsaid, PTL
<1>2. CASE Working'
    BY <1>1, <1>2
<1>3. CASE Working /\ ~Working'
    <2>1. CASE client' = client /\ breakpoints' = breakpoints
        BY <2>1 DEF Unsaid
    <2>2. CASE breakpoints'.function = NoRequest
        BY <2>2 DEF Unsaid
    <2>3. CASE \E m : OnDisconnected(m) /\ m.ok
        BY <1>3, <2>3, DisconnectedUnsaid
    <2> QED BY <1>0, <1>3, <2>1, <2>2, <2>3, Endings
<1>4. CASE ~Working
    BY <1>0, <1>4, AfterWork DEF Unsaid
<1> QED BY <1>2, <1>3, <1>4

\* Every job of the function worker is for the request the session is at, or for
\* one that was answered: replaced work finishes first, cancelled work was refused.
CausesInv ==
    Working => \A j \in Held(workers["function"]) :
                  /\ j.cause \in Requests
                  /\ \/ j.cause = breakpoints.function
                     \/ client.answers[j.cause] >= 1

LEMMA CausesKept ==
    ASSUME AnswersInv, AnswersInv', SafetyInv, Addressed, Truthful, Truthful', CausesInv,
           [Next]_vars
    PROVE  CausesInv'
<1> DEFINE f == breakpoints.function
           held == Held(workers["function"])
<1>0. /\ Types /\ NoRequest \notin Requests
      /\ \A b \in BreakpointStates : b.function \in Requests \cup {NoRequest}
      /\ "function" \in Installers /\ "panic" \in Installers
    BY DEF AnswersInv, BreakpointStates, Others, Requests, NoRequest, Installers
<1>1. /\ f \in Requests \cup {NoRequest}
      /\ breakpoints'.function \in Requests \cup {NoRequest}
    BY <1>0 DEF AnswersInv, Types
<1>2. \A x \in Requests : client.answers[x] >= 1 => client'.answers[x] >= 1
    BY <1>0, HonestKept DEF Honest
<1>3. \A x \in Requests : client'.outcome[x] # "none" => client'.answers[x] >= 1
    BY DEF Truthful
<1> SUFFICES ASSUME Working'
             PROVE  \A j \in Held(workers'["function"]) :
                       /\ j.cause \in Requests
                       /\ j.cause = breakpoints'.function \/ client'.answers[j.cause] >= 1
    BY DEF CausesInv
<1>4. Working
    BY Monotone
<1>5. \A j \in held : /\ j.cause \in Requests
                      /\ j.cause = f \/ client'.answers[j.cause] >= 1
    BY <1>2, <1>4 DEF CausesInv
<1>6. ASSUME Held(workers'["function"]) \subseteq held,
             \/ breakpoints'.function = f
             \/ f # NoRequest => client'.outcome[f] # "none"
      PROVE  \A j \in Held(workers'["function"]) :
                /\ j.cause \in Requests
                /\ j.cause = breakpoints'.function \/ client'.answers[j.cause] >= 1
    BY <1>0, <1>1, <1>3, <1>5, <1>6
<1>7. CASE Steady /\ (Holding \/ Cancelling)
    <2>1. Held(workers'["function"]) \subseteq held
        BY <1>0, <1>7 DEF Steady, SteadyAt
    <2> QED BY <1>6, <1>7, <2>1 DEF Holding, Cancelling, Voids
<1>8. CASE Begins("function")
    <2>1. f = NoRequest /\ breakpoints'.function # NoRequest
        BY <1>8 DEF Begins, WorkPending, Idle
    <2>2. PICK job : /\ Held(workers'["function"]) \subseteq held \cup {job}
                     /\ job.cause = breakpoints'.function
        BY <1>8 DEF Begins
    <2> QED BY <1>0, <1>1, <1>5, <2>1, <2>2
<1>9. CASE Begins("panic")
    <2>1. f = NoRequest /\ SteadyAt("function")
        BY <1>0, <1>9 DEF Begins, WorkPending
    <2> QED BY <1>6, <2>1 DEF SteadyAt
<1>10. CASE Finishes("function")
    <2>1. /\ Held(workers'["function"]) \subseteq held
          /\ f # NoRequest => client'.outcome[f] = "ok"
        BY <1>10 DEF Finishes, Working
    <2> QED BY <1>6, <2>1
<1>11. CASE Finishes("panic")
    <2>1. breakpoints'.function = f /\ SteadyAt("function")
        BY <1>0, <1>11 DEF Finishes, Working
    <2> QED BY <1>6, <2>1 DEF SteadyAt
<1> QED BY <1>7, <1>8, <1>9, <1>10, <1>11, JobSteps DEF JobStep, Installers

AnswerOwn == FlowInv /\ JobsInv /\ OwnInv /\ CausesInv /\ Truthful /\ Unsaid

LEMMA AnswerOwnHolds == Spec => []AnswerOwn
<1>1. Init => OwnInv /\ CausesInv /\ Truthful /\ Unsaid
    <2> SUFFICES ASSUME Init PROVE OwnInv /\ CausesInv /\ Truthful /\ Unsaid
        OBVIOUS
    <2>1. breakpoints.function = NoRequest
        BY DEF Init
    <2>2. /\ client.answers = [r \in Requests |-> IF StartRunning /\ r = Launch THEN 1 ELSE 0]
          /\ client.outcome = [r \in Requests |->
                                  IF StartRunning /\ r = Launch THEN "ok" ELSE "none"]
        BY DEF Init
    <2>3. Truthful
        BY <2>2 DEF Truthful
    <2>4. Held(workers["function"]) = {}
        <3> DEFINE e == <<>>
        <3>1. Len(e) = 0 /\ workers["function"].queue = e /\ workers["function"].pc = "idle"
            BY Short DEF Init, Workers
        <3> HIDE DEF e
        <3> QED BY <3>1 DEF Held
    <2> QED BY <2>1, <2>3, <2>4 DEF OwnInv, CausesInv, Unsaid
<1>2. FlowInv => AnswersInv
    BY DEF FlowInv
<1>3. AnswersInv /\ Truthful /\ [Next]_vars => Truthful'
    BY HonestKept DEF AnswersInv, Truthful, Honest
<1>4. FlowInv /\ JobsInv /\ OwnInv /\ [Next]_vars => OwnInv'
    BY OwnKept
<1>5. AnswersInv /\ AnswersInv' /\ Truthful' /\ Unsaid /\ [Next]_vars
      => Unsaid'
    BY UnsaidKept
<1>6. FlowInv /\ AnswersInv' /\ Truthful /\ Truthful' /\ CausesInv /\ [Next]_vars
      => CausesInv'
    BY CausesKept DEF FlowInv
<1> QED BY <1>1, <1>2, <1>3, <1>4, <1>5, <1>6, JobsHold, AnswersHold, PTL DEF Spec, AnswerOwn

\* A function breakpoint request is told `ok` for the breakpoints that the worker
\* installed for it: complete_functions takes whatever job is done for the request
\* that is active now, and until the program exits that is the right one.  After
\* an exit it may be the job of a request that the exit refused, and of no other.
THEOREM FunctionsAnsweredForThemselves == Spec => FunctionReplyIsOwn
<1> DEFINE Own == (/\ breakpoints.function # NoRequest
                   /\ client'.outcome[breakpoints.function] = "ok")
                  => LET job == workers["function"].job IN
                     \/ job.cause = breakpoints.function
                     \/ session.exited /\ client.answers[job.cause] >= 1
<1>1. AnswerOwn /\ AnswerOwn' /\ [Next]_vars => Own
    <2> SUFFICES ASSUME AnswerOwn, AnswerOwn', [Next]_vars,
                        breakpoints.function # NoRequest,
                        client'.outcome[breakpoints.function] = "ok"
                 PROVE  LET job == workers["function"].job IN
                        \/ job.cause = breakpoints.function
                        \/ session.exited /\ client.answers[job.cause] >= 1
        OBVIOUS
    <2>0. AnswersInv /\ SafetyInv /\ Types /\ OwnInv /\ CausesInv /\ Unsaid'
        BY DEF AnswerOwn, FlowInv, SafetyInv
    <2>1. breakpoints'.function # breakpoints.function
        BY <2>0 DEF Unsaid
    <2>2. ~Voids
        BY DEF Voids
    <2>3. "function" \in Installers /\ "panic" \in Installers
        BY DEF Installers
    <2>4. Finishes("function")
        <3>1. ~Holding /\ ~Cancelling
            BY <2>1, <2>2 DEF Holding, Cancelling
        <3>2. \A w \in Installers : ~Begins(w)
            BY DEF Begins, WorkPending
        <3>3. ~Finishes("panic")
            BY <2>1, <2>2 DEF Finishes
        <3> QED BY <2>0, <3>1, <3>2, <3>3, JobSteps DEF JobStep, Installers
    <2>5. Working
        BY <2>0, <2>1, AfterWork
    <2>6. workers["function"].job \in Held(workers["function"])
        BY <2>4 DEF Finishes, Held
    <2>7. CASE ~session.exited
        BY <2>0, <2>5, <2>6, <2>7 DEF OwnInv
    <2>8. CASE session.exited
        BY <2>0, <2>5, <2>6, <2>8 DEF CausesInv
    <2> QED BY <2>7, <2>8
<1>2. AnswerOwn /\ AnswerOwn' /\ [Next]_vars => [Own]_vars
    BY <1>1
<1> QED BY <1>2, AnswerOwnHolds, PTL DEF Spec, FunctionReplyIsOwn

-----------------------------------------------------------------------------
(* Which stops are held back, and until when.                                *)

\* The source replacements lldb-dap has not answered.
EditsOf(ps) == {p \in ps : p.command = "setBreakpoints"}

\* Each step keeps them, makes one while there is no breakpoint work, or takes
\* the answer of one; otherwise the session gives up.
EditsStay == /\ EditsOf(pending') = EditsOf(pending)
             /\ conditions'.updating = conditions.updating
Opens(q) == /\ ~WorkPending /\ conditions'.updating = TRUE
            /\ q.use = "client" /\ EditsOf(pending') = EditsOf(pending) \cup {q}
Closes(q) == /\ q \in EditsOf(pending) /\ EditsOf(pending') = EditsOf(pending) \ {q}
             /\ conditions'.updating = FALSE
             /\ q.client \in Requests => client'.outcome[q.client] # "none"
EditStep == \/ EditsStay \/ (\E q : Opens(q)) \/ (\E q : Closes(q))
            \/ at' \notin {"loop", "drain"}

\* The drain begins when nothing holds stops back, and goes on as long.
Drains == at' = "drain" => \/ ~HoldsStop'
                           \/ at = "drain" /\ (HoldsStop' <=> HoldsStop)

\* The stops held back are those held before and one that is heard of now.
StopsOf(b) == {b.stops[i] : i \in 1 .. Len(b.stops)}
Hears(stop) == /\ at = "loop" /\ fromAdapter # <<>>
               /\ Head(fromAdapter).type = "stopped" /\ stop = Head(fromAdapter).stop
HoldsBack == \A s \in StopsOf(breakpoints') : s \in StopsOf(breakpoints) \/ Hears(s)

Course == EditStep /\ Drains /\ HoldsBack /\ Shown(conditions'.active.stop)

LEMMA StopsTyped ==
    /\ NoJob.stop = NoStop /\ NoStop.by = {}
    /\ \A stop, n : ConditionJob(stop, n).stop = stop
    /\ Shown(NoStop) /\ Shown(conditions.active.stop)
BY DEF NoJob, NoStop, ConditionJob, Shown, Passed

\* A handler that has nothing to do with breakpoints.
LEMMA Aside ==
    ASSUME EditsOf(pending') = EditsOf(pending),
           conditions'.updating = conditions.updating,
           conditions'.active \in {conditions.active, NoJob},
           breakpoints'.stops \in {breakpoints.stops, <<>>},
           at' # "drain" \/ EnterDrain
    PROVE  Course
<1>1. EditStep
    BY DEF EditStep, EditsStay
<1>2. Drains
    BY DEF Drains, EnterDrain, WorkPending, HoldsStop
<1>3. HoldsBack
    <2>1. CASE breakpoints'.stops = <<>>
        <3> DEFINE e == <<>>
        <3>1. Len(e) = 0
            OBVIOUS
        <3>2. breakpoints'.stops = e
            BY <2>1
        <3> HIDE DEF e
        <3> QED BY <3>1, <3>2 DEF HoldsBack, StopsOf
    <2>2. CASE breakpoints'.stops = breakpoints.stops
        BY <2>2 DEF HoldsBack, StopsOf
    <2> QED BY <2>1, <2>2
<1> QED BY <1>1, <1>2, <1>3, StopsTyped DEF Course

LEMMA RaiseCourse ==
    ASSUME Types, NEW c, NEW ps, NEW ws, Raise(c, ps, ws)
    PROVE  Course
<1>1. at' = "shutdown" /\ conditions' = conditions /\ breakpoints' = CancelledWork
    BY DEF Raise
<1>2. breakpoints'.stops = <<>>
    BY <1>1 DEF CancelledWork, Types, BreakpointStates
<1>3. HoldsBack
    <2> DEFINE e == <<>>
    <2>1. Len(e) = 0 /\ breakpoints'.stops = e
        BY <1>2
    <2> HIDE DEF e
    <2> QED BY <2>1 DEF HoldsBack, StopsOf
<1> QED BY <1>1, <1>3, StopsTyped DEF Course, EditStep, Drains

\* A stop is published.
LEMMA PublishCourse ==
    ASSUME Types, NEW stop \in Stops, NEW c, NEW cond \in ConditionStates, NEW ws,
           NEW revision \in Nat, Shown(stop),
           \/ PublishStop(stop, c, cond, ws, revision)
           \/ PublishConditionStop(stop, c, cond, ws, revision) /\ pending' \subseteq pending
              /\ EditsOf(pending') = EditsOf(pending),
           cond.updating = conditions.updating,
           cond.active \in {conditions.active, NoJob}
    PROVE  EditsStay /\ Shown(conditions'.active.stop)
<1>1. EditsOf(pending') = EditsOf(pending)
    <2>1. CASE PublishStop(stop, c, cond, ws, revision)
        <3>1. CASE pending' = pending
            BY <3>1
        <3>2. CASE pending' # pending
            <4>1. PICK p : Goes(p, pending) /\ p.command = "stackTrace"
                BY <2>1, <3>2, PublishSends
            <4> QED BY <4>1 DEF Goes, EditsOf
        <3> QED BY <3>1, <3>2
    <2> QED BY <2>1
<1>2. conditions' = cond \/ conditions' = [cond EXCEPT !.active = ConditionJob(stop, revision)]
    BY DEF PublishStop, PublishConditionStop
<1>3. CASE conditions' = cond
    BY <1>1, <1>3, StopsTyped DEF EditsStay
<1>4. CASE conditions' = [cond EXCEPT !.active = ConditionJob(stop, revision)]
    <2>1. /\ conditions'.active = ConditionJob(stop, revision)
          /\ conditions'.updating = cond.updating
        BY <1>4 DEF ConditionStates
    <2> QED BY <1>1, <2>1, StopsTyped DEF EditsStay
<1> QED BY <1>2, <1>3, <1>4

LEMMA SendsOther ==
    ASSUME NEW ps, NEW n, NEW a, NEW command, NEW use, NEW kind, NEW stop, NEW cause,
           NEW revision, Send(ps, Outgoing(n, a, command, use, kind, stop, cause, revision)),
           command # "setBreakpoints"
    PROVE  EditsOf(pending') = EditsOf(ps)
BY DEF Send, Outgoing, EditsOf

LEMMA PerformCourse ==
    ASSUME Types, NEW req \in Asks, NEW b \in BreakpointStates, Perform(req, b),
           Deferrable(req.command) => ~WorkPending
    PROVE  /\ EditsStay \/ \E q : Opens(q)
           /\ conditions'.active = conditions.active
           /\ breakpoints'.stops = b.stops
<1>0. conditions \in ConditionStates
    BY DEF Types
<1>1. CASE \/ Refused(req) /\ ReplyAtOnce(req, "error", b)
           \/ Variables(req, b)
           \/ session.ended /\ ReplyAtOnce(req, "ok", b)
    BY <1>1 DEF ReplyAtOnce, Variables, EditsStay
<1>2. CASE ReplaceFunctions(req, b) \/ ReplacePanic(req, b)
    <2>1. UNCHANGED <<pending, conditions>> /\ breakpoints'.stops = b.stops
        BY <1>2 DEF ReplaceFunctions, ReplacePanic, BreakpointStates
    <2> QED BY <2>1 DEF EditsStay
<1>3. CASE ReplaceSources(req, b)
    <2>1. /\ conditions' = [conditions EXCEPT !.updating = TRUE]
          /\ Forward(req, req.command) /\ req.kind \in KnownKinds /\ breakpoints' = b
          /\ req.command = "setBreakpoints"
        BY <1>3 DEF ReplaceSources, Valid, Asks, KnownKinds
    <2>2. PICK p : Goes(p, pending) /\ p.command = "setBreakpoints" /\ p.use = "client"
        BY <2>1, Forwards
    <2>3. conditions'.updating = TRUE /\ conditions'.active = conditions.active
        BY <1>0, <2>1 DEF ConditionStates
    <2>4. ~WorkPending
        BY <2>1 DEF Deferrable
    <2>5. EditsOf(pending') = EditsOf(pending) \cup {p}
        BY <2>2 DEF Goes, EditsOf
    <2> QED BY <2>1, <2>2, <2>3, <2>4, <2>5 DEF Opens
<1>4. ASSUME NEW command, command # "setBreakpoints", Forward(req, command)
      PROVE  EditsOf(pending') = EditsOf(pending)
    BY <1>4, SendsOther DEF Forward
<1>5. CASE ConfigurationDone(req, b)
    <2>1. conditions' = conditions /\ breakpoints'.stops = b.stops
        BY <1>5 DEF ConfigurationDone, BreakpointStates
    <2>2. \/ pending' = pending
          \/ Forward(req, req.command) /\ req.command # "setBreakpoints"
        BY <1>5 DEF ConfigurationDone
    <2> QED BY <1>4, <2>1, <2>2 DEF EditsStay
<1>6. CASE StackTrace(req, b) \/ Pause(req, b)
           \/ (~session.ended /\ session.ready /\ req.command = "threads"
               /\ Forward(req, req.command) /\ breakpoints' = b /\ conditions' = conditions)
    <2>1. /\ conditions' = conditions /\ breakpoints' = b /\ Forward(req, req.command)
          /\ req.command # "setBreakpoints"
        BY <1>6 DEF StackTrace, Pause
    <2> QED BY <1>4, <2>1 DEF EditsStay
<1>7. CASE Resume(req, b)
    <2>1. /\ conditions' = [conditions EXCEPT !.stepping = req.command # "continue"]
          /\ breakpoints' = b /\ req.command # "setBreakpoints"
          /\ Send(pending, Outgoing(FreshSeq(pending), req.seq, req.command, "client",
                              "none", NoStop, 0, session.revision + 1))
        BY <1>7 DEF Resume, Resumes
    <2>2. conditions'.updating = conditions.updating
          /\ conditions'.active = conditions.active
        BY <1>0, <2>1 DEF ConditionStates
    <2> QED BY <2>1, <2>2, SendsOther DEF EditsStay
<1> QED BY <1>1, <1>2, <1>3, <1>5, <1>6, <1>7 DEF Perform, Threads

LEMMA ClientCourse ==
    ASSUME Types, OnClient
    PROVE  Course
<1> SUFFICES ASSUME NEW req, req = Head(fromClient), fromClient # <<>>,
                    \/ DeferRequest(req) \/ InterruptCondition(req)
                    \/ PerformRequest(req) \/ Disconnect(req)
                    \/ RefuseWhileClosing(req) \/ ClientEof(req)
             PROVE  Course
    BY DEF OnClient
<1>1. /\ req \in Asks \cup Eofs
      /\ req.command # "eof" => req \in Asks
      /\ breakpoints \in BreakpointStates /\ conditions \in ConditionStates
    BY HeadTyped DEF Types, Eofs
<1>2. CASE DeferRequest(req)
    <2>1. /\ UNCHANGED <<pending, conditions>> /\ at' = "loop"
          /\ \/ breakpoints' = breakpoints
             \/ breakpoints' = [breakpoints EXCEPT !.deferred = Append(@, req)]
        BY <1>2 DEF DeferRequest, ReplyAtOnce
    <2>2. breakpoints'.stops = breakpoints.stops
        BY <1>1, <2>1 DEF BreakpointStates
    <2> QED BY <2>1, <2>2, Aside
<1>3. CASE InterruptCondition(req)
    <2>1. /\ conditions' = [conditions EXCEPT !.active = NoJob]
          /\ UNCHANGED <<pending, breakpoints>> /\ EnterDrain
        BY <1>3 DEF InterruptCondition
    <2>2. conditions'.updating = conditions.updating /\ conditions'.active = NoJob
        BY <1>1, <2>1 DEF ConditionStates
    <2> QED BY <2>1, <2>2, Aside
<1>4. CASE RefuseWhileClosing(req) \/ ClientEof(req)
    <2>1. UNCHANGED <<pending, conditions, breakpoints>> /\ at' \in {"loop", "shutdown"}
        BY <1>4 DEF RefuseWhileClosing, ClientEof, ReplyAtOnce
    <2> QED BY <2>1, Aside
<1>5. CASE PerformRequest(req)
    <2>1. /\ req.command # "eof" /\ Perform(req, breakpoints) /\ ~MustDefer(req)
          /\ at' = "loop"
        BY <1>5 DEF PerformRequest
    <2>2. Deferrable(req.command) => ~WorkPending
        BY <2>1 DEF MustDefer
    <2>3. /\ EditsStay \/ \E q : Opens(q)
          /\ conditions'.active = conditions.active
          /\ breakpoints'.stops = breakpoints.stops
        BY <1>1, <2>1, <2>2, PerformCourse
    <2> QED BY <2>1, <2>3, StopsTyped DEF Course, EditStep, Drains, HoldsBack, StopsOf
<1>6. CASE Disconnect(req)
    <2>1. /\ breakpoints' = CancelledWork /\ conditions' = conditions /\ at' = "loop"
          /\ Forward(req, "disconnect")
        BY <1>6 DEF Disconnect
    <2>2. breakpoints'.stops = <<>>
        BY <1>1, <2>1 DEF CancelledWork, BreakpointStates
    <2>3. EditsOf(pending') = EditsOf(pending)
        BY <2>1, SendsOther DEF Forward
    <2> QED BY <2>1, <2>2, <2>3, Aside
<1> QED BY <1>2, <1>3, <1>4, <1>5, <1>6

LEMMA DrainCourse ==
    ASSUME Types, DrainsAtRest, DrainStop \/ DrainRequest
    PROVE  Course
<1>1. /\ breakpoints \in BreakpointStates /\ conditions \in ConditionStates
      /\ session.revision \in Nat /\ at = "drain"
    BY DEF Types, Flags, DrainStop, DrainRequest
<1>2. CASE DrainStop
    <2> DEFINE q == breakpoints.stops
    <2>1. /\ q # <<>> /\ q \in Seq(Stops) /\ breakpoints' = [breakpoints EXCEPT !.stops = Tail(q)]
          /\ PublishStop(Head(q), client, conditions, workers, session.revision)
          /\ Shown(Head(q))
        BY <1>1, <1>2 DEF DrainStop, BreakpointStates, Shown, Passes
    <2>2. /\ breakpoints'.stops = Tail(q) /\ breakpoints'.function = breakpoints.function
          /\ breakpoints'.panic = breakpoints.panic
        BY <1>1, <2>1 DEF BreakpointStates
    <2> HIDE DEF q
    <2>3. /\ Head(q) \in Stops /\ Len(q) \in Nat /\ Len(Tail(q)) = Len(q) - 1
          /\ \A i \in 1 .. Len(Tail(q)) : Tail(q)[i] = q[i + 1] /\ i + 1 \in 1 .. Len(q)
        BY <2>1, Tails
    <2>4. EditsStay /\ Shown(conditions'.active.stop)
        BY <1>1, <2>1, <2>3, PublishCourse
    <2>5. Drains
        BY <1>1, <2>2, <2>4 DEF Drains, HoldsStop, EditsStay
    <2>6. HoldsBack
        BY <2>2, <2>3 DEF HoldsBack, StopsOf, q
    <2> QED BY <2>4, <2>5, <2>6 DEF Course, EditStep
<1>3. CASE DrainRequest
    <2> DEFINE req == Head(breakpoints.deferred)
               b == [breakpoints EXCEPT !.deferred = Tail(@)]
    <2>1. /\ breakpoints.deferred # <<>> /\ breakpoints.stops = <<>>
          /\ Perform(req, b) /\ KeepDraining
        BY <1>3 DEF DrainRequest
    <2>2. breakpoints.deferred \in Seq(Asks) /\ Tail(breakpoints.deferred) \in Seq(Asks)
          /\ req \in Asks
        BY <1>1, <2>1 DEF BreakpointStates
    <2>3. b \in BreakpointStates /\ b.stops = breakpoints.stops
        BY <1>1, <2>2 DEF BreakpointStates
    <2>4. ~WorkPending
        BY <1>1, <2>1 DEF DrainsAtRest
    <2> HIDE DEF req, b
    <2>5. /\ EditsStay \/ \E q : Opens(q)
          /\ conditions'.active = conditions.active
          /\ breakpoints'.stops = breakpoints.stops
        BY <2>1, <2>2, <2>3, <2>4, PerformCourse
    <2>6. Drains
        BY <2>1, <2>5 DEF Drains, KeepDraining, WorkPending, HoldsStop
    <2> QED BY <2>5, <2>6, StopsTyped DEF Course, EditStep, HoldsBack, StopsOf
<1> QED BY <1>2, <1>3

LEMMA SettledOther ==
    ASSUME NEW m, m.request.command # "setBreakpoints"
    PROVE  EditsOf(Settled(m)) = EditsOf(pending)
BY DEF EditsOf, Settled

LEMMA ReplyCourse ==
    ASSUME Types, Addressed, NEW m,
           \/ OnConditionContinued(m) \/ \E w \in Workers : OnWorkerReply(m, w)
           \/ \E panicked \in BOOLEAN : OnStopClassified(m, panicked)
           \/ OnStackTrace(m) \/ OnSourcesReplaced(m) \/ OnInitialize(m)
           \/ OnLaunched(m) \/ OnConfigured(m) \/ OnResumed(m) \/ OnPauseAnswered(m)
           \/ OnThreads(m) \/ OnDisconnected(m)
    PROVE  Course
<1>0. conditions \in ConditionStates /\ breakpoints \in BreakpointStates
      /\ client \in Editors
    BY DEF Types
<1>1. CASE OnConditionContinued(m)
    <2>1. /\ pending' = Settled(m) /\ breakpoints' = breakpoints /\ at' = "loop"
          /\ m.request \in pending /\ m.request.use = "conditionContinue"
          /\ conditions' \in {conditions, [conditions EXCEPT !.suppress = FALSE]}
        BY <1>1 DEF OnConditionContinued, TakeResponse
    <2>2. EditsOf(pending') = EditsOf(pending)
        BY <2>1, SettledOther DEF Addressed, Address
    <2>3. conditions'.updating = conditions.updating /\ conditions'.active = conditions.active
        BY <1>0, <2>1 DEF ConditionStates
    <2> QED BY <2>1, <2>2, <2>3, Aside
<1>2. CASE \E w \in Workers : OnWorkerReply(m, w)
    <2>1. /\ pending' = Settled(m) /\ UNCHANGED <<breakpoints, conditions>> /\ at' = "loop"
          /\ m.request \in pending /\ m.request.use \in Workers
        BY <1>2 DEF OnWorkerReply, TakeResponse
    <2>2. EditsOf(pending') = EditsOf(pending)
        BY <2>1, SettledOther DEF Addressed, Address
    <2> QED BY <2>1, <2>2, Aside
<1>3. CASE \E panicked \in BOOLEAN : OnStopClassified(m, panicked)
    <2>1. /\ pending' = Settled(m) /\ breakpoints' = breakpoints /\ at' = "loop"
          /\ m.request \in pending /\ m.request.use = "stopContext"
          /\ \/ conditions' = conditions
             \/ PublishConditionStop(m.request.stop, client, conditions, workers,
                                     session.revision)
        BY <1>3 DEF OnStopClassified, TakeResponse
    <2>2. EditsOf(pending') = EditsOf(pending)
        BY <2>1, SettledOther DEF Addressed, Address
    <2>3. CASE conditions' = conditions
        BY <2>1, <2>2, <2>3, Aside
    <2>4. CASE PublishConditionStop(m.request.stop, client, conditions, workers,
                                    session.revision)
        <3>1. /\ m.request.stop \in Stops /\ session.revision \in Nat
              /\ pending' \subseteq pending
            BY <2>1 DEF Types, Sent, Flags, Settled
        <3>2. Shown(m.request.stop)
            BY <2>1 DEF Shown, Passed
        <3> DEFINE s == m.request.stop
        <3>3. PublishConditionStop(s, client, conditions, workers, session.revision)
            BY <2>4
        <3> HIDE DEF s
        <3>4. EditsStay /\ Shown(conditions'.active.stop)
            BY <1>0, <2>2, <3>1, <3>2, <3>3, PublishCourse DEF s
        <3> QED BY <2>1, <3>4 DEF Course, EditStep, Drains, HoldsBack, StopsOf
    <2> QED BY <2>1, <2>3, <2>4
<1>4. CASE \/ OnStackTrace(m) \/ OnLaunched(m) \/ OnConfigured(m) \/ OnResumed(m)
           \/ OnPauseAnswered(m) \/ OnThreads(m)
    <2>1. /\ pending' = Settled(m) /\ UNCHANGED <<breakpoints, conditions>> /\ at' = "loop"
          /\ m.request.command # "setBreakpoints"
        BY <1>4 DEF OnStackTrace, OnLaunched, OnConfigured, OnResumed, OnPauseAnswered,
           OnThreads, Resumes
    <2> QED BY <2>1, SettledOther, Aside
<1>5. CASE OnSourcesReplaced(m)
    <2> DEFINE q == m.request
    <2>1. CASE m.ok
        <3>1. /\ pending' = Settled(m) /\ q \in pending /\ q.command = "setBreakpoints"
              /\ conditions' = [conditions EXCEPT !.updating = FALSE,
                                                  !.bindings["source"] = q.kind]
              /\ client' = Answer(client, {q.client}, "ok")
              /\ breakpoints' = breakpoints /\ EnterDrain
            BY <1>5, <2>1 DEF OnSourcesReplaced, TakeResponse
        <3>2. conditions'.updating = FALSE /\ conditions'.active = conditions.active
            BY <1>0, <3>1 DEF ConditionStates
        <3>3. q \in EditsOf(pending) /\ EditsOf(pending') = EditsOf(pending) \ {q}
            BY <3>1 DEF EditsOf, Settled
        <3>4. q.client \in Requests => client'.outcome[q.client] # "none"
            BY <1>0, <3>1 DEF Answer, Editors
        <3> HIDE DEF q
        <3>5. EditStep
            BY <3>2, <3>3, <3>4 DEF EditStep, Closes
        <3>6. Drains
            BY <3>1 DEF Drains, EnterDrain, WorkPending, HoldsStop
        <3> QED BY <3>1, <3>2, <3>5, <3>6, StopsTyped DEF Course, HoldsBack, StopsOf
    <2>2. CASE ~m.ok
        BY <1>5, <2>2, RaiseCourse DEF OnSourcesReplaced
    <2> QED BY <2>1, <2>2
<1>6. CASE OnInitialize(m)
    <2>1. CASE m.ok
        <3>1. /\ UNCHANGED <<breakpoints, conditions>> /\ at' = "loop"
              /\ m.request.command = "initialize"
              /\ \/ pending' = Settled(m)
                 \/ \E n, r : Send(Settled(m), Outgoing(n, Launch, "launch", "client", "none",
                                                        NoStop, 0, r))
            BY <1>6, <2>1 DEF OnInitialize
        <3>2. EditsOf(pending') = EditsOf(Settled(m))
            BY <3>1, SendsOther
        <3> QED BY <3>1, <3>2, SettledOther, Aside
    <2>2. CASE ~m.ok
        BY <1>6, <2>2, RaiseCourse DEF OnInitialize
    <2> QED BY <2>1, <2>2
<1>7. CASE OnDisconnected(m)
    <2>1. CASE m.ok
        <3>1. UNCHANGED <<breakpoints, conditions>> /\ at' = "closed"
            BY <1>7, <2>1 DEF OnDisconnected
        <3> QED BY <3>1, StopsTyped DEF Course, EditStep, Drains, HoldsBack, StopsOf
    <2>2. CASE ~m.ok
        BY <1>7, <2>2, RaiseCourse DEF OnDisconnected
    <2> QED BY <2>1, <2>2
<1> QED BY <1>1, <1>2, <1>3, <1>4, <1>5, <1>6, <1>7

LEMMA EventCourse ==
    ASSUME Types, fromAdapter # <<>>, NEW m, m = Head(fromAdapter),
           \/ OnInitialized(m) \/ OnStopped(m) \/ OnContinued(m) \/ OnExited(m)
           \/ OnTerminated(m) \/ OnFailed(m)
    PROVE  Course
<1>0. /\ breakpoints \in BreakpointStates /\ conditions \in ConditionStates
      /\ session \in Flags /\ session.revision \in Nat
      /\ m \in Messages /\ m.stop \in Stops
    <2>1. fromAdapter \in Seq(Messages)
        BY DEF Types
    <2>2. m \in Messages
        BY <2>1, Tails
    <2> QED BY <2>2 DEF Types, Flags, Messages
<1>1. CASE OnInitialized(m) \/ OnContinued(m)
    <2>1. /\ pending' = pending /\ breakpoints' = breakpoints /\ at' = "loop"
          /\ conditions' \in {conditions, [conditions EXCEPT !.suppress = FALSE]}
        BY <1>1 DEF OnInitialized, OnContinued
    <2>2. conditions'.updating = conditions.updating /\ conditions'.active = conditions.active
        BY <1>0, <2>1 DEF ConditionStates
    <2> QED BY <2>1, <2>2, Aside
<1>2. CASE OnExited(m) \/ OnTerminated(m)
    <2>1. /\ UNCHANGED <<pending, conditions>> /\ breakpoints' = CancelledWork /\ at' = "loop"
        BY <1>2 DEF OnExited, OnTerminated
    <2>2. breakpoints'.stops = <<>>
        BY <1>0, <2>1 DEF CancelledWork, BreakpointStates
    <2> QED BY <2>1, <2>2, Aside
<1>3. CASE OnFailed(m)
    <2>1. \/ UNCHANGED <<pending, conditions, breakpoints>> /\ at' = "shutdown"
          \/ Raise(client, pending, workers)
        BY <1>3 DEF OnFailed
    <2> QED BY <2>1, RaiseCourse, Aside
<1>4. CASE OnStopped(m)
    <2>0. at' = "loop" /\ at = "loop" /\ m.type = "stopped"
        BY <1>4 DEF OnStopped, TakeEvent, TakeMessage
    <2> DEFINE cond == [conditions EXCEPT !.active = NoJob, !.suppress = FALSE,
                            !.stepping = @ \/ session.pauseRevision # None]
               ws == Release(workers, {"inspection", "condition"})
    <2>1. \/ UNCHANGED <<pending, conditions, breakpoints>>
          \/ /\ breakpoints' = [breakpoints EXCEPT !.stops = Append(@, m.stop)]
             /\ conditions' = cond /\ pending' = pending
          \/ /\ PublishStop(m.stop, AnswerStale(client), cond, ws, session.revision + 1)
             /\ breakpoints' = breakpoints /\ ~HoldsStop
        BY <1>4 DEF OnStopped
    <2>2. /\ cond \in ConditionStates /\ cond.active = NoJob
          /\ cond.updating = conditions.updating
        BY <1>0, Values DEF ConditionStates
    <2> HIDE DEF cond, ws
    <2>3. CASE UNCHANGED <<pending, conditions, breakpoints>>
        BY <2>0, <2>3, Aside
    <2>4. CASE /\ breakpoints' = [breakpoints EXCEPT !.stops = Append(@, m.stop)]
               /\ conditions' = cond /\ pending' = pending
        <3> DEFINE q == breakpoints.stops
        <3>1. q \in Seq(Stops) /\ breakpoints'.stops = Append(q, m.stop)
            BY <1>0, <2>4 DEF BreakpointStates
        <3> HIDE DEF q
        <3>2. /\ Append(q, m.stop)[Len(q) + 1] = m.stop
              /\ \A i \in 1 .. Len(q) : Append(q, m.stop)[i] = q[i]
              /\ \A i \in 1 .. Len(Append(q, m.stop)) : i \in 1 .. Len(q) \/ i = Len(q) + 1
            BY <1>0, <3>1, Appends
        <3>3. Hears(m.stop)
            BY <2>0 DEF Hears
        <3>4. HoldsBack
            BY <3>1, <3>2, <3>3 DEF HoldsBack, StopsOf, q
        <3> QED BY <2>0, <2>2, <2>4, <3>4, StopsTyped DEF Course, EditStep, EditsStay, Drains
    <2>5. CASE /\ PublishStop(m.stop, AnswerStale(client), cond, ws, session.revision + 1)
               /\ breakpoints' = breakpoints /\ ~HoldsStop
        <3>1. Shown(m.stop)
            BY <2>0, <2>5 DEF Shown, Passes
        <3>2. session.revision + 1 \in Nat
            BY <1>0
        <3>3. EditsStay /\ Shown(conditions'.active.stop)
            BY <1>0, <2>2, <2>5, <3>1, <3>2, PublishCourse
        <3> QED BY <2>0, <2>5, <3>3 DEF Course, EditStep, Drains, HoldsBack, StopsOf
    <2> QED BY <2>1, <2>3, <2>4, <2>5
<1> QED BY <1>1, <1>2, <1>3, <1>4

LEMMA WorkCourse ==
    ASSUME Types, OnWork
    PROVE  Course
<1>0. breakpoints \in BreakpointStates /\ conditions \in ConditionStates
    BY DEF Types
<1>1. ASSUME NEW w, IgnoreDone(w) \/ RaiseDone(w)
      PROVE  Course
    <2>1. CASE IgnoreDone(w)
        BY <2>1, Aside DEF IgnoreDone
    <2>2. CASE RaiseDone(w)
        BY <2>2, RaiseCourse DEF RaiseDone
    <2> QED BY <1>1, <2>1, <2>2
<1>2. CASE \E w \in Workers : OnRead(w)
    <2>1. PICK w \in Workers : OnRead(w)
        BY <1>2
    <2>2. /\ UNCHANGED <<breakpoints, conditions>> /\ at' = "loop"
          /\ \/ pending' = pending
             \/ \E n, k, s, c, r : Send(pending, Outgoing(n, NoRequest, "work", w, k, s, c, r))
        BY <2>1 DEF OnRead
    <2>3. EditsOf(pending') = EditsOf(pending)
        BY <2>2, SendsOther
    <2> QED BY <2>2, <2>3, Aside
<1>3. CASE OnInspectDone
    BY <1>3, Aside DEF OnInspectDone
<1>4. CASE OnFunctionDone
    <2>1. CASE IgnoreDone("function") \/ RaiseDone("function")
        BY <1>1, <2>1
    <2>2. CASE ~(IgnoreDone("function") \/ RaiseDone("function"))
        <3>1. /\ conditions' = [conditions EXCEPT !.bindings["function"] = breakpoints.requested]
              /\ breakpoints' = [breakpoints EXCEPT !.function = NoRequest, !.requested = "none"]
              /\ pending' = pending /\ EnterDrain
            BY <1>4, <2>2 DEF OnFunctionDone
        <3>2. /\ conditions'.updating = conditions.updating
              /\ conditions'.active = conditions.active
              /\ breakpoints'.stops = breakpoints.stops
            BY <1>0, <3>1 DEF ConditionStates, BreakpointStates
        <3> QED BY <3>1, <3>2, Aside
    <2> QED BY <2>1, <2>2
<1>5. CASE OnPanicDone
    <2>1. CASE IgnoreDone("panic") \/ RaiseDone("panic")
        BY <1>1, <2>1
    <2>2. CASE ~(IgnoreDone("panic") \/ RaiseDone("panic"))
        <3>1. /\ UNCHANGED <<conditions, pending>> /\ EnterDrain
              /\ \E k : breakpoints' = [breakpoints EXCEPT !.panic = None,
                               !.panicConfigured = TRUE, !.panicInstalled = k]
            BY <1>5, <2>2 DEF OnPanicDone
        <3>2. breakpoints'.stops = breakpoints.stops
            BY <1>0, <3>1 DEF BreakpointStates
        <3> QED BY <3>1, <3>2, Aside
    <2> QED BY <2>1, <2>2
<1>6. CASE OnConditionDone
    <2>1. CASE IgnoreDone("condition")
        BY <1>1, <2>1
    <2>2. CASE ~IgnoreDone("condition")
        <3>1. /\ breakpoints' = breakpoints /\ EnterDrain
              /\ conditions' \in {[conditions EXCEPT !.active = NoJob, !.suppress = TRUE],
                                  [conditions EXCEPT !.active = NoJob]}
              /\ \/ pending' = pending
                 \/ \E n, s, r : Send(pending, Outgoing(n, NoRequest, "continue",
                                        "conditionContinue", "none", s, 0, r))
            BY <1>6, <2>2 DEF OnConditionDone
        <3>2. conditions'.updating = conditions.updating /\ conditions'.active = NoJob
            BY <1>0, <3>1 DEF ConditionStates
        <3>3. EditsOf(pending') = EditsOf(pending)
            BY <3>1, SendsOther
        <3> QED BY <3>1, <3>2, <3>3, Aside
    <2> QED BY <2>1, <2>2
<1> QED BY <1>2, <1>3, <1>4, <1>5, <1>6 DEF OnWork

LEMMA CourseSteps ==
    ASSUME Types, Addressed, DrainsAtRest, [Next]_vars
    PROVE  Course
<1>1. CASE OnAdapter
    BY <1>1, ReplyCourse, EventCourse DEF OnAdapter
<1>2. CASE Timeout
    <2>1. \/ UNCHANGED <<pending, conditions, breakpoints>> /\ at' = "shutdown"
          \/ Raise(client, pending, workers)
        BY <1>2 DEF Timeout
    <2> QED BY <2>1, RaiseCourse, Aside
<1>3. CASE Shutdown
    BY <1>3, StopsTyped DEF Shutdown, Course, EditStep, Drains, HoldsBack, StopsOf
<1>4. CASE UNCHANGED <<pending, conditions, breakpoints, at>>
    BY <1>4, StopsTyped
    DEF Course, EditStep, EditsStay, Drains, HoldsStop, HoldsBack, StopsOf
<1>5. CASE UNCHANGED vars \/ (\E w \in Workers : Worker(w)) \/ ClientSends \/ ClientLeaves
           \/ Adapter \/ AdapterAnswers \/ TargetStops \/ TargetExits \/ Crash
    <2>1. Adapter => \E p, ms, t : Handle(p, ms, t)
        BY Zenon DEF Adapter, AdapterLaunches, AdapterRefuses, Installs, Inspects, Continues,
           Halts, Leaves
    <2> QED BY <1>4, <1>5, <2>1 DEF vars, Worker, WorkerStart, WorkerFinish, WorkerTimeout,
               StepWorker, ClientSends, ClientLeaves, Handle, AdapterAnswers, TargetStops,
               TargetExits, Crash, TargetMoves
<1> QED BY <1>1, <1>2, <1>3, <1>5, ClientCourse, DrainCourse, WorkCourse DEF Next

-----------------------------------------------------------------------------
(* Breakpoint IDs reach the editor before stops that hit them.               *)

\* One source replacement is under way at a time, and stops are held back while
\* it is; nothing is drained then.
EditsInv ==
    /\ Working => /\ \A p \in EditsOf(pending) : p.use = "client" /\ conditions.updating
                  /\ \A p, q \in EditsOf(pending) : p = q
    /\ at = "drain" => ~HoldsStop

LEMMA EditsKept ==
    ASSUME FlowInv, EditsInv, [Next]_vars
    PROVE  EditsInv'
<1>0. /\ SafetyInv /\ Addressed /\ Types /\ DrainsAtRest
    BY DEF FlowInv, SafetyInv, AnswersInv
<1>1. Working' => Working
    BY <1>0, Monotone
<1>2. EditStep /\ Drains
    BY <1>0, CourseSteps DEF Course
<1>3. at' = "drain" => ~HoldsStop'
    BY <1>2 DEF Drains, EditsInv
<1> SUFFICES ASSUME Working'
             PROVE  /\ \A p \in EditsOf(pending') : p.use = "client" /\ conditions'.updating
                    /\ \A p, q \in EditsOf(pending') : p = q
    BY <1>3 DEF EditsInv
<1>4. /\ \A p \in EditsOf(pending) : p.use = "client" /\ conditions.updating
      /\ \A p, q \in EditsOf(pending) : p = q
    BY <1>1 DEF EditsInv
<1>5. CASE EditsStay
    BY <1>4, <1>5 DEF EditsStay
<1>6. ASSUME NEW q, Opens(q)
      PROVE  /\ \A p \in EditsOf(pending') : p.use = "client" /\ conditions'.updating
             /\ \A p, r \in EditsOf(pending') : p = r
    <2>1. EditsOf(pending) = {}
        BY <1>4, <1>6 DEF Opens, WorkPending
    <2> QED BY <1>6, <2>1 DEF Opens
<1>7. ASSUME NEW q, Closes(q)
      PROVE  EditsOf(pending') = {}
    BY <1>4, <1>7 DEF Closes
<1> QED BY <1>2, <1>5, <1>6, <1>7 DEF EditStep, Working

\* The breakpoint requests the session has answered, and those it will answer
\* before it lets a stop through.
Answered == {r \in Requests : client.answers[r] >= 1}
Owned == {NoRequest, breakpoints.function} \cup Answered
         \cup {p.client : p \in EditsOf(pending)}

LEMMA AnsweredGrows ==
    ASSUME Types, Truthful, [Next]_vars
    PROVE  /\ Answered \subseteq Answered'
           /\ \A r \in Requests : client'.outcome[r] # "none" => r \in Answered'
           /\ Shown(client'.stop)
BY HonestKept DEF Honest, Answered

LEMMA OwnedGrows ==
    ASSUME FlowInv, Truthful, [Next]_vars, Working'
    PROVE  Owned \subseteq Owned'
<1>0. /\ AnswersInv /\ SafetyInv /\ Addressed /\ Types /\ DrainsAtRest
    BY DEF FlowInv, SafetyInv, AnswersInv
<1>1. /\ Answered \subseteq Answered'
      /\ \A r \in Requests : client'.outcome[r] # "none" => r \in Answered'
    BY <1>0, AnsweredGrows
<1>2. breakpoints.function \in Owned'
    <2> DEFINE f == breakpoints.function
    <2>1. f = NoRequest \/ f \in Requests
        BY <1>0 DEF Types, BreakpointStates, Others
    <2>2. CASE breakpoints'.function = f
        BY <2>2 DEF Owned
    <2>3. CASE Voids
        BY <1>1, <2>1, <2>3 DEF Voids, Owned
    <2>4. CASE \E w \in Installers : Begins(w)
        BY <2>4 DEF Begins, WorkPending, Owned
    <2>5. ASSUME NEW w \in Installers, Finishes(w)
          PROVE  f \in Owned'
        BY <1>1, <2>1, <2>2, <2>5 DEF Finishes, Owned, Working, Installers
    <2> QED BY <1>0, <2>2, <2>3, <2>4, <2>5, JobSteps DEF JobStep, Holding, Cancelling
<1>3. \A p \in EditsOf(pending) : p.client \in Owned'
    <2>1. EditStep /\ at' \in {"loop", "drain"}
        BY <1>0, CourseSteps DEF Course, Working
    <2>2. CASE EditsStay \/ \E q : Opens(q)
        BY <2>2 DEF EditsStay, Opens, Owned
    <2>3. ASSUME NEW q, Closes(q)
          PROVE  \A p \in EditsOf(pending) : p.client \in Owned'
        <3>1. q.client \in Requests \/ q.client = NoRequest
            BY <1>0, <2>3 DEF Closes, EditsOf, Types, Sent
        <3>2. q.client \in Owned'
            BY <1>1, <2>3, <3>1 DEF Closes, Owned
        <3> QED BY <2>3, <3>2 DEF Closes, Owned
    <2> QED BY <2>1, <2>2, <2>3 DEF EditStep
<1> QED BY <1>1, <1>2, <1>3 DEF Owned

\* What the session sends, all in all: one request, or nothing, or its last one.
LEMMA SendsOrNot ==
    ASSUME SafetyInv, Addressed, [Next]_vars
    PROVE  /\ \/ pending' \subseteq pending
              \/ \E p : Sends(p) /\ pending' \subseteq pending \cup {p}
              \/ \E p : p.use = "client" /\ pending' \subseteq pending \cup {p}
           /\ \A i \in 1 .. Len(toAdapter') :
                 \/ \E k \in 1 .. Len(toAdapter) : toAdapter'[i] = toAdapter[k]
                 \/ Sends(toAdapter'[i]) /\ toAdapter'[i] \in pending'
<1>0. Types
    BY DEF SafetyInv
<1>1. CASE SendsLittle
    <2>1. CASE toAdapter' = toAdapter /\ pending' \subseteq pending
        BY <2>1
    <2>2. ASSUME NEW p, Sends(p)
          PROVE  /\ pending' \subseteq pending \cup {p}
                 /\ \A i \in 1 .. Len(toAdapter') :
                       \/ \E k \in 1 .. Len(toAdapter) : toAdapter'[i] = toAdapter[k]
                       \/ Sends(toAdapter'[i]) /\ toAdapter'[i] \in pending'
        <3>1. PICK ps \in SUBSET pending : Goes(p, ps)
            BY <2>2 DEF Sends
        <3>2. pending' = ps \cup {p}
            BY <3>1 DEF Goes
        <3> QED BY <1>0, <2>2, <3>1, <3>2, Grown
    <2> QED BY <1>1, <2>1, <2>2 DEF SendsLittle
<1>2. CASE \E p \in Sent, ms \in Seq(Messages) :
               Handle(p, ms, target') /\ Effect(p, ms) /\ Address(p)
    <2>1. PICK p \in Sent, ms \in Seq(Messages) : Handle(p, ms, target')
        BY <1>2
    <2>2. pending' = pending
        BY <2>1 DEF Handle
    <2> QED BY <1>0, <2>1, <2>2, Handled
<1>3. CASE Shutdown
    <2> DEFINE e == <<>>
    <2>1. Len(e) = 0 /\ toAdapter' = e
        BY <1>3, LastWord
    <2>2. \E p : p.use = "client" /\ pending' \subseteq pending \cup {p}
        BY <1>3, LastWord
    <2> HIDE DEF e
    <2> QED BY <2>1, <2>2
<1>4. CASE Apart \/ AdapterAnswers \/ TargetStops \/ TargetExits \/ Crash
    <2>1. toAdapter' = toAdapter /\ pending' = pending
        BY <1>4 DEF Apart, AdapterAnswers, TargetStops, TargetExits, Crash, TargetMoves
    <2> QED BY <2>1
<1>5. OwnStep \/ (\E m : MessageStep(m)) => SendsLittle
    BY DEF OwnStep, MessageStep
<1> QED BY <1>1, <1>2, <1>3, <1>4, <1>5, Steps

\* Who asked for the breakpoints of the target, of the requests and jobs that
\* install them, and of the stops on their way is known to the session; who
\* asked for those of a stop it let through was answered.
Carried(p) == /\ p.command = "setBreakpoints" => p.client \in Owned
              /\ p.use = "function" => p.cause \in Owned
KnownInv ==
    /\ \A s \in Passed : s.by \subseteq Answered
    /\ Working => /\ {target.source, target.function} \subseteq Owned
                  /\ \A i \in 1 .. Len(toAdapter) : Carried(toAdapter[i])
                  /\ \A j \in Held(workers["function"]) : j.cause \in Owned
                  /\ \A i \in 1 .. Len(fromAdapter) :
                        fromAdapter[i].type = "stopped" => fromAdapter[i].stop.by \subseteq Owned
                  /\ \A s \in StopsOf(breakpoints) : s.by \subseteq Owned

\* Nothing is unanswered when a stop is let through.
LEMMA PassesAnswered ==
    ASSUME Types, EditsInv, KnownInv, NEW s, Passes(s)
    PROVE  s.by \subseteq Answered
<1>1. Working /\ ~HoldsStop
    BY DEF Passes, Working, EditsInv
<1>2. EditsOf(pending) = {} /\ breakpoints.function = NoRequest
    BY <1>1 DEF EditsInv, HoldsStop
<1>3. Owned = {NoRequest} \cup Answered
    BY <1>2 DEF Owned
<1>4. s \in Stops /\ s.by \subseteq Owned
    <2>1. CASE at = "drain" /\ breakpoints.stops # <<>> /\ s = Head(breakpoints.stops)
        <3>1. breakpoints.stops \in Seq(Stops)
            BY DEF Types, BreakpointStates
        <3>2. s \in Stops /\ s \in StopsOf(breakpoints)
            BY <2>1, <3>1, Tails DEF StopsOf
        <3> QED BY <1>1, <3>2 DEF KnownInv
    <2>2. CASE fromAdapter # <<>> /\ Head(fromAdapter).type = "stopped"
               /\ s = Head(fromAdapter).stop
        <3>1. fromAdapter \in Seq(Messages)
            BY DEF Types
        <3>2. /\ Head(fromAdapter) \in Messages /\ 1 \in 1 .. Len(fromAdapter)
              /\ Head(fromAdapter) = fromAdapter[1]
            BY <2>2, <3>1, Tails
        <3> QED BY <1>1, <2>2, <3>2 DEF KnownInv, Messages
    <2> QED BY <2>1, <2>2 DEF Passes
<1>5. s.by \subseteq Requests /\ NoRequest \notin Requests
    BY <1>4 DEF Stops, Requests, NoRequest
<1> QED BY <1>3, <1>4, <1>5

LEMMA PassedKept ==
    ASSUME FlowInv, EditsInv, Truthful, KnownInv, [Next]_vars
    PROVE  \A s \in Passed' : s.by \subseteq Answered'
<1>0. /\ SafetyInv /\ Addressed /\ Types /\ DrainsAtRest
    BY DEF FlowInv, SafetyInv, AnswersInv
<1>1. Answered \subseteq Answered' /\ Shown(client'.stop) /\ Shown(conditions'.active.stop)
    BY <1>0, AnsweredGrows, CourseSteps DEF Course
<1>2. \A s : Shown(s) => s.by \subseteq Answered
    BY <1>0, PassesAnswered DEF Shown, KnownInv
<1>3. \A p \in pending' : p.use \in {"stopContext", "conditionContinue"} => Shown(p.stop)
    <2>1. \A p \in pending : p.use \in {"stopContext", "conditionContinue"} => Shown(p.stop)
        BY DEF Shown, Passed
    <2>2. \A p : Sends(p) => (p.use \in {"stopContext", "conditionContinue"} => Shown(p.stop))
        BY DEF Sends, Skips, Shown, Passed
    <2> QED BY <1>0, <2>1, <2>2, SendsOrNot
<1>4. \A s \in Passed' : Shown(s)
    BY <1>1, <1>3, StopsTyped DEF Passed
<1> QED BY <1>1, <1>2, <1>4

LEMMA TargetKnown ==
    ASSUME FlowInv, KnownInv, [Next]_vars, Working', Owned \subseteq Owned'
    PROVE  /\ {target'.source, target'.function} \subseteq Owned'
           /\ \A i \in 1 .. Len(fromAdapter') :
                 fromAdapter'[i].type = "stopped" => fromAdapter'[i].stop.by \subseteq Owned'
<1>0. /\ SafetyInv /\ Addressed /\ Types /\ Working
    BY Monotone DEF FlowInv, SafetyInv, AnswersInv
<1>1. /\ {target.source, target.function} \subseteq Owned
      /\ \A i \in 1 .. Len(toAdapter) : Carried(toAdapter[i])
      /\ \A i \in 1 .. Len(fromAdapter) :
            fromAdapter[i].type = "stopped" => fromAdapter[i].stop.by \subseteq Owned
    BY <1>0 DEF KnownInv
<1>2. CASE OwnStep
    BY <1>1, <1>2 DEF OwnStep
<1>3. CASE \E m : MessageStep(m)
    BY <1>0, <1>1, <1>3, Heard DEF MessageStep
<1>4. CASE \E p \in Sent, ms \in Seq(Messages) :
               Handle(p, ms, target') /\ Effect(p, ms) /\ Address(p)
    <2>1. PICK p \in Sent, ms \in Seq(Messages) : Handle(p, ms, target') /\ Effect(p, ms)
        BY <1>4
    <2>2. Carried(p)
        BY <1>0, <1>1, <2>1, Handled
    <2>3. {target'.source, target'.function} \subseteq Owned'
        BY <1>1, <2>1, <2>2 DEF Effect, Installation, Carried, Owned
    <2>4. \A i \in 1 .. Len(ms) : ms[i].type = "stopped" => ms[i].stop.by = {}
        <3>1. \A n : [NoStop EXCEPT !.no = n].by = {}
            BY DEF NoStop
        <3> QED BY <2>1, <3>1 DEF Effect, Speaks, Says
    <2>5. \A i \in 1 .. Len(fromAdapter') :
             \/ \E k \in 1 .. Len(fromAdapter) : fromAdapter'[i] = fromAdapter[k]
             \/ \E k \in 1 .. Len(ms) : fromAdapter'[i] = ms[k]
        BY <1>0, <2>1, Handled
    <2> QED BY <1>1, <2>3, <2>4, <2>5
<1>5. CASE AdapterAnswers \/ TargetStops \/ TargetExits \/ Crash
    <2>1. PICK ms \in Seq(Messages) : Reports(ms)
        BY <1>0, <1>5, TargetEffects
    <2>2. \A i \in 1 .. Len(ms) :
             ms[i].type = "stopped" => ms[i].stop.by \subseteq {target.source, target.function}
        <3>1. CASE SaysDone(ms) \/ SaysFailed(ms)
            BY <3>1 DEF SaysDone, SaysFailed
        <3>2. CASE SaysExited(ms)
            <4>1. \A i \in 1 .. 2 : i = 1 \/ i = 2
                OBVIOUS
            <4> QED BY <3>2, <4>1 DEF SaysExited
        <3>3. CASE SaysStopped(ms)
            BY <3>3 DEF SaysStopped
        <3> QED BY <2>1, <3>1, <3>2, <3>3 DEF Reports
    <2>3. \A i \in 1 .. Len(fromAdapter') :
             \/ \E k \in 1 .. Len(fromAdapter) : fromAdapter'[i] = fromAdapter[k]
             \/ \E k \in 1 .. Len(ms) : fromAdapter'[i] = ms[k]
        BY <1>0, <2>1, Moved DEF Reports
    <2>4. target'.source = target.source /\ target'.function = target.function
        BY <2>1 DEF Reports, KeepsPlace
    <2> QED BY <1>1, <2>2, <2>3, <2>4
<1>6. CASE Shutdown
    BY <1>6 DEF Shutdown, Working
<1>7. CASE Apart
    BY <1>1, <1>7 DEF Apart
<1> QED BY <1>0, <1>2, <1>3, <1>4, <1>5, <1>6, <1>7, Steps

LEMMA JobsKnown ==
    ASSUME FlowInv, KnownInv, [Next]_vars, Working', Owned \subseteq Owned'
    PROVE  \A j \in Held(workers'["function"]) : j.cause \in Owned'
<1>0. /\ AnswersInv /\ SafetyInv /\ Addressed /\ Types /\ Working
    BY Monotone DEF FlowInv, SafetyInv
<1>1. \A j \in Held(workers["function"]) : j.cause \in Owned
    BY <1>0 DEF KnownInv
<1>2. "function" \in Installers
    BY DEF Installers
<1>3. CASE SteadyAt("function")
    BY <1>1, <1>3 DEF SteadyAt
<1>4. CASE Begins("function")
    BY <1>1, <1>4 DEF Begins, Owned
<1>5. CASE Finishes("function")
    BY <1>1, <1>5 DEF Finishes
<1>6. CASE Begins("panic") \/ Finishes("panic")
    BY <1>2, <1>3, <1>6 DEF Begins, Finishes
<1> QED BY <1>0, <1>2, <1>3, <1>4, <1>5, <1>6, JobSteps DEF JobStep, Steady, Installers

LEMMA KnownKept ==
    ASSUME FlowInv, EditsInv, Truthful, KnownInv, [Next]_vars
    PROVE  KnownInv'
<1>0. /\ SafetyInv /\ Addressed /\ Types /\ DrainsAtRest
    BY DEF FlowInv, SafetyInv, AnswersInv
<1>1. \A s \in Passed' : s.by \subseteq Answered'
    BY PassedKept
<1> SUFFICES ASSUME Working'
             PROVE  /\ {target'.source, target'.function} \subseteq Owned'
                    /\ \A i \in 1 .. Len(toAdapter') : Carried(toAdapter[i])'
                    /\ \A j \in Held(workers'["function"]) : j.cause \in Owned'
                    /\ \A i \in 1 .. Len(fromAdapter') :
                          fromAdapter'[i].type = "stopped"
                          => fromAdapter'[i].stop.by \subseteq Owned'
                    /\ \A s \in StopsOf(breakpoints') : s.by \subseteq Owned'
    BY <1>1 DEF KnownInv
<1>2. Working /\ Owned \subseteq Owned'
    BY <1>0, Monotone, OwnedGrows
<1>3. ASSUME NEW i \in 1 .. Len(toAdapter') PROVE Carried(toAdapter[i])'
    <2> DEFINE q == toAdapter'[i]
    <2>1. ASSUME NEW k \in 1 .. Len(toAdapter), q = toAdapter[k]
          PROVE  /\ q.command = "setBreakpoints" => q.client \in Owned'
                 /\ q.use = "function" => q.cause \in Owned'
        BY <1>2, <2>1 DEF KnownInv, Carried
    <2>2. ASSUME Sends(q), q \in pending'
          PROVE  /\ q.command = "setBreakpoints" => q.client \in Owned'
                 /\ q.use = "function" => q.cause \in Owned'
        <3>1. q.command = "setBreakpoints" => q.client \in Owned'
            BY <2>2 DEF EditsOf, Owned
        <3>2. q.use = "function" => workers["function"].job \in Held(workers["function"])
                                    /\ q.cause = workers["function"].job.cause
            BY <2>2 DEF Sends, Fetches, Held, Workers
        <3> QED BY <1>2, <3>1, <3>2 DEF KnownInv
    <2>3. \/ \E k \in 1 .. Len(toAdapter) : q = toAdapter[k]
          \/ Sends(q) /\ q \in pending'
        BY <1>0, SendsOrNot
    <2> HIDE DEF q
    <2>4. /\ q.command = "setBreakpoints" => q.client \in Owned'
          /\ q.use = "function" => q.cause \in Owned'
        BY <2>1, <2>2, <2>3
    <2> QED BY <2>4 DEF Carried, q
<1>4. \A s \in StopsOf(breakpoints') : s.by \subseteq Owned'
    <2>1. HoldsBack
        BY <1>0, CourseSteps DEF Course
    <2>2. \A s : Hears(s) => s.by \subseteq Owned
        <3>1. fromAdapter \in Seq(Messages)
            BY <1>0 DEF Types
        <3>2. fromAdapter # <<>> => 1 \in 1 .. Len(fromAdapter)
                                    /\ Head(fromAdapter) = fromAdapter[1]
            BY <3>1, Tails
        <3> QED BY <1>2, <3>2 DEF Hears, KnownInv
    <2> QED BY <1>2, <2>1, <2>2 DEF HoldsBack, KnownInv
<1> QED BY <1>2, <1>3, <1>4, TargetKnown, JobsKnown

LEMMA InitKnown == Init => EditsInv /\ KnownInv
<1> SUFFICES ASSUME Init PROVE EditsInv /\ KnownInv
    OBVIOUS
<1>1. /\ at = "loop" /\ toAdapter \in {<<>>, <<Outgoing(1, NoRequest, "initialize", "client",
                                                "none", NoStop, 0, 0)>>}
      /\ fromAdapter = <<>> /\ breakpoints.stops = <<>> /\ breakpoints.function = NoRequest
      /\ target.source = NoRequest /\ target.function = NoRequest
      /\ conditions.active = NoJob /\ client.stop = NoStop
      /\ workers["function"].queue = <<>> /\ workers["function"].pc = "idle"
      /\ pending \in {{}, {Outgoing(1, NoRequest, "initialize", "client", "none",
                                    NoStop, 0, 0)}}
    BY DEF Init, Workers
<1>2. \A p \in pending : p.command = "initialize" /\ p.use = "client"
    BY <1>1 DEF Outgoing
<1>3. EditsOf(pending) = {}
    BY <1>2 DEF EditsOf
<1>4. Passed = {NoStop} /\ NoStop.by = {}
    BY <1>1, <1>2, StopsTyped DEF Passed
<1>5. \A i \in 1 .. Len(toAdapter) : toAdapter[i].command = "initialize"
                                     /\ toAdapter[i].use = "client"
    <2> DEFINE e == <<>>
               p == Outgoing(1, NoRequest, "initialize", "client", "none", NoStop, 0, 0)
               s == <<p>>
    <2>1. Len(e) = 0 /\ Len(s) = 1 /\ s[1] = p /\ p.command = "initialize" /\ p.use = "client"
        BY Short DEF Outgoing
    <2>2. toAdapter = e \/ toAdapter = s
        BY <1>1
    <2> HIDE DEF e, p, s
    <2> QED BY <2>1, <2>2
<1>6. Len(fromAdapter) = 0 /\ Held(workers["function"]) = {} /\ StopsOf(breakpoints) = {}
    <2> DEFINE e == <<>>
    <2>1. /\ Len(e) = 0 /\ fromAdapter = e /\ breakpoints.stops = e
          /\ workers["function"].queue = e
        BY <1>1
    <2> HIDE DEF e
    <2> QED BY <1>1, <2>1 DEF Held, StopsOf
<1> QED BY <1>1, <1>3, <1>4, <1>5, <1>6 DEF EditsInv, KnownInv, Carried, Owned

LEMMA KnownHolds == Spec => [](AnswerOwn /\ EditsInv /\ KnownInv)
<1>1. AnswerOwn => FlowInv /\ Truthful
    BY DEF AnswerOwn
<1>2. FlowInv /\ EditsInv /\ [Next]_vars => EditsInv'
    BY EditsKept
<1>3. FlowInv /\ EditsInv /\ Truthful /\ KnownInv /\ [Next]_vars => KnownInv'
    BY KnownKept
<1> QED BY <1>1, <1>2, <1>3, InitKnown, AnswerOwnHolds, PTL DEF Spec

\* Whoever installed a breakpoint that a stop hit has been told its ID before
\* the editor is told of the stop: stops are held back while a breakpoint
\* request is unanswered, and a breakpoint is in the target only once the
\* session is at work on its request.
THEOREM IdsAlwaysFirst == Spec => []BreakpointIdsFirst
<1>1. AnswerOwn /\ KnownInv => BreakpointIdsFirst
    <2> SUFFICES ASSUME AnswerOwn, KnownInv, NEW r \in client.stop.by
                 PROVE  client.answers[r] = 1
        BY DEF BreakpointIdsFirst
    <2>1. AnswersInv /\ client \in Editors
        BY DEF AnswerOwn, FlowInv, AnswersInv, Types
    <2>2. r \in Answered
        BY DEF KnownInv, Passed
    <2>3. r \in Requests /\ client.answers[r] \in Nat /\ client.answers[r] >= 1
        BY <2>1, <2>2 DEF Answered, Editors
    <2>4. client.answers[r] <= 1
        <3>1. CASE r = Launch
            BY <2>1, <3>1 DEF AnswersInv, LaunchOnce, Count
        <3>2. CASE r # Launch
            BY <2>1, <2>3, <3>2 DEF AnswersInv, NoneTwice, Others
        <3> QED BY <3>1, <3>2
    <2> QED BY <2>3, <2>4
<1> QED BY <1>1, KnownHolds, PTL

-----------------------------------------------------------------------------
(* What is read of a stop, and what the editor gets of it.                   *)

Readers == {"inspection", "condition"}

\* A reader's next state: nothing is read, or nothing about its job has changed.
Unread(to) == \/ to.pc \in {"idle", "read"}
              \/ to.pc \in {"replied", "done"} /\ to.result = "error"
Keeping(me, to) == /\ to.job = me.job /\ to.data = me.data /\ to.result = me.result
                   /\ \/ to.pc = me.pc /\ to.seq = me.seq
                      \/ me.pc = "replied" /\ to.pc = "done"
Minds(ws) == \A w \in Readers : Unread(ws[w]) \/ Keeping(workers[w], ws[w])

\* It asks, or it gets an answer.
Asking(w) ==
    /\ workers'[w].pc = "wait" /\ workers'[w].job = workers[w].job
    /\ \E p : /\ Sends(p) /\ Goes(p, pending) /\ p.use = w
              /\ p.revision = session.revision /\ p.seq = workers'[w].seq
Getting(w, m) ==
    /\ fromAdapter # <<>> /\ m = Head(fromAdapter) /\ m.type = "response"
    /\ m.request \in pending /\ m.request.use = w
    /\ workers[w].pc = "wait" /\ workers[w].seq = m.request.seq
    /\ workers'[w].pc = "replied" /\ workers'[w].job = workers[w].job
    /\ workers'[w].result = m.value /\ workers'[w].data = m.data
Attends == \A w \in Readers :
    \/ Unread(workers'[w]) \/ Keeping(workers[w], workers'[w])
    \/ Asking(w) \/ \E m : Getting(w, m)

\* The request a reader goes on waiting for stays in the router.
Routed == \A w \in Readers : \A p \in pending :
    p.use = w => \/ p \in pending'
                 \/ workers'[w].pc # "wait" \/ workers[w].pc # "wait"
                 \/ workers[w].seq # p.seq

\* The editor is given nothing and frame handles stay or go; or it is given
\* frames, or what a job has read.
Hides == client'.data = client.data /\ inspection' \in {inspection, NoInspection}
Queues == /\ client'.data = client.data /\ inspection'.frames = inspection.frames
          /\ inspection.frames # None
          /\ \A j \in inspection'.waiting :
                j \in inspection.waiting \/ j.frame = inspection.frames
Shows == \E m \in Messages :
    /\ fromAdapter # <<>> /\ m = Head(fromAdapter) /\ m.type = "response" /\ m.ok
    /\ m.request.command = "stackTrace" /\ m.request.revision = session.revision
    /\ m.request.client \in Requests
    /\ client'.data = [client.data EXCEPT ![m.request.client] = m.data]
    /\ inspection'.frames = MapFrames(m.request.client)
    /\ inspection'.waiting = inspection.waiting
Tells(me) ==
    /\ me.pc = "done" /\ me.result = "ok" /\ me.job \in inspection.waiting
    /\ me.job.epoch = session.revision /\ me.job.cause \in Requests
    /\ client'.data = [client.data EXCEPT ![me.job.cause] = me.data]
    /\ inspection'.frames = inspection.frames
    /\ inspection'.waiting \subseteq inspection.waiting
Drops == client'.data = client.data /\ inspection'.frames = inspection.frames
         /\ inspection'.waiting \subseteq inspection.waiting
Gives == Hides \/ Queues \/ Shows \/ Tells(workers["inspection"]) \/ Drops

\* A session that gives up gives nothing.
Look == IF Working' THEN Gives /\ Attends /\ Routed ELSE client'.data = client.data
\* Most steps give nothing, and the readers go on or are told that it is over.
Calm == /\ Hides /\ Minds(workers')
        /\ \A p \in pending : p.use \in Readers => p \in pending'

LEMMA CalmLooks == Calm => Look
BY DEF Calm, Look, Gives, Hides, Minds, Attends, Routed

LEMMA DataKept ==
    ASSUME NEW c \in Editors
    PROVE  /\ \A S, o : Answer(c, S, o).data = c.data
           /\ \A stop : TellStopped(c, stop).data = c.data
           /\ TellContinued(c).data = c.data /\ TellExited(c).data = c.data
BY DEF Answer, TellStopped, TellContinued, TellExited, Editors

LEMMA DataStays ==
    ASSUME NEW c \in Editors
    PROVE  /\ AnswerCancelled(c).data = c.data
           /\ AnswerStale(c).data = c.data
           /\ CancelLaunch(c).data = c.data
           /\ TellTerminated(c).data = c.data
<1>1. /\ AnswerCancelled(c).data = c.data
      /\ AnswerStale(c).data = c.data
      /\ CancelLaunch(c).data = c.data
    BY DataKept, AnswerTyped DEF AnswerCancelled, AnswerStale, CancelLaunch
<1>2. TellTerminated(c).data = c.data
    BY DataKept, TellsTyped, Values DEF TellTerminated, Editors
<1> QED BY <1>1, <1>2

LEMMA MindsAll ==
    ASSUME NEW ws \in [Workers -> WorkerStates], Minds(ws)
    PROVE  /\ \A S : Minds(Release(ws, S))
           /\ \A w \in Workers : \A job : Minds(Enqueue(ws, w, job))
<1>0. \A w \in Readers : w \in Workers /\ ws[w] \in WorkerStates
    BY Values DEF Readers
<1>1. ASSUME NEW S PROVE Minds(Release(ws, S))
    <2> SUFFICES ASSUME NEW w \in Readers
                 PROVE  Unread(Release(ws, S)[w]) \/ Keeping(workers[w], Release(ws, S)[w])
        BY DEF Minds
    <2>1. CASE w \in S /\ ws[w].pc = "wait"
        <3>1. Release(ws, S)[w].pc = "replied" /\ Release(ws, S)[w].result = "error"
            BY <1>0, <2>1 DEF Release, WorkerStates
        <3> QED BY <3>1 DEF Unread
    <2>2. CASE ~(w \in S /\ ws[w].pc = "wait")
        <3>1. Release(ws, S)[w] = ws[w]
            BY <1>0, <2>2 DEF Release
        <3> QED BY <3>1 DEF Minds
    <2> QED BY <2>1, <2>2
<1>2. ASSUME NEW v \in Workers, NEW job PROVE Minds(Enqueue(ws, v, job))
    <2> SUFFICES ASSUME NEW w \in Readers
                 PROVE  Unread(Enqueue(ws, v, job)[w]) \/ Keeping(workers[w], Enqueue(ws, v, job)[w])
        BY DEF Minds
    <2> DEFINE to == Enqueue(ws, v, job)[w]
    <2>1. /\ to.pc = ws[w].pc /\ to.seq = ws[w].seq /\ to.job = ws[w].job
          /\ to.data = ws[w].data /\ to.result = ws[w].result
        BY <1>0 DEF Enqueue, WorkerStates
    <2> HIDE DEF to
    <2>2. Unread(to) \/ Keeping(workers[w], to)
        BY <2>1 DEF Minds, Unread, Keeping
    <2> QED BY <2>2 DEF to
<1> QED BY <1>1, <1>2

LEMMA MindsSame == Minds(workers)
BY DEF Minds, Keeping

LEMMA MindsRested ==
    ASSUME workers \in [Workers -> WorkerStates], NEW w \in Workers
    PROVE  Minds(Rested(w))
<1>1. /\ Rested(w)[w].pc = "idle" /\ \A v \in Workers : v # w => Rested(w)[v] = workers[v]
      /\ \A v \in Readers : v \in Workers
    BY Values DEF Rested, WorkerStates, Readers
<1> QED BY <1>1 DEF Minds, Unread, Keeping

LEMMA RaiseLooks ==
    ASSUME NEW c \in Editors, c.data = client.data, NEW ps, NEW ws, Raise(c, ps, ws)
    PROVE  Look
<1> DEFINE d == CancelLaunch(AnswerStale(AnswerCancelled(c)))
<1>1. client' = Answer(d, Asked(ps), "error") /\ at' = "shutdown"
    BY DEF Raise
<1>2. d \in Editors /\ d.data = c.data
    BY CancelsTyped, DataStays
<1> HIDE DEF d
<1> QED BY <1>1, <1>2, DataKept DEF Look, Working

\* A stop is published.
LEMMA PublishLooks ==
    ASSUME Types, NEW stop, NEW c \in Editors, NEW cond,
           NEW ws \in [Workers -> WorkerStates], NEW revision,
           c.data = client.data, Minds(ws),
           \/ PublishStop(stop, c, cond, ws, revision)
           \/ PublishConditionStop(stop, c, cond, ws, revision)
    PROVE  client'.data = client.data /\ Minds(workers')
<1> DEFINE job == ConditionJob(stop, revision)
           queued == Enqueue(ws, "condition", job)
<1>1. client' \in {c, TellStopped(c, stop)}
    BY DEF PublishStop, PublishConditionStop
<1>2. workers' \in {ws, queued}
    BY DEF PublishStop, PublishConditionStop
<1>3. Minds(queued)
    BY MindsAll, Values
<1> HIDE DEF queued
<1>4. client'.data = client.data
    BY <1>1, DataKept
<1> QED BY <1>2, <1>3, <1>4

LEMMA PublishKeeps ==
    ASSUME NEW stop, NEW c, NEW cond, NEW ws, NEW revision,
           PublishStop(stop, c, cond, ws, revision)
    PROVE  pending \subseteq pending'
BY DEF PublishStop, Send

\* A request of the editor is performed.
LEMMA PerformLooks ==
    ASSUME Types, NEW req \in Asks, NEW b, Perform(req, b)
    PROVE  /\ Hides \/ Queues
           /\ Minds(workers') /\ pending \subseteq pending'
<1>0. /\ client \in Editors /\ workers \in [Workers -> WorkerStates]
      /\ inspection \in Inspections
    BY DEF Types
<1>1. \A c \in Editors : \A S, o : Answer(c, S, o).data = c.data
    BY DataKept
<1>2. ASSUME NEW o, ReplyAtOnce(req, o, b)
      PROVE  Hides /\ Minds(workers') /\ pending \subseteq pending'
    BY <1>0, <1>1, <1>2, MindsSame DEF ReplyAtOnce, Hides
<1>3. CASE Refused(req) /\ ReplyAtOnce(req, "error", b)
    BY <1>2, <1>3
<1>4. CASE ReplaceFunctions(req, b) \/ ReplacePanic(req, b) \/ ConfigurationDone(req, b)
    <2>1. /\ UNCHANGED <<client, inspection>> /\ pending \subseteq pending'
          /\ \/ workers' = workers
             \/ \E w \in Workers : \E job : workers' = Enqueue(workers, w, job)
        BY <1>4, Values DEF ReplaceFunctions, ReplacePanic, ConfigurationDone, Forward, Send
    <2>2. Minds(workers')
        BY <1>0, <2>1, MindsSame, MindsAll
    <2> QED BY <2>1, <2>2 DEF Hides
<1>5. CASE ReplaceSources(req, b) \/ StackTrace(req, b) \/ Pause(req, b)
    <2>1. UNCHANGED <<client, inspection, workers>> /\ pending \subseteq pending'
        BY <1>5 DEF ReplaceSources, StackTrace, Pause, Forward, Send
    <2> QED BY <2>1, MindsSame DEF Hides
<1>6. CASE Threads(req, b)
    <2>1. CASE ReplyAtOnce(req, "ok", b)
        BY <1>2, <2>1
    <2>2. CASE ~ReplyAtOnce(req, "ok", b)
        <3>1. UNCHANGED <<client, inspection, workers>> /\ pending \subseteq pending'
            BY <1>6, <2>2 DEF Threads, Forward, Send
        <3> QED BY <3>1, MindsSame DEF Hides
    <2> QED BY <2>1, <2>2
<1>7. CASE Variables(req, b)
    <2> DEFINE job == [NoJob EXCEPT !.cause = req.seq, !.epoch = InspectionEpoch,
                                    !.frame = req.frame]
    <2>1. /\ inspection' = [inspection EXCEPT !.waiting = @ \cup {job}]
          /\ workers' = Enqueue(workers, "inspection", job)
          /\ inspection.frames # None /\ req.frame = inspection.frames
          /\ UNCHANGED <<pending, client>>
        BY <1>7 DEF Variables
    <2>2. job.frame = inspection.frames
        BY <2>1 DEF NoJob
    <2> HIDE DEF job
    <2>3. inspection'.frames = inspection.frames
          /\ inspection'.waiting = inspection.waiting \cup {job}
        BY <1>0, <2>1 DEF Inspections
    <2>4. Minds(workers')
        BY <1>0, <2>1, MindsSame, MindsAll, Values
    <2> QED BY <2>1, <2>2, <2>3, <2>4 DEF Queues
<1>8. CASE Resume(req, b)
    <2>1. /\ client' = [AnswerStale(client) EXCEPT !.view = "running", !.resume = req.seq]
          /\ inspection' = NoInspection /\ pending \subseteq pending'
          /\ workers' = Release(workers, {"inspection", "condition"})
        BY <1>8 DEF Resume, Send
    <2>2. AnswerStale(client) \in Editors /\ AnswerStale(client).data = client.data
        BY <1>0, CancelsTyped, DataStays
    <2>3. client'.data = client.data
        BY <2>1, <2>2 DEF Editors
    <2>4. Minds(workers')
        BY <1>0, <2>1, MindsSame, MindsAll
    <2> QED BY <2>1, <2>3, <2>4 DEF Hides
<1> QED BY <1>3, <1>4, <1>5, <1>6, <1>7, <1>8 DEF Perform

\* It is the loop's turn.
LEMMA PerformedLooks ==
    ASSUME Hides \/ Queues, Minds(workers'), pending \subseteq pending'
    PROVE  Look
BY DEF Look, Gives, Hides, Queues, Attends, Minds, Routed

LEMMA ClientLooks ==
    ASSUME Types, OnClient
    PROVE  Look
<1> SUFFICES ASSUME NEW req, req = Head(fromClient), fromClient # <<>>,
                    \/ DeferRequest(req) \/ InterruptCondition(req)
                    \/ PerformRequest(req) \/ Disconnect(req)
                    \/ RefuseWhileClosing(req) \/ ClientEof(req)
             PROVE  Look
    BY DEF OnClient
<1>1. /\ req \in Asks \cup Eofs
      /\ req.command # "eof" => req \in Asks
      /\ client \in Editors /\ workers \in [Workers -> WorkerStates]
    BY HeadTyped DEF Types, Eofs
<1>2. CASE DeferRequest(req) \/ RefuseWhileClosing(req)
    <2>1. /\ UNCHANGED <<pending, inspection, workers>>
          /\ client' = client \/ client' = Answer(client, {req.seq}, "error")
        BY <1>2 DEF DeferRequest, RefuseWhileClosing, ReplyAtOnce
    <2>2. client'.data = client.data
        BY <1>1, <2>1, DataKept
    <2> QED BY <2>1, <2>2, MindsSame, CalmLooks DEF Calm, Hides
<1>3. CASE InterruptCondition(req)
    <2>1. /\ UNCHANGED <<pending, inspection, workers>>
          /\ client' = TellStopped(Answer(client, {req.seq}, "ok"), conditions.active.stop)
        BY <1>3 DEF InterruptCondition
    <2>2. Answer(client, {req.seq}, "ok") \in Editors
          /\ Answer(client, {req.seq}, "ok").data = client.data
        BY <1>1, AnswerTyped, DataKept
    <2>3. client'.data = client.data
        BY <2>1, <2>2, DataKept
    <2> QED BY <2>1, <2>3, MindsSame, CalmLooks DEF Calm, Hides
<1>4. CASE ClientEof(req)
    BY <1>4, MindsSame, PerformedLooks DEF ClientEof, Hides
<1>5. CASE PerformRequest(req)
    <2>1. req.command # "eof" /\ Perform(req, breakpoints)
        BY <1>5 DEF PerformRequest
    <2> QED BY <1>1, <2>1, PerformLooks, PerformedLooks
<1>6. CASE Disconnect(req)
    <2>1. /\ client' = CancelLaunch(AnswerStale(AnswerCancelled(client)))
          /\ inspection' = NoInspection /\ pending \subseteq pending'
          /\ workers' = Release(workers, Workers)
        BY <1>6 DEF Disconnect, Forward, Send
    <2>2. client'.data = client.data
        BY <1>1, <2>1, CancelsTyped, DataStays
    <2>3. Minds(workers')
        BY <1>1, <2>1, MindsSame, MindsAll
    <2> QED BY <2>1, <2>2, <2>3, PerformedLooks DEF Hides
<1> QED BY <1>2, <1>3, <1>4, <1>5, <1>6

LEMMA DrainLooks ==
    ASSUME Types, DrainStop \/ DrainRequest
    PROVE  Look
<1>1. /\ client \in Editors /\ workers \in [Workers -> WorkerStates]
      /\ breakpoints \in BreakpointStates
    BY DEF Types
<1>2. CASE DrainStop
    <2>1. PublishStop(Head(breakpoints.stops), client, conditions, workers, session.revision)
          /\ inspection' = inspection
        BY <1>2 DEF DrainStop
    <2>2. client'.data = client.data /\ Minds(workers') /\ pending \subseteq pending'
        BY <1>1, <2>1, MindsSame, PublishLooks, PublishKeeps
    <2> QED BY <2>1, <2>2, PerformedLooks DEF Hides
<1>3. CASE DrainRequest
    <2>1. /\ breakpoints.deferred \in Seq(Asks) /\ breakpoints.deferred # <<>>
          /\ Perform(Head(breakpoints.deferred),
                     [breakpoints EXCEPT !.deferred = Tail(@)])
        BY <1>1, <1>3 DEF DrainRequest, BreakpointStates
    <2>2. Head(breakpoints.deferred) \in Asks
        BY <2>1
    <2> QED BY <2>1, <2>2, PerformLooks, PerformedLooks
<1> QED BY <1>2, <1>3

\* An answer leaves the router.
LEMMA SettledStays ==
    ASSUME NEW m, m.request.use \notin Readers
    PROVE  \A p \in pending : p.use \in Readers => p \in Settled(m)
BY DEF Settled

LEMMA ReplyLooks ==
    ASSUME Types, Addressed, NEW m,
           \/ OnConditionContinued(m) \/ \E w \in Workers : OnWorkerReply(m, w)
           \/ \E panicked \in BOOLEAN : OnStopClassified(m, panicked)
           \/ OnStackTrace(m)
    PROVE  Look
<1>0. /\ client \in Editors /\ workers \in [Workers -> WorkerStates]
      /\ inspection \in Inspections
    BY DEF Types
<1>5. Working'
    BY DEF OnConditionContinued, OnWorkerReply, OnStopClassified, OnStackTrace, Working
<1>1. CASE OnConditionContinued(m)
    <2>1. /\ pending' = Settled(m) /\ UNCHANGED <<inspection, workers>>
          /\ m.request.use = "conditionContinue"
          /\ client' \in {client, TellStopped(client, m.request.stop)}
        BY <1>1 DEF OnConditionContinued, TakeResponse
    <2>2. client'.data = client.data
        BY <1>0, <2>1, DataKept
    <2> QED BY <2>1, <2>2, SettledStays, MindsSame, CalmLooks DEF Calm, Hides, Readers
<1>2. CASE \E panicked \in BOOLEAN : OnStopClassified(m, panicked)
    <2>1. /\ pending' = Settled(m) /\ inspection' = inspection
          /\ m.request.use = "stopContext"
          /\ \/ UNCHANGED <<client, workers>>
             \/ client' = TellStopped(client, m.request.stop) /\ workers' = workers
             \/ PublishConditionStop(m.request.stop, client, conditions, workers,
                                     session.revision)
        BY <1>2 DEF OnStopClassified, TakeResponse
    <2>2. client'.data = client.data /\ Minds(workers')
        BY <1>0, <2>1, DataKept, MindsSame, PublishLooks
    <2> QED BY <2>1, <2>2, SettledStays, CalmLooks DEF Calm, Hides, Readers
<1>3. CASE \E w \in Workers : OnWorkerReply(m, w)
    <2>1. PICK w \in Workers : OnWorkerReply(m, w)
        BY <1>3
    <2> DEFINE q == m.request
               me == workers[w]
               to == [me EXCEPT !.pc = "replied", !.seq = 0,
                                !.result = m.value, !.data = m.data]
    <2>2. /\ pending' = pending \ {q} /\ q \in pending /\ q.use = w
          /\ fromAdapter # <<>> /\ m = Head(fromAdapter) /\ m.type = "response"
          /\ UNCHANGED <<client, inspection>>
          /\ workers' = IF me.pc = "wait" /\ me.seq = q.seq
                        THEN [workers EXCEPT ![w] = to] ELSE workers
        BY <2>1 DEF OnWorkerReply, TakeResponse, TakeMessage, Settled
    <2>3. CASE me.pc = "wait" /\ me.seq = q.seq
        <3>1. /\ workers'[w] = to
              /\ \A v \in Workers : v # w => workers'[v] = workers[v]
            BY <1>0, <2>2, <2>3
        <3>2. /\ to.pc = "replied" /\ to.job = me.job
              /\ to.result = m.value /\ to.data = m.data
            BY <1>0 DEF WorkerStates
        <3>3. w \in Readers => Getting(w, m)
            <4> HIDE DEF to
            <4> QED BY <2>2, <2>3, <3>1, <3>2 DEF Getting
        <3>4. Attends
            BY <3>1, <3>3, Values DEF Attends, Keeping, Readers
        <3>5. Routed
            <4> HIDE DEF to
            <4> QED BY <2>2, <3>1, <3>2 DEF Routed
        <3> QED BY <1>5, <2>2, <3>4, <3>5 DEF Look, Gives, Hides
    <2>4. CASE ~(me.pc = "wait" /\ me.seq = q.seq)
        <3>1. workers' = workers
            BY <2>2, <2>4
        <3>2. Routed
            BY <2>2, <2>4, <3>1 DEF Routed
        <3> QED BY <1>5, <2>2, <3>1, <3>2, MindsSame DEF Look, Gives, Hides, Attends, Minds
    <2> QED BY <2>3, <2>4
<1>4. CASE OnStackTrace(m)
    <2> DEFINE q == m.request
    <2>1. /\ pending' = Settled(m) /\ workers' = workers /\ q \in pending
          /\ q.use = "client" /\ q.command = "stackTrace"
          /\ fromAdapter # <<>> /\ m = Head(fromAdapter) /\ m.type = "response"
        BY <1>4 DEF OnStackTrace, TakeResponse, TakeMessage
    <2>2. Routed /\ Attends
        BY <2>1, SettledStays, MindsSame DEF Routed, Attends, Minds, Readers
    <2>3. CASE StackIsStale(q) \/ ~m.ok
        <3>1. client' = Answer(client, {q.client}, "error") /\ inspection' = inspection
            BY <1>4, <2>3 DEF OnStackTrace
        <3>2. client'.data = client.data
            BY <1>0, <3>1, DataKept
        <3> QED BY <1>5, <2>2, <3>1, <3>2 DEF Look, Gives, Hides
    <2>4. CASE ~(StackIsStale(q) \/ ~m.ok)
        <3> DEFINE r == q.client
                   c == AnswerWithData(client, r, m.data)
        <3>1. /\ inspection' = [inspection EXCEPT !.frames = MapFrames(r)]
              /\ client' = [c EXCEPT !.frame = MapFrames(r)]
            BY <1>4, <2>4 DEF OnStackTrace
        <3>2. m.ok /\ q.revision = session.revision
            BY <2>4 DEF StackIsStale, StillCurrent
        <3>3. r \in Requests
            BY <2>1 DEF Addressed, Address
        <3>4. m \in Messages
            <4>1. fromAdapter \in Seq(Messages)
                BY DEF Types
            <4> QED BY <2>1, <4>1, Tails
        <3>5. c.data = [client.data EXCEPT ![r] = m.data] /\ c.frame = client.frame
            <4> DEFINE d == Answer(client, {r}, "ok")
            <4>1. d.data = client.data /\ d.frame = client.frame
                BY <1>0 DEF Answer, Editors
            <4>2. d \in Editors /\ c = [d EXCEPT !.data[r] = m.data]
                BY <1>0, AnswerTyped DEF AnswerWithData
            <4> HIDE DEF c, d
            <4> QED BY <4>1, <4>2 DEF Editors
        <3>6. client'.data = c.data
            <4>1. c \in Editors
                <5>1. Answer(client, {r}, "ok") \in Editors /\ m.data \in Nat
                    BY <1>0, <3>4, AnswerTyped DEF Messages
                <5>2. \A d \in Editors : \A n \in Nat : [d EXCEPT !.data[r] = n] \in Editors
                    BY DEF Editors
                <5> QED BY <5>1, <5>2 DEF AnswerWithData
            <4> HIDE DEF c
            <4> QED BY <3>1, <4>1 DEF Editors
        <3>7. inspection'.frames = MapFrames(r) /\ inspection'.waiting = inspection.waiting
            BY <1>0, <3>1 DEF Inspections
        <3> HIDE DEF c
        <3>8. Shows
            BY <2>1, <3>2, <3>3, <3>4, <3>5, <3>6, <3>7 DEF Shows
        <3> QED BY <1>5, <2>2, <3>8 DEF Look, Gives
    <2> QED BY <2>3, <2>4
<1> QED BY <1>1, <1>2, <1>3, <1>4

LEMMA AnswerLooks ==
    ASSUME Types, Addressed, NEW m,
           \/ OnSourcesReplaced(m) \/ OnInitialize(m)
           \/ OnLaunched(m) \/ OnConfigured(m) \/ OnResumed(m) \/ OnPauseAnswered(m)
           \/ OnThreads(m) \/ OnDisconnected(m)
    PROVE  Look
<1>0. client \in Editors
    BY DEF Types
<1>1. m.request.use = "client"
    BY DEF OnSourcesReplaced, OnInitialize, OnLaunched, OnConfigured, OnResumed,
       OnPauseAnswered, OnThreads, OnDisconnected, TakeResponse
<1>2. \A p \in pending : p.use \in Readers => p \in Settled(m)
    BY <1>1, SettledStays DEF Readers
<1>3. ASSUME Settled(m) \subseteq pending', UNCHANGED <<inspection, workers>>,
             client'.data = client.data
      PROVE  Look
    BY <1>2, <1>3, MindsSame, CalmLooks DEF Calm, Hides
<1>4. ASSUME NEW c \in {client, Answer(client, {m.request.client}, "error"),
                        Answer(client, {m.request.client}, "ok")},
             NEW ps, NEW ws, Raise(c, ps, ws)
      PROVE  Look
    BY <1>0, <1>4, AnswerTyped, DataKept, RaiseLooks
<1>5. /\ \A S, o : Answer(client, S, o).data = client.data
      /\ TellTerminated(client).data = client.data
      /\ \A o \in {"ok", "error"} : \A S :
            TellTerminated(Answer(client, S, o)).data = client.data
    BY <1>0, AnswerTyped, DataKept, DataStays
<1>6. CASE OnSourcesReplaced(m)
    <2>1. CASE m.ok
        <3>1. /\ pending' = Settled(m) /\ UNCHANGED <<inspection, workers>>
              /\ client' = Answer(client, {m.request.client}, "ok")
            BY <1>6, <2>1 DEF OnSourcesReplaced
        <3> QED BY <1>3, <1>5, <3>1
    <2>2. CASE ~m.ok
        BY <1>4, <1>6, <2>2 DEF OnSourcesReplaced
    <2> QED BY <2>1, <2>2
<1>7. CASE OnInitialize(m)
    <2>1. CASE m.ok
        <3>1. Settled(m) \subseteq pending' /\ UNCHANGED <<inspection, workers, client>>
            BY <1>7, <2>1 DEF OnInitialize, Send
        <3> QED BY <1>3, <3>1
    <2>2. CASE ~m.ok
        BY <1>4, <1>7, <2>2 DEF OnInitialize
    <2> QED BY <2>1, <2>2
<1>8. CASE OnLaunched(m)
    <2> DEFINE o == IF m.ok THEN "ok" ELSE "error"
               answered == IF session.launchAnswered THEN client
                           ELSE Answer(client, {Launch}, o)
    <2>1. /\ pending' = Settled(m) /\ UNCHANGED <<inspection, workers>>
          /\ client' = answered \/ client' = TellTerminated(answered)
        BY <1>8 DEF OnLaunched
    <2>2. client'.data = client.data
        BY <1>5, <2>1
    <2> QED BY <1>3, <2>1, <2>2
<1>9. CASE OnConfigured(m)
    <2>1. /\ pending' = Settled(m) /\ UNCHANGED <<inspection, workers>>
          /\ \/ client' = Answer(client, {m.request.client}, "ok")
             \/ client' = TellTerminated(Answer(client, {m.request.client}, "error"))
        BY <1>9 DEF OnConfigured
    <2> QED BY <1>3, <1>5, <2>1
<1>10. CASE OnResumed(m) \/ OnPauseAnswered(m) \/ OnThreads(m)
    <2>1. /\ pending' = Settled(m) /\ UNCHANGED <<inspection, workers>>
          /\ client' = Answer(client, {m.request.client}, IF m.ok THEN "ok" ELSE "error")
        BY <1>10 DEF OnResumed, OnPauseAnswered, OnThreads
    <2> QED BY <1>3, <1>5, <2>1
<1>11. CASE OnDisconnected(m)
    <2> DEFINE done == Answer(client, {m.request.client}, IF m.ok THEN "ok" ELSE "error")
    <2>1. CASE m.ok
        <3>1. /\ client' = TellTerminated(Answer(done, Asked(Settled(m)), "error"))
              /\ at' = "closed"
            BY <1>11, <2>1 DEF OnDisconnected
        <3>2. done \in Editors /\ done.data = client.data
            BY <1>0, AnswerTyped, DataKept
        <3> HIDE DEF done
        <3>3. /\ Answer(done, Asked(Settled(m)), "error") \in Editors
              /\ Answer(done, Asked(Settled(m)), "error").data = client.data
            BY <3>2, AnswerTyped, DataKept
        <3>4. client'.data = client.data
            BY <3>1, <3>3, DataStays
        <3> QED BY <3>1, <3>4 DEF Look, Working
    <2>2. CASE ~m.ok
        BY <1>4, <1>11, <2>2 DEF OnDisconnected
    <2> QED BY <2>1, <2>2
<1> QED BY <1>6, <1>7, <1>8, <1>9, <1>10, <1>11

LEMMA EventLooks ==
    ASSUME Types, NEW m,
           \/ OnInitialized(m) \/ OnStopped(m) \/ OnContinued(m) \/ OnExited(m)
           \/ OnTerminated(m) \/ OnFailed(m)
    PROVE  Look
<1>0. client \in Editors /\ workers \in [Workers -> WorkerStates]
    BY DEF Types
<1>1. CASE OnInitialized(m)
    <2>1. UNCHANGED <<client, inspection, workers, pending>>
        BY <1>1 DEF OnInitialized
    <2> QED BY <2>1, MindsSame, PerformedLooks DEF Hides
<1>2. CASE OnContinued(m)
    <2> DEFINE c == AnswerStale(client)
    <2>1. /\ pending' = pending /\ inspection' \in {inspection, NoInspection}
          /\ workers' = workers \/ workers' = Release(workers, {"inspection", "condition"})
          /\ client' \in {client, c, TellContinued(c)}
        BY <1>2 DEF OnContinued
    <2>2. c \in Editors /\ c.data = client.data
        BY <1>0, CancelsTyped, DataStays
    <2> HIDE DEF c
    <2>3. client'.data = client.data
        BY <2>1, <2>2, DataKept
    <2>4. Minds(workers')
        BY <1>0, <2>1, MindsSame, MindsAll
    <2> QED BY <2>1, <2>3, <2>4, PerformedLooks DEF Hides
<1>3. CASE OnExited(m) \/ OnTerminated(m)
    <2> DEFINE c == AnswerStale(AnswerCancelled(client))
    <2>1. /\ pending' = pending /\ inspection' = NoInspection
          /\ workers' = Release(workers, Workers)
          /\ client' \in {TellExited(c), TellTerminated(c)}
        BY <1>3 DEF OnExited, OnTerminated
    <2>2. c \in Editors /\ c.data = client.data
        BY <1>0, CancelsTyped, DataStays
    <2> HIDE DEF c
    <2>3. client'.data = client.data
        BY <2>1, <2>2, DataKept, DataStays
    <2>4. Minds(workers')
        BY <1>0, <2>1, MindsSame, MindsAll
    <2> QED BY <2>1, <2>3, <2>4, PerformedLooks DEF Hides
<1>4. CASE OnFailed(m)
    <2>1. CASE session.ended
        <3>1. UNCHANGED <<client, inspection, workers, pending>>
            BY <1>4, <2>1 DEF OnFailed
        <3> QED BY <3>1, MindsSame, PerformedLooks DEF Hides
    <2>2. CASE ~session.ended
        BY <1>0, <1>4, <2>2, RaiseLooks DEF OnFailed
    <2> QED BY <2>1, <2>2
<1>5. CASE OnStopped(m)
    <2> DEFINE c == AnswerStale(client)
               cond == [conditions EXCEPT !.active = NoJob, !.suppress = FALSE,
                            !.stepping = @ \/ session.pauseRevision # None]
               ws == Release(workers, {"inspection", "condition"})
    <2>1. \/ UNCHANGED <<client, inspection, workers, pending>>
          \/ /\ inspection' = NoInspection
             /\ \/ workers' = ws /\ client' = c /\ pending' = pending
                \/ PublishStop(m.stop, c, cond, ws, session.revision + 1)
        BY <1>5 DEF OnStopped
    <2>2. /\ c \in Editors /\ c.data = client.data
          /\ ws \in [Workers -> WorkerStates] /\ Minds(ws)
        BY <1>0, CancelsTyped, DataStays, ReleaseTyped, MindsSame, MindsAll
    <2> HIDE DEF c, cond, ws
    <2>3. CASE UNCHANGED <<client, inspection, workers, pending>>
        BY <2>3, MindsSame, PerformedLooks DEF Hides
    <2>4. CASE inspection' = NoInspection /\ workers' = ws /\ client' = c /\ pending' = pending
        BY <2>2, <2>4, PerformedLooks DEF Hides
    <2>5. CASE inspection' = NoInspection
               /\ PublishStop(m.stop, c, cond, ws, session.revision + 1)
        <3> DEFINE n == session.revision + 1
                   s == m.stop
        <3>1. PublishStop(s, c, cond, ws, n)
            BY <2>5
        <3> HIDE DEF n, s
        <3>2. client'.data = client.data /\ Minds(workers')
            BY <2>2, <3>1, PublishLooks
        <3>3. pending \subseteq pending'
            BY <3>1, PublishKeeps
        <3> QED BY <2>5, <3>2, <3>3, PerformedLooks DEF Hides
    <2> QED BY <2>1, <2>3, <2>4, <2>5
<1> QED BY <1>1, <1>2, <1>3, <1>4, <1>5

LEMMA AdapterLooks ==
    ASSUME Types, Addressed, OnAdapter
    PROVE  Look
BY ReplyLooks, AnswerLooks, EventLooks DEF OnAdapter

LEMMA ReadLooks ==
    ASSUME SafetyInv, NEW w \in Workers, OnRead(w)
    PROVE  Look
<1> DEFINE me == workers[w]
<1>0. Types /\ client \in Editors /\ workers \in [Workers -> WorkerStates] /\ me.pc = "read"
    BY DEF SafetyInv, Types, OnRead, TakeWork
<1>1. CASE ~Admits(w)
    <2> DEFINE to == [me EXCEPT !.pc = "replied", !.result = "error"]
    <2>1. /\ workers' = [workers EXCEPT ![w] = to]
          /\ UNCHANGED <<client, inspection, pending>>
        BY <1>1 DEF OnRead
    <2>2. Unread(to)
        BY <1>0 DEF WorkerStates, Unread
    <2>3. /\ workers'[w] = to /\ \A v \in Readers : v # w => workers'[v] = workers[v]
        BY <1>0, <2>1, Values DEF Readers
    <2> HIDE DEF to
    <2>4. Minds(workers')
        BY <2>2, <2>3 DEF Minds, Keeping
    <2> QED BY <2>1, <2>4, PerformedLooks DEF Hides
<1>2. CASE Admits(w)
    <2> DEFINE n == FreshSeq(pending)
               to == [me EXCEPT !.pc = "wait", !.seq = n]
    <2>1. /\ workers' = [workers EXCEPT ![w] = to]
          /\ UNCHANGED <<client, inspection>> /\ pending \subseteq pending'
        BY <1>2 DEF OnRead, Send
    <2>2. to.pc = "wait" /\ to.job = me.job /\ to.seq = n
        BY <1>0 DEF WorkerStates
    <2>3. /\ workers'[w] = to /\ \A v \in Readers : v # w => workers'[v] = workers[v]
        BY <1>0, <2>1, Values DEF Readers
    <2>4. PICK p : /\ Sends(p) /\ Goes(p, pending) /\ p.use = w
                   /\ p.revision = session.revision /\ p.seq = n
        BY <1>2, ReadSends
    <2> HIDE DEF to, n
    <2>5. Asking(w)
        BY <2>2, <2>3, <2>4 DEF Asking
    <2>6. Attends
        BY <2>3, <2>5 DEF Attends, Keeping
    <2> QED BY <2>1, <2>6 DEF Look, Gives, Hides, Routed
<1> QED BY <1>1, <1>2

LEMMA InspectDoneLooks ==
    ASSUME SafetyInv, OnInspectDone
    PROVE  Look
<1> DEFINE me == workers["inspection"]
           job == me.job
<1>0. /\ Types /\ client \in Editors /\ workers \in [Workers -> WorkerStates]
      /\ inspection \in Inspections /\ me \in WorkerStates
    BY Values DEF SafetyInv, Types
<1>1. /\ me.pc = "done" /\ pending' = pending /\ workers' = Rested("inspection")
      /\ IF job \in inspection.waiting
         THEN /\ inspection' = [inspection EXCEPT !.waiting = @ \ {job}]
              /\ client' = IF me.result = "ok" /\ InspectionEpoch = job.epoch
                           THEN AnswerWithData(client, job.cause, me.data)
                           ELSE Answer(client, {job.cause}, "error")
         ELSE UNCHANGED <<inspection, client>>
    BY DEF OnInspectDone, TakeWork
<1>5. Working'
    BY DEF OnInspectDone, Working
<1>2. Minds(workers')
    BY <1>0, <1>1, MindsRested, Values
<1>3. CASE job \notin inspection.waiting
    BY <1>1, <1>2, <1>3, PerformedLooks DEF Hides
<1>4. CASE job \in inspection.waiting
    <2>1. /\ inspection'.frames = inspection.frames
          /\ inspection'.waiting \subseteq inspection.waiting
        BY <1>0, <1>1, <1>4 DEF Inspections
    <2>2. CASE ~(me.result = "ok" /\ InspectionEpoch = job.epoch)
        <3>1. client'.data = client.data
            BY <1>0, <1>1, <1>4, <2>2, DataKept
        <3> QED BY <1>1, <1>2, <2>1, <3>1 DEF Look, Gives, Drops, Attends, Minds, Routed
    <2>3. CASE me.result = "ok" /\ InspectionEpoch = job.epoch
        <3>1. job.epoch # None
            BY <1>1 DEF SafetyInv, Dated
        <3>2. job.epoch = session.revision
            BY <2>3, <3>1 DEF InspectionEpoch
        <3>3. client' = AnswerWithData(client, job.cause, me.data)
            BY <1>1, <1>4, <2>3
        <3>4. client'.data = [client.data EXCEPT ![job.cause] = me.data]
            <4> DEFINE r == job.cause
                       d == Answer(client, {r}, "ok")
            <4>1. d.data = client.data /\ d \in Editors
                BY <1>0, AnswerTyped, DataKept
            <4>2. client' = [d EXCEPT !.data[r] = me.data]
                BY <3>3 DEF AnswerWithData
            <4> HIDE DEF d
            <4> QED BY <4>1, <4>2 DEF Editors
        <3>5. CASE job.cause \in Requests
            <4>1. Tells(me)
                BY <1>1, <1>4, <2>1, <2>3, <3>2, <3>4, <3>5 DEF Tells
            <4> QED BY <1>1, <1>2, <1>5, <4>1 DEF Look, Gives, Attends, Minds, Routed
        <3>6. CASE job.cause \notin Requests
            <4>1. client'.data = client.data
                BY <1>0, <3>4, <3>6 DEF Editors
            <4> QED BY <1>1, <1>2, <2>1, <4>1 DEF Look, Gives, Drops, Attends, Minds, Routed
        <3> QED BY <3>5, <3>6
    <2> QED BY <2>2, <2>3
<1> QED BY <1>3, <1>4

LEMMA WorkLooks ==
    ASSUME SafetyInv, OnWork
    PROVE  Look
<1>0. Types /\ client \in Editors /\ workers \in [Workers -> WorkerStates]
    BY DEF SafetyInv, Types
<1>1. ASSUME NEW w \in Workers, IgnoreDone(w) \/ RaiseDone(w)
      PROVE  Look
    <2>1. CASE IgnoreDone(w)
        <3>1. UNCHANGED <<client, inspection, pending>> /\ workers' = Rested(w)
            BY <2>1 DEF IgnoreDone
        <3> QED BY <1>0, <3>1, MindsRested, PerformedLooks DEF Hides
    <2>2. CASE RaiseDone(w)
        BY <1>0, <2>2, RaiseLooks DEF RaiseDone
    <2> QED BY <1>1, <2>1, <2>2
<1>2. ASSUME NEW w \in Workers, workers' = Rested(w), UNCHANGED <<inspection, pending>>,
             client'.data = client.data
      PROVE  Look
    BY <1>0, <1>2, MindsRested, PerformedLooks DEF Hides
<1>3. CASE OnFunctionDone
    <2>1. CASE IgnoreDone("function") \/ RaiseDone("function")
        BY <1>1, <2>1, Values
    <2>2. CASE ~(IgnoreDone("function") \/ RaiseDone("function"))
        <3>1. /\ workers' = Rested("function") /\ UNCHANGED <<inspection, pending>>
              /\ client' = Answer(client, {breakpoints.function}, "ok")
            BY <1>3, <2>2 DEF OnFunctionDone
        <3> QED BY <1>0, <1>2, <3>1, DataKept, Values
    <2> QED BY <2>1, <2>2
<1>4. CASE OnPanicDone
    <2>1. CASE IgnoreDone("panic") \/ RaiseDone("panic")
        BY <1>1, <2>1, Values
    <2>2. CASE ~(IgnoreDone("panic") \/ RaiseDone("panic"))
        <3>1. /\ workers' = Rested("panic") /\ UNCHANGED <<inspection, pending>>
              /\ client' = Answer(client, {breakpoints.panic} \cap Requests, "ok")
            BY <1>4, <2>2 DEF OnPanicDone
        <3> QED BY <1>0, <1>2, <3>1, DataKept, Values
    <2> QED BY <2>1, <2>2
<1>5. CASE OnConditionDone
    <2> DEFINE me == workers["condition"]
    <2>1. CASE ConditionEpoch # me.job.epoch
        BY <1>1, <1>5, <2>1, Values DEF OnConditionDone
    <2>2. CASE ConditionEpoch = me.job.epoch /\ me.result # "false"
        <3>1. /\ workers' = Rested("condition") /\ UNCHANGED <<inspection, pending>>
              /\ client' = TellStopped(client, conditions.active.stop)
            BY <1>5, <2>2 DEF OnConditionDone
        <3> QED BY <1>0, <1>2, <3>1, DataKept, Values
    <2>3. CASE ConditionEpoch = me.job.epoch /\ me.result = "false"
        <3> DEFINE ws == Rested("condition")
        <3>1. /\ workers' = Release(ws, {"inspection", "condition"})
              /\ inspection' = NoInspection /\ pending \subseteq pending'
              /\ client' = AnswerStale(client)
            BY <1>5, <2>3 DEF OnConditionDone, Send
        <3>2. ws \in [Workers -> WorkerStates] /\ Minds(ws)
            BY <1>0, MindsRested, RestedTyped, Values
        <3> HIDE DEF ws
        <3>3. Minds(workers') /\ client'.data = client.data
            BY <1>0, <3>1, <3>2, MindsAll, DataStays
        <3> QED BY <3>1, <3>3, PerformedLooks DEF Hides
    <2> QED BY <2>1, <2>2, <2>3
<1> QED BY <1>3, <1>4, <1>5, ReadLooks, InspectDoneLooks DEF OnWork

\* A worker goes on.
LEMMA WorkerLooks ==
    ASSUME Types, NEW w \in Workers, Worker(w)
    PROVE  Look
<1> DEFINE me == workers[w]
<1>0. workers \in [Workers -> WorkerStates] /\ me \in WorkerStates
    BY DEF Types
<1>1. ASSUME NEW to, StepWorker(w, to), w \in Readers => Unread(to) \/ Keeping(me, to)
      PROVE  Look
    <2>1. /\ workers' = [workers EXCEPT ![w] = to]
          /\ UNCHANGED <<client, inspection, pending>>
        BY <1>1 DEF StepWorker
    <2>2. workers'[w] = to /\ \A v \in Readers : v # w => workers'[v] = workers[v]
        BY <1>0, <2>1, Values DEF Readers
    <2>3. Minds(workers')
        BY <1>1, <2>2 DEF Minds, Keeping
    <2> QED BY <2>1, <2>3, PerformedLooks DEF Hides
<1>2. CASE WorkerStart(w)
    <2> DEFINE job == Head(me.queue)
               taken == [me EXCEPT !.queue = Tail(@), !.job = job]
               stale == [taken EXCEPT !.pc = "done", !.result = "error"]
               same == [taken EXCEPT !.pc = "done", !.result = "ok"]
               asks == [taken EXCEPT !.pc = "read"]
    <2>1. \/ StepWorker(w, stale)
          \/ w \in {"function", "panic"} /\ StepWorker(w, same)
          \/ StepWorker(w, asks)
        BY <1>2 DEF WorkerStart, NothingToChange
    <2>2. /\ stale.pc = "done" /\ stale.result = "error" /\ asks.pc = "read"
        BY <1>0 DEF WorkerStates
    <2> HIDE DEF stale, same, asks
    <2>3. Unread(stale) /\ Unread(asks) /\ (w \in {"function", "panic"} => w \notin Readers)
        BY <2>2 DEF Unread, Readers
    <2> QED BY <1>1, <2>1, <2>3
<1>3. CASE WorkerFinish(w)
    <2> DEFINE to == [me EXCEPT !.pc = "done",
                          !.result = IF EpochHolds(w, me.job) THEN @ ELSE "error",
                          !.installed = IF me.result = "ok" THEN me.job.kind # "none" ELSE @]
    <2>1. StepWorker(w, to) /\ me.pc = "replied"
        BY <1>3 DEF WorkerFinish
    <2>2. /\ to.pc = "done" /\ to.job = me.job /\ to.data = me.data
          /\ to.result \in {me.result, "error"}
        BY <1>0 DEF WorkerStates
    <2> HIDE DEF to
    <2>3. Unread(to) \/ Keeping(me, to)
        BY <2>1, <2>2 DEF Unread, Keeping
    <2> QED BY <1>1, <2>1, <2>3
<1>4. CASE WorkerTimeout(w)
    <2> DEFINE to == [me EXCEPT !.pc = "done", !.seq = 0, !.result = "error"]
    <2>1. StepWorker(w, to)
        BY <1>4 DEF WorkerTimeout
    <2>2. Unread(to)
        BY <1>0 DEF WorkerStates, Unread
    <2> HIDE DEF to
    <2> QED BY <1>1, <2>1, <2>2
<1> QED BY <1>2, <1>3, <1>4 DEF Worker

LEMMA LookSteps ==
    ASSUME SafetyInv, Addressed, [Next]_vars
    PROVE  Look
<1>1. Types /\ client \in Editors
    BY DEF SafetyInv, Types
<1>2. CASE OnClient \/ DrainStop \/ DrainRequest \/ OnAdapter \/ OnWork
    BY <1>1, <1>2, ClientLooks, DrainLooks, AdapterLooks, WorkLooks
<1>3. CASE Timeout \/ Shutdown
    <2>1. CASE Timeout
        <3>1. \/ UNCHANGED <<client, inspection, workers, pending>>
              \/ Raise(client, pending, workers)
            BY <2>1 DEF Timeout
        <3> QED BY <1>1, <3>1, RaiseLooks, MindsSame, PerformedLooks DEF Hides
    <2>2. CASE Shutdown
        <3>1. client' = TellTerminated(client) /\ at' = "over"
            BY <2>2 DEF Shutdown
        <3> QED BY <1>1, <3>1, DataStays DEF Look, Working
    <2> QED BY <1>3, <2>1, <2>2
<1>4. CASE \E w \in Workers : Worker(w)
    BY <1>1, <1>4, WorkerLooks
<1>5. CASE ClientSends \/ ClientLeaves
    <2>1. /\ UNCHANGED <<inspection, workers, pending>>
          /\ \/ client' = [client EXCEPT !.next = @ + 1]
             \/ client' = [client EXCEPT !.left = TRUE]
        BY <1>5 DEF ClientSends, ClientLeaves
    <2>2. client'.data = client.data
        BY <1>1, <2>1 DEF Editors
    <2> QED BY <2>1, <2>2, MindsSame, PerformedLooks DEF Hides
<1>6. CASE AdapterAnswers \/ TargetStops \/ TargetExits \/ Crash \/ UNCHANGED vars
    <2>1. UNCHANGED <<client, inspection, workers, pending>>
        BY <1>6 DEF AdapterAnswers, TargetStops, TargetExits, Crash, TargetMoves, vars
    <2> QED BY <2>1, MindsSame, PerformedLooks DEF Hides
<1>7. CASE Adapter
    <2>1. PICK p \in Sent, ms \in Seq(Messages) : Handle(p, ms, target')
        BY <1>1, <1>7, AdapterEffects
    <2>2. UNCHANGED <<client, inspection, workers, pending>>
        BY <2>1 DEF Handle
    <2> QED BY <2>2, MindsSame, PerformedLooks DEF Hides
<1> QED BY <1>2, <1>3, <1>4, <1>5, <1>6, <1>7 DEF Next

-----------------------------------------------------------------------------
(* The stop a reader reads at.                                               *)

\* Nothing resumes the target before the session's next request does.
AtRest == /\ target.state \in {"stopped", "gone"}
          /\ \A i \in 1 .. Len(toAdapter) : ~Resumes(toAdapter[i].command)

\* The target rests on at its stop, unless the session leaves that stop.
Settling ==
    /\ session.revision <= session'.revision
    /\ \/ AtRest => AtRest' /\ target'.no = target.no
       \/ session'.revision > session.revision /\ inspection' = NoInspection

LEMMA WorkingBefore ==
    ASSUME SafetyInv, Addressed, [Next]_vars, Working'
    PROVE  Working
<1>1. OwnStep \/ (\E m : MessageStep(m)) => Working
    BY DEF OwnStep, MessageStep, Lasts
<1>2. ~Shutdown
    BY DEF Shutdown, Working
<1>3. CASE \E p \in Sent, ms \in Seq(Messages) : Handle(p, ms, target')
    BY <1>3 DEF Handle, Working
<1>4. CASE Apart \/ AdapterAnswers \/ TargetStops \/ TargetExits \/ Crash
    BY <1>4 DEF Apart, AdapterAnswers, TargetStops, TargetExits, Crash, TargetMoves, Working
<1> QED BY <1>1, <1>2, <1>3, <1>4, Steps

LEMMA Settles ==
    ASSUME SafetyInv, Addressed, StartsOnce, [Next]_vars
    PROVE  Settling
<1>0. Types /\ session.revision \in Nat
    BY DEF SafetyInv, Types, Flags
<1>1. CASE SendsLittle /\ session.revision <= session'.revision /\ UNCHANGED target
    <2>1. CASE toAdapter' = toAdapter
        BY <1>1, <2>1 DEF Settling, AtRest
    <2>2. CASE \E p : Sends(p)
        <3>1. PICK p : Sends(p)
            BY <2>2
        <3>2. PICK ps \in SUBSET pending : Goes(p, ps)
            BY <3>1 DEF Sends
        <3>3. CASE Resumes(p.command)
            <4>1. session'.revision = session.revision + 1 /\ inspection' = NoInspection
                BY <3>1, <3>3 DEF Sends
            <4> QED BY <1>0, <4>1 DEF Settling
        <3>4. CASE ~Resumes(p.command)
            <4>1. (\A i \in 1 .. Len(toAdapter) : ~Resumes(toAdapter[i].command))
                  => \A i \in 1 .. Len(toAdapter') : ~Resumes(toAdapter'[i].command)
                BY <1>0, <3>2, <3>4, Grown
            <4> QED BY <1>1, <4>1 DEF Settling, AtRest
        <3> QED BY <3>3, <3>4
    <2> QED BY <1>1, <2>1, <2>2 DEF SendsLittle
<1>2. CASE \E p \in Sent, ms \in Seq(Messages) :
               Handle(p, ms, target') /\ Effect(p, ms) /\ Address(p)
    <2>1. PICK p \in Sent, ms \in Seq(Messages) : Handle(p, ms, target') /\ Effect(p, ms)
        BY <1>2
    <2>2. session' = session /\ target.alive
        BY <2>1 DEF Handle
    <2>3. /\ p = toAdapter[1] /\ 1 \in 1 .. Len(toAdapter)
          /\ \A i \in 1 .. Len(toAdapter') :
                i + 1 \in 1 .. Len(toAdapter) /\ toAdapter'[i] = toAdapter[i + 1]
        BY <1>0, <2>1, Handled
    <2>4. p.command = "configurationDone" => target.state = "none"
        BY <2>2, <2>3 DEF StartsOnce, Configuring, Unstarted
    <2>5. ASSUME AtRest PROVE AtRest' /\ target'.no = target.no
        <3>1. ~Resumes(p.command) /\ target.state \in {"stopped", "gone"}
            BY <2>3, <2>5 DEF AtRest
        <3>2. target'.no = target.no /\ target'.state \in {"stopped", "gone"}
            BY <2>1, <2>4, <3>1 DEF Effect, Transition
        <3> QED BY <2>3, <2>5, <3>2 DEF AtRest
    <2> QED BY <1>0, <2>2, <2>5 DEF Settling
<1>3. CASE Shutdown
    <2>1. toAdapter' = <<>> /\ session' = Finished(session)
          /\ target' = [target EXCEPT !.state = "gone", !.alive = FALSE]
        BY <1>3 DEF Shutdown
    <2>2. target'.state = "gone" /\ target'.no = target.no
        BY <1>0, <2>1 DEF Types, Targets
    <2>3. session'.revision = session.revision
        BY <1>0, <2>1 DEF Types, Flags, Finished
    <2>4. Len(toAdapter') = 0
        BY <2>1, Short
    <2> QED BY <1>0, <2>2, <2>3, <2>4 DEF Settling, AtRest
<1>4. CASE Apart
    BY <1>0, <1>4 DEF Apart, Settling, AtRest
<1>5. CASE AdapterAnswers \/ TargetStops \/ TargetExits \/ Crash
    <2>1. PICK ms \in Seq(Messages) : Reports(ms)
        BY <1>0, <1>5, TargetEffects
    <2>2. session' = session /\ toAdapter' = toAdapter
        BY <2>1 DEF Reports, TargetMoves
    <2>3. target.state \in {"stopped", "gone"}
          => target'.state \in {"stopped", "gone"} /\ target'.no = target.no
        BY <2>1 DEF Reports, SaysDone, SaysStopped, SaysExited, SaysFailed
    <2> QED BY <1>0, <2>2, <2>3 DEF Settling, AtRest
<1>6. OwnStep \/ (\E m : MessageStep(m))
      => SendsLittle /\ session.revision <= session'.revision /\ UNCHANGED target
    BY DEF OwnStep, MessageStep, Lasts
<1> QED BY <1>1, <1>2, <1>3, <1>4, <1>5, <1>6, Steps

\* Requests carry the revision they were sent at, and a resume begins a new one.
\* lldb-dap answers what is read at once: no such request is left undone.
Reading(p) == p.command = "stackTrace" \/ p.use = "inspection"
DatesInv ==
    /\ \A i \in 1 .. Len(toAdapter) : toAdapter[i].revision <= session.revision
    /\ \A i, j \in 1 .. Len(toAdapter) :
          i < j /\ Resumes(toAdapter[j].command)
          => toAdapter[i].revision < toAdapter[j].revision
    /\ \A p, q \in pending : p.seq = q.seq => p = q
    /\ ~Reading(target.busy) /\ ~Reading(target.launch)

LEMMA DatesKept ==
    ASSUME SafetyInv, Addressed, DatesInv, [Next]_vars
    PROVE  DatesInv'
<1>0. /\ Types /\ session.revision \in Nat
      /\ \A i \in 1 .. Len(toAdapter) : toAdapter[i].revision \in Nat
      /\ session'.revision \in Nat
    <2>1. Types /\ toAdapter \in Seq(Sent) /\ session \in Flags
        BY DEF SafetyInv, Types
    <2>2. \A i \in 1 .. Len(toAdapter) : toAdapter[i] \in Sent
        BY <2>1
    <2>3. Types'
        BY TypesInductive DEF SafetyInv
    <2> QED BY <2>1, <2>2, <2>3 DEF Sent, Flags, Types
<1>1. CASE SendsLittle /\ session.revision <= session'.revision /\ UNCHANGED target
    <2>1. CASE toAdapter' = toAdapter /\ pending' \subseteq pending
        BY <1>0, <1>1, <2>1 DEF DatesInv
    <2>2. CASE \E p : Sends(p)
        <3>1. PICK p : Sends(p)
            BY <2>2
        <3>2. PICK ps \in SUBSET pending : Goes(p, ps)
            BY <3>1 DEF Sends
        <3>3. /\ p \in Sent /\ Len(toAdapter) \in Nat
              /\ Len(toAdapter') = Len(toAdapter) + 1
              /\ toAdapter'[Len(toAdapter) + 1] = p
              /\ \A i \in 1 .. Len(toAdapter) : toAdapter'[i] = toAdapter[i]
              /\ \A i \in 1 .. Len(toAdapter') :
                    i \in 1 .. Len(toAdapter) \/ i = Len(toAdapter) + 1
            BY <1>0, <3>2, Grown
        <3>4. /\ p.revision = session'.revision
              /\ Resumes(p.command) => session'.revision = session.revision + 1
            BY <3>1 DEF Sends
        <3>5. \A i \in 1 .. Len(toAdapter') : toAdapter'[i].revision <= session'.revision
            BY <1>0, <1>1, <3>3, <3>4 DEF DatesInv
        <3>6. ASSUME NEW i \in 1 .. Len(toAdapter'), NEW j \in 1 .. Len(toAdapter'),
                     i < j, Resumes(toAdapter'[j].command)
              PROVE  toAdapter'[i].revision < toAdapter'[j].revision
            <4>1. i \in 1 .. Len(toAdapter) /\ toAdapter'[i] = toAdapter[i]
                BY <3>3, <3>6
            <4>2. CASE j \in 1 .. Len(toAdapter)
                BY <3>3, <3>6, <4>1, <4>2 DEF DatesInv
            <4>3. CASE j = Len(toAdapter) + 1
                <5>1. toAdapter'[j].revision = session.revision + 1
                    BY <3>3, <3>4, <3>6, <4>3
                <5>2. toAdapter[i].revision <= session.revision
                    BY <4>1 DEF DatesInv
                <5> QED BY <1>0, <4>1, <5>1, <5>2
            <4> QED BY <3>3, <4>2, <4>3
        <3>7. \A q, r \in pending' : q.seq = r.seq => q = r
            BY <3>2 DEF Goes, DatesInv
        <3> QED BY <1>1, <3>5, <3>6, <3>7 DEF DatesInv
    <2> QED BY <1>1, <2>1, <2>2 DEF SendsLittle
<1>2. CASE \E p \in Sent, ms \in Seq(Messages) :
               Handle(p, ms, target') /\ Effect(p, ms) /\ Address(p)
    <2>1. PICK p \in Sent, ms \in Seq(Messages) :
              Handle(p, ms, target') /\ Effect(p, ms) /\ Address(p)
        BY <1>2
    <2>2. session' = session /\ pending' = pending
        BY <2>1 DEF Handle
    <2>3. /\ Len(toAdapter) \in Nat
          /\ \A i \in 1 .. Len(toAdapter') :
                i + 1 \in 1 .. Len(toAdapter) /\ toAdapter'[i] = toAdapter[i + 1]
        BY <1>0, <2>1, Handled
    <2>4. \A i \in 1 .. Len(toAdapter') : toAdapter'[i].revision <= session'.revision
        BY <2>2, <2>3 DEF DatesInv
    <2>5. ASSUME NEW i \in 1 .. Len(toAdapter'), NEW j \in 1 .. Len(toAdapter'),
                 i < j, Resumes(toAdapter'[j].command)
          PROVE  toAdapter'[i].revision < toAdapter'[j].revision
        <3>1. /\ i + 1 \in 1 .. Len(toAdapter) /\ toAdapter'[i] = toAdapter[i + 1]
              /\ j + 1 \in 1 .. Len(toAdapter) /\ toAdapter'[j] = toAdapter[j + 1]
            BY <2>3
        <3>2. i + 1 < j + 1
            BY <2>5
        <3> QED BY <2>5, <3>1, <3>2 DEF DatesInv
    <2>6. ~Reading(NoOutgoing)
        BY DEF Reading, NoOutgoing, Outgoing
    <2>7. ~Reading(target'.busy)
        <3>1. CASE target'.busy = NoOutgoing
            BY <2>6, <3>1
        <3>2. CASE target'.busy # NoOutgoing
            <4>1. /\ target'.busy = p
                  /\ \/ p.command = "setBreakpoints" \/ Resumes(p.command)
                     \/ p.use \in {"function", "panic"}
                BY <2>1, <3>2 DEF Effect, Keeps
            <4>2. p.use \in Workers <=> p.command = "work"
                BY <2>1 DEF Address
            <4> QED BY <4>1, <4>2, Values DEF Reading, Resumes
        <3> QED BY <3>1, <3>2
    <2>8. ~Reading(target'.launch)
        <3>1. \/ target'.launch \in {NoOutgoing, target.launch}
              \/ target'.launch = p /\ p.command = "launch"
            BY <2>1 DEF Effect, Keeps
        <3>2. p.use \in Workers <=> p.command = "work"
            BY <2>1 DEF Address
        <3>3. p.command = "launch" => ~Reading(p)
            BY <3>2, Values DEF Reading
        <3> QED BY <2>6, <3>1, <3>3 DEF DatesInv
    <2> QED BY <2>2, <2>4, <2>5, <2>7, <2>8 DEF DatesInv
<1>3. CASE Shutdown
    <2>1. toAdapter' = <<>>
          /\ target' = [target EXCEPT !.state = "gone", !.alive = FALSE]
        BY <1>3 DEF Shutdown
    <2>2. target'.busy = target.busy /\ target'.launch = target.launch
        BY <1>0, <2>1 DEF Types, Targets
    <2>3. Len(toAdapter') = 0
        BY <2>1, Short
    <2>4. \A p \in pending : p.seq # ShutdownRequest.seq
        BY <1>0, <1>3, LastWord, FreshIsNew DEF Types
    <2>5. \A p, q \in pending' : p.seq = q.seq => p = q
        BY <1>3, <2>4, LastWord DEF DatesInv
    <2> QED BY <2>2, <2>3, <2>5 DEF DatesInv
<1>4. CASE Apart
    BY <1>4 DEF Apart, DatesInv
<1>5. CASE AdapterAnswers \/ TargetStops \/ TargetExits \/ Crash
    <2>1. PICK ms \in Seq(Messages) : Reports(ms)
        BY <1>0, <1>5, TargetEffects
    <2>2. session' = session /\ toAdapter' = toAdapter /\ pending' = pending
        BY <2>1 DEF Reports, TargetMoves
    <2>3. target'.busy \in {target.busy, NoOutgoing} /\ target'.launch = target.launch
        BY <2>1 DEF Reports, KeepsPlace, SaysDone, SaysStopped, SaysExited, SaysFailed
    <2>4. ~Reading(NoOutgoing)
        BY DEF Reading, NoOutgoing, Outgoing
    <2> QED BY <2>2, <2>3, <2>4 DEF DatesInv
<1>6. OwnStep \/ (\E m : MessageStep(m))
      => SendsLittle /\ session.revision <= session'.revision /\ UNCHANGED target
    BY DEF OwnStep, MessageStep, Lasts
<1> QED BY <1>1, <1>2, <1>3, <1>4, <1>5, <1>6, Steps

\* What was read at the session's stop was read at the target's.
Current(revision, no) ==
    revision = session.revision => no = target.no /\ AtRest
RepliesInv == \A i \in 1 .. Len(fromAdapter) :
    LET m == fromAdapter[i] IN
    m.type = "response" /\ Reading(m.request) /\ (m.ok \/ m.value = "ok")
    => /\ m.request.revision <= session.revision
       /\ Current(m.request.revision, m.data)

\* A reader's request is in the router, and is about its job.
Awaited(w) == \E p \in pending :
    /\ p.use = w /\ p.seq = workers[w].seq
    /\ p.revision = workers[w].job.epoch /\ p.stop = workers[w].job.stop
AwaitedInv == Working =>
    \A w \in Readers : workers[w].pc = "wait" => Awaited(w)
ResultInv == Working =>
    LET me == workers["inspection"] IN
    me.pc \in {"replied", "done"} /\ me.result = "ok"
    => me.job.epoch <= session.revision /\ Current(me.job.epoch, me.data)

\* Frame handles are of the stop the target is at, and so is what is asked of them.
FramesInv == Working =>
    /\ inspection.frames # None =>
          /\ inspection.frames \in Requests
          /\ client.data[inspection.frames] = target.no /\ AtRest
    /\ \A j \in inspection.waiting :
          inspection.frames # None /\ j.frame = inspection.frames

LEMMA CurrentKept ==
    ASSUME Types, Types', Settling, NEW r \in Nat, NEW no,
           r <= session.revision, Current(r, no)
    PROVE  r <= session'.revision
           /\ (r = session'.revision => no = target'.no /\ AtRest')
<1>1. session.revision \in Nat /\ session'.revision \in Nat
    <2>1. session \in Flags /\ session' \in Flags
        BY DEF Types
    <2> QED BY <2>1 DEF Flags
<1> QED BY <1>1 DEF Settling, Current

LEMMA RepliesKept ==
    ASSUME SafetyInv, Addressed, DatesInv, Settling, RepliesInv, Types', [Next]_vars
    PROVE  RepliesInv'
<1>0. /\ Types /\ session.revision \in Nat
      /\ \A i \in 1 .. Len(toAdapter) : toAdapter[i].revision \in Nat
      /\ \A i \in 1 .. Len(fromAdapter) : fromAdapter[i].request.revision \in Nat
    <2>1. Types /\ toAdapter \in Seq(Sent) /\ fromAdapter \in Seq(Messages) /\ session \in Flags
        BY DEF SafetyInv, Types
    <2>2. /\ \A i \in 1 .. Len(toAdapter) : toAdapter[i] \in Sent
          /\ \A i \in 1 .. Len(fromAdapter) : fromAdapter[i] \in Messages
        BY <2>1
    <2> QED BY <2>1, <2>2 DEF Sent, Flags, Messages
<1> DEFINE Good(m) ==
              m.type = "response" /\ Reading(m.request) /\ (m.ok \/ m.value = "ok")
              => /\ m.request.revision <= session'.revision
                 /\ m.request.revision = session'.revision
                    => m.data = target'.no /\ AtRest'
<1>1. \A i \in 1 .. Len(fromAdapter) : Good(fromAdapter[i])
    BY <1>0, CurrentKept DEF RepliesInv
<1>2. SUFFICES ASSUME NEW i \in 1 .. Len(fromAdapter') PROVE Good(fromAdapter'[i])
    BY DEF RepliesInv, Current
<1> HIDE DEF Good
<1>3. CASE OwnStep \/ Apart
    <2>1. fromAdapter' = fromAdapter
        BY <1>3 DEF OwnStep, Apart
    <2> QED BY <1>1, <1>2, <2>1
<1>4. CASE \E m : MessageStep(m)
    <2>1. fromAdapter # <<>> /\ fromAdapter' = Tail(fromAdapter)
        BY <1>4 DEF MessageStep
    <2> QED BY <1>0, <1>1, <1>2, <2>1, Heard
<1>5. CASE Shutdown
    <2>1. fromAdapter' = <<>>
        BY <1>5 DEF Shutdown
    <2>2. Len(fromAdapter') = 0
        BY <2>1, Short
    <2> QED BY <1>2, <2>2
<1>6. CASE \E p \in Sent, ms \in Seq(Messages) :
               Handle(p, ms, target') /\ Effect(p, ms) /\ Address(p)
    <2>1. PICK p \in Sent, ms \in Seq(Messages) : Handle(p, ms, target') /\ Effect(p, ms)
        BY <1>6
    <2>2. session' = session
        BY <2>1 DEF Handle
    <2>3. /\ p = toAdapter[1] /\ 1 \in 1 .. Len(toAdapter)
          /\ \A j \in 1 .. Len(toAdapter') :
                j + 1 \in 1 .. Len(toAdapter) /\ toAdapter'[j] = toAdapter[j + 1]
          /\ \/ i \in 1 .. Len(fromAdapter) /\ fromAdapter'[i] = fromAdapter[i]
             \/ /\ i - Len(fromAdapter) \in 1 .. Len(ms)
                /\ fromAdapter'[i] = ms[i - Len(fromAdapter)]
        BY <1>0, <1>2, <2>1, Handled
    <2>4. CASE i \in 1 .. Len(fromAdapter) /\ fromAdapter'[i] = fromAdapter[i]
        BY <1>1, <2>4
    <2>5. CASE /\ i - Len(fromAdapter) \in 1 .. Len(ms)
               /\ fromAdapter'[i] = ms[i - Len(fromAdapter)]
        <3> DEFINE m == fromAdapter'[i]
        <3>1. Says(p, m)
            BY <2>1, <2>5 DEF Effect, Speaks
        <3> SUFFICES ASSUME m.type = "response", Reading(m.request), m.ok \/ m.value = "ok"
                     PROVE  /\ m.request.revision <= session'.revision
                            /\ m.request.revision = session'.revision
                               => m.data = target'.no /\ AtRest'
            BY DEF Good
        <3> HIDE DEF m
        <3>2. m.request # target.launch
            BY DEF DatesInv
        <3>3. /\ m.request = p /\ m.data = target.no
              /\ target'.state = target.state /\ target'.no = target.no
              /\ target.state = "stopped"
            BY <3>1, <3>2 DEF Says, Reading
        <3>4. p.revision <= session.revision /\ p.revision \in Nat
            BY <1>0, <2>3 DEF DatesInv
        <3>5. ASSUME p.revision = session.revision PROVE AtRest'
            <4>1. ASSUME NEW j \in 1 .. Len(toAdapter'), Resumes(toAdapter'[j].command)
                  PROVE  FALSE
                <5>1. j + 1 \in 1 .. Len(toAdapter) /\ Resumes(toAdapter[j + 1].command)
                      /\ 1 < j + 1
                    BY <2>3, <4>1
                <5>2. p.revision < toAdapter[j + 1].revision
                    BY <2>3, <5>1 DEF DatesInv
                <5>3. toAdapter[j + 1].revision <= session.revision
                    BY <5>1 DEF DatesInv
                <5> QED BY <1>0, <3>4, <3>5, <5>1, <5>2, <5>3
            <4> QED BY <3>3, <4>1 DEF AtRest
        <3> QED BY <2>2, <3>3, <3>4, <3>5
    <2> QED BY <2>3, <2>4, <2>5
<1>7. CASE AdapterAnswers \/ TargetStops \/ TargetExits \/ Crash
    <2>1. PICK ms \in Seq(Messages) : Reports(ms)
        BY <1>0, <1>7, TargetEffects
    <2>2. \/ i \in 1 .. Len(fromAdapter) /\ fromAdapter'[i] = fromAdapter[i]
          \/ /\ i - Len(fromAdapter) \in 1 .. Len(ms)
             /\ fromAdapter'[i] = ms[i - Len(fromAdapter)]
        BY <1>0, <1>2, <2>1, Moved DEF Reports
    <2>3. \A j \in 1 .. Len(ms) : ms[j].type = "response" => ms[j].request = target.busy
        <3>1. SaysDone(ms) => \A j \in 1 .. Len(ms) : j = 1
            BY DEF SaysDone
        <3>2. SaysExited(ms) => \A j \in 1 .. Len(ms) : j = 1 \/ j = 2
            BY DEF SaysExited
        <3>3. SaysFailed(ms) => \A j \in 1 .. Len(ms) : j = 1
            BY DEF SaysFailed
        <3> QED BY <2>1, <3>1, <3>2, <3>3 DEF Reports, SaysDone, SaysStopped, SaysExited, SaysFailed
    <2> QED BY <1>1, <2>2, <2>3 DEF Good, DatesInv
<1> QED BY <1>3, <1>4, <1>5, <1>6, <1>7, Steps

LEMMA AwaitedKept ==
    ASSUME SafetyInv, Addressed, AwaitedInv, Look, Types', [Next]_vars
    PROVE  AwaitedInv'
<1> SUFFICES ASSUME Working', NEW w \in Readers, workers'[w].pc = "wait"
             PROVE  \E p \in pending' :
                       /\ p.use = w /\ p.seq = workers'[w].seq
                       /\ p.revision = workers'[w].job.epoch
                       /\ p.stop = workers'[w].job.stop
    BY DEF AwaitedInv, Awaited
<1>1. Working /\ Attends /\ Routed
    BY WorkingBefore DEF Look
<1>2. CASE Unread(workers'[w])
    BY <1>2 DEF Unread
<1>3. CASE Keeping(workers[w], workers'[w])
    <2>1. /\ workers'[w].job = workers[w].job /\ workers[w].pc = "wait"
          /\ workers'[w].seq = workers[w].seq
        BY <1>3 DEF Keeping
    <2>2. PICK p \in pending : /\ p.use = w /\ p.seq = workers[w].seq
                               /\ p.revision = workers[w].job.epoch
                               /\ p.stop = workers[w].job.stop
        BY <1>1, <2>1 DEF AwaitedInv, Awaited
    <2>3. p \in pending'
        BY <1>1, <2>1, <2>2 DEF Routed
    <2> QED BY <2>1, <2>2, <2>3
<1>4. CASE Asking(w)
    <2>1. PICK p : /\ Sends(p) /\ Goes(p, pending) /\ p.use = w
                   /\ p.revision = session.revision /\ p.seq = workers'[w].seq
        BY <1>4 DEF Asking
    <2>2. p \in pending' /\ workers'[w].job = workers[w].job
        BY <1>4, <2>1 DEF Goes, Asking
    <2>3. Fetches(p)
        BY <2>1, Values DEF Sends, Readers
    <2>4. p.stop = workers[w].job.stop /\ workers[w].pc = "read" /\ EpochHolds(w, workers[w].job)
        BY <2>1, <2>3 DEF Fetches, Admits
    <2>5. workers[w].job.epoch # None
        BY <2>4 DEF SafetyInv, Dated, Readers
    <2>6. InspectionEpoch = workers[w].job.epoch \/ ConditionEpoch = workers[w].job.epoch
        BY <2>4 DEF EpochHolds, Readers
    <2>7. workers[w].job.epoch = session.revision
        BY <2>5, <2>6 DEF InspectionEpoch, ConditionEpoch
    <2> QED BY <2>1, <2>2, <2>4, <2>7
<1>5. CASE \E m : Getting(w, m)
    BY <1>5 DEF Getting
<1> QED BY <1>1, <1>2, <1>3, <1>4, <1>5 DEF Attends

LEMMA ResultKept ==
    ASSUME SafetyInv, Addressed, DatesInv, RepliesInv, AwaitedInv, ResultInv,
           Look, Settling, Types', [Next]_vars
    PROVE  ResultInv'
<1> DEFINE w == "inspection"
<1> SUFFICES ASSUME Working', workers'[w].pc \in {"replied", "done"},
                    workers'[w].result = "ok"
             PROVE  /\ workers'[w].job.epoch <= session'.revision
                    /\ workers'[w].job.epoch = session'.revision
                       => workers'[w].data = target'.no /\ AtRest'
    BY DEF ResultInv, Current
<1>1. Working /\ Attends /\ w \in Readers /\ w \in Workers
    BY WorkingBefore, Values DEF Look, Readers
<1>0. /\ Types /\ workers[w] \in WorkerStates /\ workers'[w] \in WorkerStates
    BY <1>1 DEF SafetyInv, Types
<1> HIDE DEF w
<1>2. workers'[w].job.epoch \in Nat
    <2>1. workers'[w].pc # "idle"
        OBVIOUS
    <2>2. Dated(workers')
        BY SafetyInductive DEF SafetyInv
    <2>3. workers'[w].job.epoch # None
        BY <1>1, <2>1, <2>2 DEF Dated, Readers
    <2> QED BY <1>0, <2>3 DEF WorkerStates, Orders, Revisions
<1>3. ASSUME workers'[w].job.epoch <= session.revision,
             Current(workers'[w].job.epoch, workers'[w].data)
      PROVE  /\ workers'[w].job.epoch <= session'.revision
             /\ workers'[w].job.epoch = session'.revision
                => workers'[w].data = target'.no /\ AtRest'
    <2> DEFINE r == workers'[w].job.epoch
               n == workers'[w].data
    <2>1. r \in Nat /\ r <= session.revision /\ Current(r, n)
        BY <1>2, <1>3
    <2> HIDE DEF r, n
    <2>2. r <= session'.revision /\ (r = session'.revision => n = target'.no /\ AtRest')
        BY <1>0, <2>1, CurrentKept
    <2> QED BY <2>2 DEF r, n
<1>4. CASE Unread(workers'[w])
    BY <1>4 DEF Unread
<1>5. CASE Keeping(workers[w], workers'[w])
    <2>1. /\ workers'[w].job = workers[w].job /\ workers'[w].data = workers[w].data
          /\ workers[w].pc \in {"replied", "done"} /\ workers[w].result = "ok"
        BY <1>5 DEF Keeping
    <2>2. workers[w].job.epoch <= session.revision /\ Current(workers[w].job.epoch, workers[w].data)
        BY <1>1, <2>1 DEF ResultInv, w
    <2> QED BY <1>3, <2>1, <2>2
<1>6. CASE Asking(w)
    BY <1>6 DEF Asking
<1>7. CASE \E m : Getting(w, m)
    <2>1. PICK m : Getting(w, m)
        BY <1>7
    <2>2. /\ fromAdapter # <<>> /\ m = Head(fromAdapter) /\ m.type = "response"
          /\ m.request \in pending /\ m.request.use = w
          /\ workers[w].pc = "wait" /\ workers[w].seq = m.request.seq
          /\ workers'[w].job = workers[w].job
          /\ workers'[w].result = m.value /\ workers'[w].data = m.data
        BY <2>1 DEF Getting
    <2>3. m = fromAdapter[1] /\ 1 \in 1 .. Len(fromAdapter)
        <3>1. fromAdapter \in Seq(Messages)
            BY <1>0 DEF Types
        <3> QED BY <2>2, <3>1, Tails
    <2>4. m.request.revision <= session.revision /\ Current(m.request.revision, m.data)
        BY <2>2, <2>3 DEF RepliesInv, Reading, w
    <2>5. PICK p \in pending : p.seq = workers[w].seq /\ p.revision = workers[w].job.epoch
        BY <1>1, <2>2 DEF AwaitedInv, Awaited
    <2>6. p = m.request
        BY <2>2, <2>5 DEF DatesInv
    <2> QED BY <1>3, <2>2, <2>4, <2>5, <2>6
<1> QED BY <1>1, <1>4, <1>5, <1>6, <1>7 DEF Attends

LEMMA FramesKept ==
    ASSUME SafetyInv, Addressed, RepliesInv, ResultInv, FramesInv, Look, Settling,
           [Next]_vars
    PROVE  FramesInv'
<1> SUFFICES ASSUME Working'
             PROVE  /\ inspection'.frames # None =>
                          /\ inspection'.frames \in Requests
                          /\ client'.data[inspection'.frames] = target'.no /\ AtRest'
                    /\ \A j \in inspection'.waiting :
                          inspection'.frames # None /\ j.frame = inspection'.frames
    BY DEF FramesInv
<1>0. /\ Types /\ client \in Editors /\ session.revision \in Nat
    BY DEF SafetyInv, Types, Flags
<1>1. Working /\ Gives
    BY WorkingBefore DEF Look
<1>2. /\ inspection.frames # None =>
            /\ inspection.frames \in Requests
            /\ client.data[inspection.frames] = target.no /\ AtRest
      /\ \A j \in inspection.waiting :
            inspection.frames # None /\ j.frame = inspection.frames
    BY <1>1 DEF FramesInv
<1>3. NoInspection.frames = None /\ NoInspection.waiting = {}
    BY DEF NoInspection
<1>4. CASE inspection' = NoInspection
    BY <1>3, <1>4
<1>5. CASE inspection' # NoInspection
    <2>1. AtRest => AtRest' /\ target'.no = target.no
        BY <1>5 DEF Settling
    <2>2. CASE Hides \/ Queues \/ Drops
        BY <1>2, <1>5, <2>1, <2>2 DEF Hides, Queues, Drops
    <2>3. CASE Shows
        <3>1. PICK m \in Messages :
                /\ fromAdapter # <<>> /\ m = Head(fromAdapter) /\ m.type = "response" /\ m.ok
                /\ m.request.command = "stackTrace" /\ m.request.revision = session.revision
                /\ m.request.client \in Requests
                /\ client'.data = [client.data EXCEPT ![m.request.client] = m.data]
                /\ inspection'.frames = MapFrames(m.request.client)
                /\ inspection'.waiting = inspection.waiting
            BY <2>3 DEF Shows
        <3>2. m = fromAdapter[1] /\ 1 \in 1 .. Len(fromAdapter)
            <4>1. fromAdapter \in Seq(Messages)
                BY <1>0 DEF Types
            <4> QED BY <3>1, <4>1, Tails
        <3>3. m.data = target.no /\ AtRest
            BY <3>1, <3>2 DEF RepliesInv, Reading, Current
        <3>4. client.data \in [Requests -> Nat]
            BY <1>0 DEF Editors
        <3> DEFINE r == m.request.client
        <3>5. /\ inspection'.frames \in {r, inspection.frames}
              /\ inspection.frames # None => inspection'.frames = inspection.frames
              /\ r \in Requests
              /\ client'.data[r] = target.no
              /\ \A q \in Requests : q # r => client'.data[q] = client.data[q]
            BY <3>1, <3>3, <3>4 DEF MapFrames
        <3> HIDE DEF r
        <3> QED BY <1>2, <2>1, <3>1, <3>3, <3>5
    <2>4. CASE Tells(workers["inspection"])
        <3> DEFINE me == workers["inspection"]
                   r == me.job.cause
        <3>1. me.data = target.no
            BY <1>1, <2>4 DEF Tells, ResultInv, Current
        <3>2. client.data \in [Requests -> Nat]
            BY <1>0 DEF Editors
        <3>3. /\ client'.data = [client.data EXCEPT ![r] = me.data] /\ r \in Requests
              /\ inspection'.frames = inspection.frames
              /\ inspection'.waiting \subseteq inspection.waiting
            BY <2>4 DEF Tells
        <3>4. client'.data[r] = target.no
              /\ \A q \in Requests : q # r => client'.data[q] = client.data[q]
            BY <3>1, <3>2, <3>3
        <3> HIDE DEF me, r
        <3> QED BY <1>2, <2>1, <3>3, <3>4
    <2> QED BY <1>1, <2>2, <2>3, <2>4 DEF Gives
<1> QED BY <1>4, <1>5

LEMMA InitReads == Init => DatesInv /\ RepliesInv /\ AwaitedInv /\ ResultInv /\ FramesInv
<1> SUFFICES ASSUME Init
             PROVE  DatesInv /\ RepliesInv /\ AwaitedInv /\ ResultInv /\ FramesInv
    OBVIOUS
<1> DEFINE p == Outgoing(1, NoRequest, "initialize", "client", "none", NoStop, 0, 0)
           e == <<>>
           s == <<p>>
<1>1. /\ toAdapter \in {e, s} /\ pending \in {{}, {p}} /\ fromAdapter = e
      /\ \A w \in Workers : workers[w].pc = "idle"
      /\ inspection = [frames |-> None, waiting |-> {}]
      /\ target.busy = NoOutgoing /\ target.launch = NoOutgoing
    BY DEF Init
<1>2. session.revision = 0
    BY DEF Init, FlagsAtLaunch
<1>3. Len(e) = 0 /\ Len(s) = 1 /\ s[1] = p
    BY Short
<1>4. p.revision = 0 /\ p.command = "initialize"
    BY DEF Outgoing
<1>5. ~Reading(NoOutgoing)
    BY DEF Reading, NoOutgoing, Outgoing
<1> HIDE DEF p, e, s
<1>6. /\ Len(fromAdapter) = 0
      /\ \A i \in 1 .. Len(toAdapter) : toAdapter[i] = p /\ i = 1
    <2>1. CASE toAdapter = e
        BY <1>1, <1>3, <2>1
    <2>2. CASE toAdapter = s
        <3>1. Len(toAdapter) = 1 /\ toAdapter[1] = p
            BY <1>3, <2>2
        <3>2. \A i \in 1 .. Len(toAdapter) : i = 1
            BY <3>1
        <3> QED BY <1>1, <1>3, <3>1, <3>2
    <2> QED BY <1>1, <2>1, <2>2
<1>7. DatesInv
    BY <1>1, <1>2, <1>4, <1>5, <1>6 DEF DatesInv
<1>8. RepliesInv
    BY <1>6 DEF RepliesInv
<1>9. AwaitedInv /\ ResultInv
    BY <1>1, Values DEF AwaitedInv, ResultInv, Readers
<1>10. FramesInv
    BY <1>1 DEF FramesInv
<1> QED BY <1>7, <1>8, <1>9, <1>10

ReadsInv == DatesInv /\ RepliesInv /\ AwaitedInv /\ ResultInv /\ FramesInv

LEMMA ReadsHold == Spec => [](FlowInv /\ ReadsInv)
<1>1. FlowInv /\ FlowInv' /\ ReadsInv /\ [Next]_vars => ReadsInv'
    <2> SUFFICES ASSUME FlowInv, FlowInv', ReadsInv, [Next]_vars PROVE ReadsInv'
        OBVIOUS
    <2>1. SafetyInv /\ Addressed /\ StartsOnce
        BY DEF FlowInv
    <2>2. Types'
        BY <2>1, TypesInductive DEF SafetyInv
    <2>3. Look /\ Settling
        BY <2>1, LookSteps, Settles
    <2>4. DatesInv' /\ RepliesInv' /\ AwaitedInv' /\ ResultInv' /\ FramesInv'
        BY <2>1, <2>2, <2>3, DatesKept, RepliesKept, AwaitedKept, ResultKept, FramesKept
           DEF ReadsInv
    <2> QED BY <2>4 DEF ReadsInv
<1>2. Init => ReadsInv
    BY InitReads DEF ReadsInv
<1> QED BY <1>1, <1>2, FlowHolds, PTL DEF Spec

\* What the editor is given was read at the stop the target is at, and what it
\* asked about a frame was asked of a frame of that stop: a reply carries the
\* revision of the stop it was asked at, and frame handles die with their stop.
THEOREM InspectionAlwaysCurrent == Spec => InspectionIsCurrent
<1> DEFINE Fresh == \A r \in Requests :
              client'.data[r] # client.data[r] =>
                  /\ client'.data[r] = target.no
                  /\ \A j \in inspection.waiting :
                        j.cause = r => client.data[j.frame] = target.no
<1>1. FlowInv /\ ReadsInv /\ [Next]_vars => Fresh
    <2> SUFFICES ASSUME FlowInv, ReadsInv, [Next]_vars, NEW r \in Requests,
                        client'.data[r] # client.data[r]
                 PROVE  /\ client'.data[r] = target.no
                        /\ \A j \in inspection.waiting :
                              j.cause = r => client.data[j.frame] = target.no
        OBVIOUS
    <2>1. /\ SafetyInv /\ Addressed /\ RepliesInv /\ ResultInv /\ FramesInv
          /\ client.data \in [Requests -> Nat] /\ fromAdapter \in Seq(Messages)
        BY DEF FlowInv, ReadsInv, SafetyInv, Types, Editors
    <2>2. Working' /\ Gives
        BY <2>1, LookSteps DEF Look
    <2>3. Working
        BY <2>1, <2>2, WorkingBefore
    <2>4. \A j \in inspection.waiting : client.data[j.frame] = target.no
        BY <2>1, <2>3 DEF FramesInv
    <2>5. CASE Shows
        <3>1. PICK m \in Messages :
                /\ fromAdapter # <<>> /\ m = Head(fromAdapter) /\ m.type = "response" /\ m.ok
                /\ m.request.command = "stackTrace" /\ m.request.revision = session.revision
                /\ client'.data = [client.data EXCEPT ![m.request.client] = m.data]
            BY <2>5 DEF Shows
        <3>2. m = fromAdapter[1] /\ 1 \in 1 .. Len(fromAdapter)
            BY <2>1, <3>1, Tails
        <3>3. m.data = target.no
            BY <2>1, <3>1, <3>2 DEF RepliesInv, Reading, Current
        <3> QED BY <2>1, <2>4, <3>1, <3>3
    <2>6. CASE Tells(workers["inspection"])
        <3>1. /\ workers["inspection"].data = target.no
              /\ client'.data = [client.data EXCEPT ![workers["inspection"].job.cause]
                                                        = workers["inspection"].data]
            BY <2>1, <2>3, <2>6 DEF Tells, ResultInv, Current
        <3> QED BY <2>1, <2>4, <3>1
    <2> QED BY <2>2, <2>5, <2>6 DEF Gives, Hides, Queues, Drops
<1>2. FlowInv /\ ReadsInv /\ [Next]_vars => [Fresh]_vars
    BY <1>1
<1> QED BY <1>2, ReadsHold, PTL DEF Spec, InspectionIsCurrent

=============================================================================
