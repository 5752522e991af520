-------------------------- MODULE LiveSessionProofs --------------------------
(***************************************************************************)
(* Theorems about LiveSession, for any number of requests and stops, any     *)
(* commands and any faults: its types, the single `terminated`, the silence   *)
(* after disconnect, and the answers: every request the editor sends is      *)
(* answered, or exactly one part of the live session still owes its answer.  *)
(*                                                                         *)
(* A request is with one holder at a time: on its way to the loop, in the    *)
(* router, deferred behind breakpoint work, queued for inspection, or it is  *)
(* the breakpoint request the function or the panic worker is at.  Every      *)
(* step passes it on or answers it, so the holders and the answers of a       *)
(* request always add up to one.                                             *)
(***************************************************************************)
EXTENDS LiveSession, FiniteSetTheorems, TLAPS

-----------------------------------------------------------------------------
(* Types, of every field.                                                    *)

Others == Requests \ {Launch}
KnownKinds == Kinds \ {"invalid"}
Revisions == Nat \cup {None}

Flags == [ready : BOOLEAN, configured : BOOLEAN, launchAnswered : BOOLEAN,
          stopped : BOOLEAN, revision : Nat, pauseRevision : Revisions,
          exited : BOOLEAN, ended : BOOLEAN, closing : BOOLEAN]

Orders == [cause : Requests \cup {NoRequest}, epoch : Revisions,
           frame : Revisions, kind : KnownKinds, stop : Stops]

Sent == [seq : Nat, client : Requests \cup {NoRequest},
         command : AllCommands \cup {"initialize", "launch", "work", "none"},
         use : Workers \cup {"client", "stopContext", "conditionContinue", "none"},
         kind : KnownKinds, stop : Stops, cause : Requests \cup {NoRequest},
         revision : Nat]

\* What cannot be parsed is a breakpoint request.
Edits == {"setBreakpoints", "setFunctionBreakpoints", "setExceptionBreakpoints"}
Asks == {q \in [seq : Requests, command : AllCommands, kind : Kinds,
                frame : Revisions] :
            /\ q.seq # Launch
            /\ q.kind = "invalid" => q.command \in Edits}
Eofs == [seq : Nat, command : {"eof"}, kind : {"none"}, frame : Revisions]

BreakpointStates ==
    [function : Others \cup {NoRequest}, requested : KnownKinds,
     panic : Others \cup {0, None}, panicConfigured : BOOLEAN,
     panicInstalled : BOOLEAN, deferred : Seq(Asks), stops : Seq(Stops)]

ConditionStates ==
    [active : Orders, updating : BOOLEAN, stepping : BOOLEAN, suppress : BOOLEAN,
     bindings : [{"source", "function"} -> KnownKinds]]

Inspections == [frames : Revisions, waiting : SUBSET Orders]

WorkerStates ==
    [pc : {"idle", "read", "wait", "replied", "done"}, seq : Nat, job : Orders,
     queue : Seq(Orders), result : Results, data : Nat, installed : BOOLEAN]

Editors ==
    [next : Nat \ {0, Launch}, answers : [Requests -> Nat], outcome : [Requests -> Outcomes],
     data : [Requests -> Nat], view : {"running", "stopped", "gone"},
     stop : Stops, resume : Requests \cup {NoRequest}, frame : Revisions,
     terminated : Nat, left : BOOLEAN]

Messages ==
    [type : {"response", "initialized", "stopped", "continued", "exited",
             "terminated", "failed"},
     request : Sent, ok : BOOLEAN, value : Results, data : Nat, stop : Stops]

Targets ==
    [state : {"none", "running", "stopped", "gone"}, no : Nat,
     source : Requests \cup {NoRequest}, function : Requests \cup {NoRequest},
     panic : BOOLEAN, launch : Sent, busy : Sent, alive : BOOLEAN]

\* The router is finite, so that there is a fresh sequence number.
Types ==
    /\ at \in Places
    /\ session \in Flags
    /\ pending \in SUBSET Sent /\ IsFiniteSet(pending)
    /\ breakpoints \in BreakpointStates
    /\ conditions \in ConditionStates
    /\ inspection \in Inspections
    /\ workers \in [Workers -> WorkerStates]
    /\ client \in Editors
    /\ fromClient \in Seq(Asks \cup Eofs)
    /\ toAdapter \in Seq(Sent)
    /\ fromAdapter \in Seq(Messages)
    /\ target \in Targets

-----------------------------------------------------------------------------
(* The operators a handler is built from.                                    *)

LEMMA Values ==
    /\ NoStop \in Stops /\ NoOutgoing \in Sent /\ NoJob \in Orders
    /\ None \in Revisions /\ Launch \in Requests
    /\ Workers = {"inspection", "function", "panic", "condition"}
BY LiveAssumption DEF NoStop, Stops, NoOutgoing, Outgoing, Sent, NoJob, Orders, None,
   Revisions, Launch, Requests, NoRequest, KnownKinds, Kinds, Workers, HitKinds,
   AllCommands

\* A finite router has a fresh sequence number.
LEMMA FreshIsNew ==
    ASSUME NEW ps, IsFiniteSet(ps)
    PROVE  FreshSeq(ps) \in Nat /\ \A p \in ps : p.seq # FreshSeq(ps)
<1> DEFINE Free(n) == \A p \in ps : p.seq # n
           numbers == 1 .. Cardinality(ps) + 1
<1>1. Cardinality(ps) \in Nat
    BY FS_CardinalityType
<1>2. IsFiniteSet(numbers) /\ Cardinality(numbers) = Cardinality(ps) + 1
    BY <1>1, FS_Interval
<1>3. \E n \in numbers : Free(n)
    <2> SUFFICES ASSUME \A n \in numbers : ~Free(n) PROVE FALSE
        OBVIOUS
    <2> DEFINE taken == [n \in numbers |-> CHOOSE p \in ps : p.seq = n]
    <2>1. \A n \in numbers : taken[n] \in ps /\ taken[n].seq = n
        OBVIOUS
    <2>2. taken \in [numbers -> ps]
        BY <2>1
    <2>3. \E x, y \in numbers : x # y /\ taken[x] = taken[y]
        <3> HIDE DEF numbers, taken
        <3> QED BY <1>1, <1>2, <2>2, FS_PigeonHole
    <2> QED BY <2>1, <2>3
<1>4. FreshSeq(ps) \in numbers /\ Free(FreshSeq(ps))
    BY <1>3 DEF FreshSeq
<1> QED BY <1>1, <1>4

LEMMA OutgoingTyped ==
    ASSUME NEW s \in Nat, NEW a \in Requests \cup {NoRequest},
           NEW command \in AllCommands \cup {"initialize", "launch", "work", "none"},
           NEW use \in Workers \cup {"client", "stopContext", "conditionContinue", "none"},
           NEW kind \in KnownKinds, NEW stop \in Stops,
           NEW cause \in Requests \cup {NoRequest}, NEW revision \in Nat
    PROVE  Outgoing(s, a, command, use, kind, stop, cause, revision) \in Sent
BY DEF Outgoing, Sent

LEMMA AnswerTyped ==
    ASSUME NEW c \in Editors, NEW S, NEW o \in {"ok", "error"}
    PROVE  Answer(c, S, o) \in Editors
<1> DEFINE answers == [r \in Requests |-> IF r \in S THEN c.answers[r] + 1 ELSE c.answers[r]]
           outcome == [r \in Requests |-> IF r \in S THEN o ELSE c.outcome[r]]
           view == IF o = "error" /\ c.resume \in S THEN "stopped" ELSE c.view
           resume == IF c.resume \in S THEN NoRequest ELSE c.resume
<1>1. c.answers \in [Requests -> Nat] /\ c.outcome \in [Requests -> Outcomes]
    BY DEF Editors
<1>2. answers \in [Requests -> Nat] /\ outcome \in [Requests -> Outcomes]
    BY <1>1 DEF Outcomes
<1>3. view \in {"running", "stopped", "gone"} /\ resume \in Requests \cup {NoRequest}
    BY DEF Editors
<1>4. Answer(c, S, o) = [c EXCEPT !.answers = answers, !.outcome = outcome,
                                  !.view = view, !.resume = resume]
    BY DEF Answer
<1> HIDE DEF answers, outcome, view, resume
<1> QED BY <1>2, <1>3, <1>4 DEF Editors

LEMMA TellsTyped ==
    ASSUME NEW c \in Editors, NEW stop \in Stops
    PROVE  /\ TellStopped(c, stop) \in Editors
           /\ TellContinued(c) \in Editors
           /\ TellExited(c) \in Editors
           /\ TellTerminated(c) \in Editors
<1>1. TellStopped(c, stop) \in Editors
    BY DEF TellStopped, Editors
<1>2. TellContinued(c) \in Editors
    BY DEF TellContinued, Editors
<1>3. TellExited(c) \in Editors
    BY DEF TellExited, Editors
<1>4. TellTerminated(c) \in Editors
    <2>1. \A d \in Editors : [d EXCEPT !.terminated = d.terminated + 1] \in Editors
        BY DEF Editors
    <2> QED BY <1>3, <2>1 DEF TellTerminated
<1> QED BY <1>1, <1>2, <1>3, <1>4

LEMMA CancelsTyped ==
    ASSUME NEW c \in Editors
    PROVE  /\ AnswerCancelled(c) \in Editors
           /\ AnswerStale(c) \in Editors
           /\ CancelLaunch(c) \in Editors
BY AnswerTyped DEF AnswerCancelled, AnswerStale, CancelLaunch

LEMMA StatesTyped ==
    ASSUME Types
    PROVE  /\ CancelledWork \in BreakpointStates
           /\ NoInspection \in Inspections
           /\ \A s \in Flags : Finished(s) \in Flags
<1>1. CancelledWork \in BreakpointStates
    <2>1. breakpoints \in BreakpointStates /\ <<>> \in Seq(Asks) /\ <<>> \in Seq(Stops)
        BY DEF Types
    <2> QED BY <2>1 DEF CancelledWork, BreakpointStates
<1>2. NoInspection \in Inspections
    BY Values DEF NoInspection, Inspections
<1>3. \A s \in Flags : Finished(s) \in Flags
    BY Values DEF Finished, Flags
<1> QED BY <1>1, <1>2, <1>3

LEMMA ReleaseTyped ==
    ASSUME NEW ws \in [Workers -> WorkerStates], NEW S
    PROVE  Release(ws, S) \in [Workers -> WorkerStates]
BY DEF Release, WorkerStates, Results

LEMMA EnqueueTyped ==
    ASSUME NEW ws \in [Workers -> WorkerStates], NEW w \in Workers, NEW job \in Orders
    PROVE  Enqueue(ws, w, job) \in [Workers -> WorkerStates]
<1>1. ws[w] \in WorkerStates /\ ws[w].queue \in Seq(Orders)
    BY DEF WorkerStates
<1>2. Append(ws[w].queue, job) \in Seq(Orders)
    BY <1>1
<1>3. [ws[w] EXCEPT !.queue = Append(ws[w].queue, job)] \in WorkerStates
    BY <1>1, <1>2 DEF WorkerStates
<1> QED BY <1>3 DEF Enqueue

LEMMA SendTyped ==
    ASSUME Types, NEW ps \in SUBSET Sent, IsFiniteSet(ps), NEW p \in Sent, Send(ps, p)
    PROVE  /\ pending' \in SUBSET Sent /\ IsFiniteSet(pending')
           /\ toAdapter' \in Seq(Sent)
<1>1. IsFiniteSet(ps \cup {p})
    BY FS_AddElement
<1> QED BY <1>1 DEF Types, Send

LEMMA RaiseTyped ==
    ASSUME Types, NEW c \in Editors, NEW ps \in SUBSET Sent, IsFiniteSet(ps),
           NEW ws \in [Workers -> WorkerStates], Raise(c, ps, ws),
           fromClient' \in Seq(Asks \cup Eofs), fromAdapter' \in Seq(Messages),
           target' \in Targets
    PROVE  Types'
<1>1. session' \in Flags
    BY DEF Types, Raise, Flags
<1>2. client' \in Editors
    BY CancelsTyped, AnswerTyped DEF Raise
<1>3. workers' \in [Workers -> WorkerStates]
    BY ReleaseTyped DEF Raise
<1> QED BY <1>1, <1>2, <1>3, StatesTyped DEF Types, Raise, Places

LEMMA PublishConditionStopTyped ==
    ASSUME NEW stop \in Stops, NEW c \in Editors, NEW cond \in ConditionStates,
           NEW ws \in [Workers -> WorkerStates], NEW revision \in Nat,
           PublishConditionStop(stop, c, cond, ws, revision)
    PROVE  /\ conditions' \in ConditionStates
           /\ workers' \in [Workers -> WorkerStates]
           /\ client' \in Editors
<1>1. ConditionJob(stop, revision) \in Orders
    BY Values DEF ConditionJob, Orders, Revisions
<1>2. \A job \in Orders : [cond EXCEPT !.active = job] \in ConditionStates
    BY DEF ConditionStates
<1>3. "condition" \in Workers
    BY Values
<1> QED BY ZenonT(60), <1>1, <1>2, <1>3, EnqueueTyped, TellsTyped DEF PublishConditionStop

LEMMA PublishStopTyped ==
    ASSUME Types, NEW stop \in Stops, NEW c \in Editors, NEW cond \in ConditionStates,
           NEW ws \in [Workers -> WorkerStates], NEW revision \in Nat,
           PublishStop(stop, c, cond, ws, revision)
    PROVE  /\ conditions' \in ConditionStates
           /\ workers' \in [Workers -> WorkerStates]
           /\ client' \in Editors
           /\ pending' \in SUBSET Sent /\ IsFiniteSet(pending')
           /\ toAdapter' \in Seq(Sent)
<1>1. CASE breakpoints.panicInstalled /\ "panic" \in stop.ids
    <2> DEFINE p == Outgoing(FreshSeq(pending), NoRequest, "stackTrace",
                             "stopContext", "none", stop, 0, revision)
    <2>1. p \in Sent
        BY FreshIsNew, OutgoingTyped
           DEF Types, NoRequest, AllCommands, KnownKinds, Kinds
    <2>2. Send(pending, p)
        BY <1>1 DEF PublishStop
    <2> HIDE DEF p
    <2> QED BY <1>1, <2>1, <2>2, SendTyped DEF PublishStop, Types
<1>2. CASE ~(breakpoints.panicInstalled /\ "panic" \in stop.ids)
    BY <1>2, PublishConditionStopTyped DEF PublishStop, Types
<1> QED BY <1>1, <1>2

-----------------------------------------------------------------------------
(* The requests of the editor.                                               *)

LEMMA ForwardTyped ==
    ASSUME Types, NEW req \in Asks, req.kind \in KnownKinds, Forward(req, req.command)
    PROVE  /\ pending' \in SUBSET Sent /\ IsFiniteSet(pending')
           /\ toAdapter' \in Seq(Sent)
<1> DEFINE p == Outgoing(FreshSeq(pending), req.seq, req.command, "client",
                         req.kind, NoStop, 0, session.revision)
<1>1. req.seq \in Requests /\ req.command \in AllCommands
    BY DEF Asks
<1>2. p \in Sent
    BY <1>1, FreshIsNew, OutgoingTyped, Values DEF Types, Flags, NoRequest
<1>3. Send(pending, p)
    BY DEF Forward
<1> HIDE DEF p
<1> QED BY <1>2, <1>3, SendTyped DEF Types

LEMMA ReplyTyped ==
    ASSUME Types, NEW req, NEW o \in {"ok", "error"}, NEW b \in BreakpointStates,
           ReplyAtOnce(req, o, b), at' \in Places,
           fromClient' \in Seq(Asks \cup Eofs), UNCHANGED <<fromAdapter, target>>
    PROVE  Types'
BY AnswerTyped DEF ReplyAtOnce, Types

LEMMA PerformTyped ==
    ASSUME Types, NEW req \in Asks, NEW b \in BreakpointStates, Perform(req, b),
           at' \in Places, fromClient' \in Seq(Asks \cup Eofs),
           UNCHANGED <<fromAdapter, target>>
    PROVE  Types'
<1> DEFINE Rest == /\ at \in Places /\ at' \in Places
                   /\ fromClient' \in Seq(Asks \cup Eofs)
                   /\ fromAdapter' \in Seq(Messages) /\ target' \in Targets
<1>0. Rest /\ req.seq \in Others /\ req.command \in AllCommands
    BY DEF Types, Asks, Others
<1>k. req.command \notin Edits \/ Valid(req) => req.kind \in KnownKinds
    BY DEF Asks, Valid, KnownKinds
<1>w. "function" \in Workers /\ "panic" \in Workers /\ "inspection" \in Workers
    BY Values
<1>j. \A kind \in KnownKinds, cause \in Requests \cup {NoRequest}, epoch, frame \in Revisions :
          [NoJob EXCEPT !.cause = cause, !.epoch = epoch, !.frame = frame, !.kind = kind]
              \in Orders
    BY Values DEF Orders
<1>1. CASE Refused(req) /\ ReplyAtOnce(req, "error", b)
    BY <1>1, ReplyTyped
<1>2. CASE ReplaceFunctions(req, b)
    <2>1. req.kind \in KnownKinds
        BY <1>2, <1>k DEF ReplaceFunctions
    <2>2. [NoJob EXCEPT !.cause = req.seq, !.kind = req.kind] \in Orders
        BY <1>0, <2>1, Values DEF Orders, Others
    <2>3. breakpoints' \in BreakpointStates
        BY <1>0, <1>2, <2>1 DEF ReplaceFunctions, BreakpointStates
    <2> QED BY <1>0, <1>2, <1>w, <2>2, <2>3, EnqueueTyped DEF ReplaceFunctions, Types
<1>3. CASE ReplaceSources(req, b)
    <2>1. conditions' \in ConditionStates
        BY <1>3 DEF ReplaceSources, Types, ConditionStates
    <2> QED BY <1>0, <1>3, <1>k, <2>1, ForwardTyped DEF ReplaceSources, Types
<1>4. CASE ReplacePanic(req, b)
    <2>1. req.kind \in KnownKinds
        BY <1>4, <1>k DEF ReplacePanic
    <2>2. [NoJob EXCEPT !.cause = req.seq, !.kind = req.kind] \in Orders
        BY <1>0, <2>1, Values DEF Orders, Others
    <2>3. breakpoints' \in BreakpointStates
        BY <1>0, <1>4 DEF ReplacePanic, BreakpointStates
    <2> QED BY <1>0, <1>4, <1>w, <2>2, <2>3, EnqueueTyped DEF ReplacePanic, Types
<1>5. CASE ConfigurationDone(req, b)
    <2>0. req.kind \in KnownKinds
        BY <1>5, <1>k DEF ConfigurationDone, Edits
    <2>1. CASE b.panicConfigured
        <3>1. session' \in Flags
            BY <1>5, <2>1 DEF ConfigurationDone, Types, Flags
        <3> QED BY <1>0, <1>5, <2>0, <2>1, <3>1, ForwardTyped DEF ConfigurationDone, Types
    <2>2. CASE ~b.panicConfigured
        <3>1. [NoJob EXCEPT !.kind = "plain"] \in Orders
            BY Values DEF Orders, KnownKinds, Kinds
        <3>2. b.deferred \in Seq(Asks)
            BY DEF BreakpointStates
        <3>3. Append(b.deferred, req) \in Seq(Asks)
            BY <3>2
        <3>4. breakpoints' \in BreakpointStates
            BY <1>5, <2>2, <3>3 DEF ConfigurationDone, BreakpointStates
        <3>5. workers' = Enqueue(workers, "panic", [NoJob EXCEPT !.kind = "plain"])
              /\ UNCHANGED <<session, pending, toAdapter, conditions, inspection, client>>
            BY <1>5, <2>2 DEF ConfigurationDone
        <3>6. workers' \in [Workers -> WorkerStates]
            BY <1>w, <3>1, <3>5, EnqueueTyped DEF Types
        <3> QED BY <1>0, <3>4, <3>5, <3>6 DEF Types
    <2> QED BY <2>1, <2>2
<1>6. CASE Threads(req, b)
    <2>1. CASE ReplyAtOnce(req, "ok", b)
        BY <2>1, ReplyTyped
    <2>2. CASE Forward(req, req.command) /\ breakpoints' = b
               /\ UNCHANGED <<session, conditions, inspection, workers, client>>
        BY <1>0, <1>6, <1>k, <2>2, ForwardTyped DEF Threads, Edits, Types
    <2> QED BY <1>6, <2>1, <2>2 DEF Threads
<1>7. CASE StackTrace(req, b)
    BY <1>0, <1>7, <1>k, ForwardTyped DEF StackTrace, Edits, Types
<1>8. CASE Variables(req, b)
    <2> DEFINE job == [NoJob EXCEPT !.cause = req.seq, !.epoch = InspectionEpoch,
                                    !.frame = req.frame]
    <2>1. InspectionEpoch \in Revisions /\ req.frame \in Revisions
        BY DEF InspectionEpoch, Types, Flags, Revisions, Asks
    <2>2. job \in Orders
        BY <1>0, <2>1, Values DEF Orders, Others
    <2>3. inspection' = [inspection EXCEPT !.waiting = @ \cup {job}]
          /\ workers' = Enqueue(workers, "inspection", job)
        BY <1>8 DEF Variables
    <2> HIDE DEF job
    <2>4. inspection' \in Inspections
        BY <2>2, <2>3 DEF Types, Inspections
    <2> QED BY <1>0, <1>8, <1>w, <2>2, <2>3, <2>4, EnqueueTyped DEF Variables, Types
<1>9. CASE Resume(req, b)
    <2> DEFINE p == Outgoing(FreshSeq(pending), req.seq, req.command, "client",
                             "none", NoStop, 0, session.revision + 1)
    <2>0. session.revision \in Nat /\ session.revision + 1 \in Nat
        BY DEF Types, Flags
    <2>1. p \in Sent
        <3>1. FreshSeq(pending) \in Nat /\ "none" \in KnownKinds /\ req.seq \in Requests
              /\ 0 \in Requests \cup {NoRequest} /\ NoStop \in Stops
            BY <1>0, FreshIsNew, Values DEF Types, NoRequest, KnownKinds, Kinds, Others
        <3> QED BY <1>0, <2>0, <3>1, OutgoingTyped
    <2>2. Send(pending, p)
        BY <1>9 DEF Resume
    <2> HIDE DEF p
    <2>3. session' \in Flags
        <3>1. session' = [session EXCEPT !.stopped = FALSE, !.revision = session.revision + 1]
            BY <1>9 DEF Resume
        <3> QED BY <2>0, <3>1 DEF Types, Flags
    <2>4. conditions' \in ConditionStates
        BY <1>9 DEF Resume, Types, ConditionStates
    <2>5. client' \in Editors
        <3>1. AnswerStale(client) \in Editors
            BY CancelsTyped DEF Types
        <3> QED BY <1>0, <1>9, <3>1 DEF Resume, Editors, Others
    <2> QED BY <1>0, <1>9, <2>1, <2>2, <2>3, <2>4, <2>5, SendTyped, StatesTyped,
               ReleaseTyped DEF Resume, Types
<1>10. CASE Pause(req, b)
    <2>1. session' \in Flags
        BY <1>10 DEF Pause, Types, Flags, Revisions
    <2> QED BY <1>0, <1>10, <1>k, <2>1, ForwardTyped DEF Pause, Edits, Types
<1> QED BY <1>1, <1>2, <1>3, <1>4, <1>5, <1>6, <1>7, <1>8, <1>9, <1>10 DEF Perform


\* The request at hand, and what is left of the queue.
LEMMA HeadTyped ==
    ASSUME NEW S, NEW q \in Seq(S), q # <<>>
    PROVE  Head(q) \in S /\ Tail(q) \in Seq(S)
OBVIOUS

LEMMA ClientTyped == Types /\ OnClient => Types'
<1> SUFFICES ASSUME Types, NEW req, req = Head(fromClient), fromClient # <<>>,
                    \/ DeferRequest(req) \/ InterruptCondition(req)
                    \/ PerformRequest(req) \/ Disconnect(req)
                    \/ RefuseWhileClosing(req) \/ ClientEof(req)
             PROVE  Types'
    BY DEF OnClient
<1>1. /\ req \in Asks \cup Eofs /\ req.command # "eof" => req \in Asks
      /\ Tail(fromClient) \in Seq(Asks \cup Eofs)
    BY HeadTyped DEF Types, Eofs
<1>2. TakeRequest(req) => /\ fromClient' \in Seq(Asks \cup Eofs)
                          /\ UNCHANGED <<fromAdapter, target>>
    BY <1>1 DEF TakeRequest
<1>3. breakpoints \in BreakpointStates /\ conditions \in ConditionStates
      /\ session \in Flags /\ client \in Editors
    BY DEF Types
<1>4. CASE DeferRequest(req)
    <2>1. req \in Asks
        BY <1>1, <1>4 DEF DeferRequest, MustDefer, Deferrable
    <2>2. CASE ReplyAtOnce(req, "error", breakpoints)
        BY <1>2, <1>3, <1>4, <2>2, ReplyTyped DEF DeferRequest, Places
    <2>3. CASE /\ breakpoints' = [breakpoints EXCEPT !.deferred = Append(@, req)]
               /\ UNCHANGED <<session, pending, conditions, inspection, workers,
                              client, toAdapter>>
        <3>1. Append(breakpoints.deferred, req) \in Seq(Asks)
            BY <1>3, <2>1 DEF BreakpointStates
        <3>2. breakpoints' \in BreakpointStates
            BY <1>3, <2>3, <3>1 DEF BreakpointStates
        <3> QED BY <1>2, <1>4, <2>3, <3>2 DEF DeferRequest, Places, Types
    <2> QED BY <1>4, <2>2, <2>3 DEF DeferRequest
<1>5. CASE InterruptCondition(req)
    <2>1. conditions' \in ConditionStates
        BY <1>3, <1>5, Values DEF InterruptCondition, ConditionStates
    <2>2. session' \in Flags
        BY <1>3, <1>5 DEF InterruptCondition, Flags
    <2>3. conditions.active.stop \in Stops
        BY <1>3 DEF ConditionStates, Orders
    <2>4. client' \in Editors
        BY <1>3, <1>5, <2>3, AnswerTyped, TellsTyped DEF InterruptCondition
    <2>5. at' \in Places
        BY <1>5 DEF InterruptCondition, EnterDrain, Places
    <2> QED BY <1>2, <1>5, <2>1, <2>2, <2>4, <2>5 DEF InterruptCondition, Types
<1>6. CASE PerformRequest(req)
    BY <1>1, <1>2, <1>3, <1>6, PerformTyped DEF PerformRequest, Places
<1>7. CASE Disconnect(req)
    <2>1. req \in Asks /\ req.kind \in KnownKinds
        BY <1>1, <1>7 DEF Disconnect, Asks, KnownKinds, Edits
    <2>2. session' \in Flags
        BY <1>3, <1>7 DEF Disconnect, Flags
    <2>3. client' \in Editors
        BY <1>3, <1>7, CancelsTyped DEF Disconnect
    <2>4. workers' \in [Workers -> WorkerStates]
        BY <1>7, ReleaseTyped DEF Disconnect, Types
    <2>5. Forward(req, req.command)
        BY <1>7 DEF Disconnect
    <2> QED BY <1>2, <1>7, <2>1, <2>2, <2>3, <2>4, <2>5, StatesTyped, ForwardTyped
            DEF Disconnect, Types, Places
<1>8. CASE RefuseWhileClosing(req)
    BY <1>2, <1>3, <1>8, ReplyTyped DEF RefuseWhileClosing, Places
<1>9. CASE ClientEof(req)
    BY <1>2, <1>9 DEF ClientEof, Types, Places
<1> QED BY <1>4, <1>5, <1>6, <1>7, <1>8, <1>9

LEMMA DrainTyped == Types /\ (DrainStop \/ DrainRequest) => Types'
<1> SUFFICES ASSUME Types, DrainStop \/ DrainRequest PROVE Types'
    OBVIOUS
<1>1. /\ breakpoints \in BreakpointStates /\ breakpoints.deferred \in Seq(Asks)
      /\ breakpoints.stops \in Seq(Stops)
    BY DEF Types, BreakpointStates
<1>2. CASE DrainStop
    <2>1. Head(breakpoints.stops) \in Stops /\ Tail(breakpoints.stops) \in Seq(Stops)
        BY <1>1, <1>2, HeadTyped DEF DrainStop
    <2>2. breakpoints' \in BreakpointStates
        BY <1>1, <1>2, <2>1 DEF DrainStop, BreakpointStates
    <2>3. session.revision \in Nat
        BY DEF Types, Flags
    <2>4. PublishStop(Head(breakpoints.stops), client, conditions, workers,
                      session.revision)
        BY <1>2 DEF DrainStop
    <2>5. /\ conditions' \in ConditionStates /\ workers' \in [Workers -> WorkerStates]
          /\ client' \in Editors /\ pending' \in SUBSET Sent /\ IsFiniteSet(pending')
          /\ toAdapter' \in Seq(Sent)
        BY <2>1, <2>3, <2>4, PublishStopTyped DEF Types
    <2> QED BY <1>2, <2>2, <2>5 DEF DrainStop, KeepDraining, Types, Places
<1>3. CASE DrainRequest
    <2>1. Head(breakpoints.deferred) \in Asks /\ Tail(breakpoints.deferred) \in Seq(Asks)
        BY <1>1, <1>3, HeadTyped DEF DrainRequest
    <2>2. [breakpoints EXCEPT !.deferred = Tail(@)] \in BreakpointStates
        BY <1>1, <2>1 DEF BreakpointStates
    <2>3. at' \in Places
        BY <1>3 DEF DrainRequest, KeepDraining, Places
    <2>4. fromClient' \in Seq(Asks \cup Eofs)
        BY <1>3 DEF DrainRequest, Types
    <2> QED BY <1>3, <2>1, <2>2, <2>3, <2>4, PerformTyped DEF DrainRequest
<1> QED BY <1>2, <1>3


-----------------------------------------------------------------------------
(* The messages of lldb-dap.                                                 *)

LEMMA MessageTyped ==
    ASSUME Types, NEW m, TakeMessage(m)
    PROVE  /\ m \in Messages /\ m.request \in Sent /\ m.stop \in Stops
           /\ fromAdapter' \in Seq(Messages)
           /\ fromClient' \in Seq(Asks \cup Eofs) /\ target' \in Targets
<1>1. m \in Messages /\ Tail(fromAdapter) \in Seq(Messages)
    BY HeadTyped DEF Types, TakeMessage
<1> QED BY <1>1 DEF Types, TakeMessage, Messages

LEMMA SettledTyped ==
    ASSUME Types, NEW m
    PROVE  Settled(m) \in SUBSET Sent /\ IsFiniteSet(Settled(m))
BY FS_RemoveElement DEF Types, Settled

\* Responses that leave session and breakpoints alone, or the flags only.
LEMMA ResponseTyped ==
    ASSUME Types, NEW m,
           \/ OnConditionContinued(m) \/ \E w \in Workers : OnWorkerReply(m, w)
           \/ \E panicked \in BOOLEAN : OnStopClassified(m, panicked)
           \/ OnStackTrace(m) \/ OnLaunched(m) \/ OnConfigured(m) \/ OnResumed(m)
           \/ OnPauseAnswered(m) \/ OnThreads(m)
    PROVE  Types'
<1>1. /\ m \in Messages /\ m.request \in Sent /\ m.stop \in Stops
      /\ fromAdapter' \in Seq(Messages) /\ fromClient' \in Seq(Asks \cup Eofs)
      /\ target' \in Targets
    BY MessageTyped DEF OnConditionContinued, OnWorkerReply, OnStopClassified,
       OnStackTrace, OnLaunched, OnConfigured, OnResumed, OnPauseAnswered, OnThreads,
       TakeResponse
<1>2. /\ pending' = Settled(m) /\ at' = "loop" /\ toAdapter' = toAdapter
      /\ breakpoints' = breakpoints
    BY DEF OnConditionContinued, OnWorkerReply, OnStopClassified, OnStackTrace,
       OnLaunched, OnConfigured, OnResumed, OnPauseAnswered, OnThreads
<1>3. /\ pending' \in SUBSET Sent /\ IsFiniteSet(pending') /\ at' \in Places
      /\ toAdapter' \in Seq(Sent) /\ breakpoints' \in BreakpointStates
    BY <1>2, SettledTyped DEF Types, Places
<1>4. m.request.stop \in Stops
    BY <1>1 DEF Sent
<1>5. session \in Flags /\ conditions \in ConditionStates /\ client \in Editors
      /\ session.revision \in Nat /\ inspection \in Inspections
    BY DEF Types, Flags
<1>6. CASE OnConditionContinued(m)
    <2>1. session' \in Flags
        BY <1>5, <1>6 DEF OnConditionContinued, Flags
    <2>2. conditions' \in ConditionStates
        BY <1>5, <1>6 DEF OnConditionContinued, ConditionStates
    <2> QED BY <1>1, <1>3, <1>4, <1>5, <1>6, <2>1, <2>2, TellsTyped
            DEF OnConditionContinued, Types
<1>7. CASE \E w \in Workers : OnWorkerReply(m, w)
    <2> SUFFICES ASSUME NEW w \in Workers, OnWorkerReply(m, w) PROVE Types'
        BY <1>7
    <2>1. workers[w] \in WorkerStates /\ m.value \in Results /\ m.data \in Nat
        BY <1>1 DEF Types, Messages
    <2>2. [workers[w] EXCEPT !.pc = "replied", !.seq = 0, !.result = m.value,
                             !.data = m.data] \in WorkerStates
        BY <2>1 DEF WorkerStates
    <2>3. workers' \in [Workers -> WorkerStates]
        BY <2>2 DEF OnWorkerReply, Types
    <2> QED BY <1>1, <1>3, <2>3 DEF OnWorkerReply, Types
<1>8. CASE \E panicked \in BOOLEAN : OnStopClassified(m, panicked)
    <2>1. /\ conditions' \in ConditionStates /\ workers' \in [Workers -> WorkerStates]
          /\ client' \in Editors
        BY <1>4, <1>5, <1>8, TellsTyped, PublishConditionStopTyped
           DEF OnStopClassified, Types
    <2> QED BY <1>1, <1>3, <1>8, <2>1 DEF OnStopClassified, Types
<1>9. CASE OnStackTrace(m)
    <2> DEFINE handle == MapFrames(m.request.client)
    <2>2. m.data \in Nat /\ m.request.client \in Requests \cup {NoRequest}
        BY <1>1 DEF Messages, Sent
    <2>3. /\ \A c \in Editors, r \in Nat, no \in Nat : [c EXCEPT !.data[r] = no] \in Editors
          /\ \A c \in Editors, h \in Revisions : [c EXCEPT !.frame = h] \in Editors
        BY DEF Editors, Revisions
    <2>4. m.request.client \in Nat
        BY <2>2, LiveAssumption DEF Requests, NoRequest
    <2>6. handle \in Revisions
        BY <1>5, <2>4 DEF MapFrames, Inspections, Revisions
    <2> HIDE DEF handle
    <2>1. inspection' \in Inspections
        BY <1>5, <1>9, <2>6 DEF OnStackTrace, Inspections, handle
    <2>5. client' \in Editors
        <3> DEFINE failed == Answer(client, {m.request.client}, "error")
                   done == Answer(client, {m.request.client}, "ok")
        <3>1. failed \in Editors /\ done \in Editors
            BY <1>5, AnswerTyped
        <3>2. client' = failed \/ client' = [[done EXCEPT !.data[m.request.client] = m.data]
                                               EXCEPT !.frame = handle]
            BY <1>9 DEF OnStackTrace, AnswerWithData, handle
        <3> HIDE DEF failed, done
        <3>3. [[done EXCEPT !.data[m.request.client] = m.data]
                   EXCEPT !.frame = handle] \in Editors
            <4> DEFINE r == m.request.client
                       no == m.data
            <4>1. no \in Nat /\ r \in Nat
                BY <2>2, <2>4
            <4> HIDE DEF r, no
            <4> DEFINE shown == [done EXCEPT !.data[r] = no]
            <4>2. shown \in Editors
                BY <2>3, <3>1, <4>1
            <4> HIDE DEF shown
            <4>3. [shown EXCEPT !.frame = handle] \in Editors
                BY <2>3, <2>6, <4>2
            <4> QED BY <4>3 DEF r, no, shown
        <3> QED BY <3>1, <3>2, <3>3
    <2> QED BY <1>1, <1>3, <1>9, <2>1, <2>5 DEF OnStackTrace, Types
<1>10. CASE OnLaunched(m)
    <2> DEFINE answered == IF session.launchAnswered THEN client
                           ELSE Answer(client, {Launch}, IF m.ok THEN "ok" ELSE "error")
               launched == [session EXCEPT !.launchAnswered = TRUE]
    <2>1. answered \in Editors /\ launched \in Flags
        BY <1>5, AnswerTyped DEF Flags
    <2>2. \/ client' = answered /\ session' = launched
          \/ client' = TellTerminated(answered) /\ session' = Finished(launched)
        BY <1>10 DEF OnLaunched
    <2> HIDE DEF answered, launched
    <2>3. client' \in Editors /\ session' \in Flags
        BY <2>1, <2>2, TellsTyped, StatesTyped, Values
    <2> QED BY <1>1, <1>3, <1>10, <2>3 DEF OnLaunched, Types
<1>11. CASE OnConfigured(m)
    BY <1>1, <1>3, <1>5, <1>11, AnswerTyped, TellsTyped, StatesTyped, Values
       DEF OnConfigured, Types
<1>12. CASE OnResumed(m)
    <2>1. session' \in Flags
        BY <1>5, <1>12 DEF OnResumed, Flags
    <2> QED BY <1>1, <1>3, <1>5, <1>12, <2>1, AnswerTyped DEF OnResumed, Types
<1>13. CASE OnPauseAnswered(m)
    <2>1. session' \in Flags
        BY <1>5, <1>13, Values DEF OnPauseAnswered, Flags
    <2> QED BY <1>1, <1>3, <1>5, <1>13, <2>1, AnswerTyped DEF OnPauseAnswered, Types
<1>14. CASE OnThreads(m)
    BY <1>1, <1>3, <1>5, <1>14, AnswerTyped DEF OnThreads, Types
<1> QED BY <1>6, <1>7, <1>8, <1>9, <1>10, <1>11, <1>12, <1>13, <1>14

LEMMA AnswersAndRaisesTyped ==
    ASSUME Types, NEW m, OnSourcesReplaced(m) \/ OnInitialize(m) \/ OnDisconnected(m)
    PROVE  Types'
<1>1. /\ m \in Messages /\ m.request \in Sent
      /\ fromAdapter' \in Seq(Messages) /\ fromClient' \in Seq(Asks \cup Eofs)
      /\ target' \in Targets
    BY MessageTyped DEF OnSourcesReplaced, OnInitialize, OnDisconnected, TakeResponse
<1>2. Settled(m) \in SUBSET Sent /\ IsFiniteSet(Settled(m))
    BY SettledTyped
<1>3. session \in Flags /\ conditions \in ConditionStates /\ client \in Editors
      /\ session.revision \in Nat /\ workers \in [Workers -> WorkerStates]
    BY DEF Types, Flags
<1>4. CASE OnSourcesReplaced(m)
    <2>1. CASE m.ok
        <3>1. m.request.kind \in KnownKinds
            BY <1>1 DEF Sent
        <3>2. conditions' \in ConditionStates
            <4>1. conditions' = [conditions EXCEPT !.updating = FALSE,
                      !.bindings = [conditions.bindings EXCEPT !["source"] = m.request.kind]]
                BY <1>4, <2>1 DEF OnSourcesReplaced
            <4>2. [conditions.bindings EXCEPT !["source"] = m.request.kind]
                      \in [{"source", "function"} -> KnownKinds]
                BY <1>3, <3>1 DEF ConditionStates
            <4> QED BY <1>3, <4>1, <4>2 DEF ConditionStates
        <3> QED BY <1>1, <1>2, <1>3, <1>4, <2>1, <3>2, AnswerTyped
                DEF OnSourcesReplaced, EnterDrain, Types, Places
    <2>2. CASE ~m.ok
        BY <1>1, <1>2, <1>3, <1>4, <2>2, AnswerTyped, RaiseTyped DEF OnSourcesReplaced
    <2> QED BY <2>1, <2>2
<1>5. CASE OnInitialize(m)
    <2>1. CASE m.ok
        <3> DEFINE p == Outgoing(FreshSeq(Settled(m)), Launch, "launch", "client", "none",
                                 NoStop, 0, session.revision)
        <3>1. p \in Sent
            <4>1. FreshSeq(Settled(m)) \in Nat /\ "none" \in KnownKinds
                  /\ Launch \in Requests /\ 0 \in Requests \cup {NoRequest}
                BY <1>2, FreshIsNew, Values DEF NoRequest, KnownKinds, Kinds
            <4> QED BY <1>3, <4>1, OutgoingTyped, Values
        <3>2. \/ pending' = Settled(m) /\ UNCHANGED toAdapter
              \/ Send(Settled(m), p)
            BY <1>5, <2>1 DEF OnInitialize
        <3> HIDE DEF p
        <3>3. pending' \in SUBSET Sent /\ IsFiniteSet(pending') /\ toAdapter' \in Seq(Sent)
            BY <1>2, <3>1, <3>2, SendTyped DEF Types
        <3> QED BY <1>1, <1>5, <2>1, <3>3 DEF OnInitialize, Types, Places
    <2>2. CASE ~m.ok
        BY <1>1, <1>2, <1>3, <1>5, <2>2, RaiseTyped DEF OnInitialize
    <2> QED BY <2>1, <2>2
<1>6. CASE OnDisconnected(m)
    <2>1. CASE m.ok
        <3>1. client' \in Editors
            BY <1>3, <1>6, <2>1, AnswerTyped, TellsTyped, Values DEF OnDisconnected
        <3>2. pending' \in SUBSET Sent /\ IsFiniteSet(pending')
            BY <1>6, <2>1, FS_EmptySet DEF OnDisconnected
        <3> QED BY <1>1, <1>3, <1>6, <2>1, <3>1, <3>2, StatesTyped
                DEF OnDisconnected, Types, Places
    <2>2. CASE ~m.ok
        BY <1>1, <1>2, <1>3, <1>6, <2>2, AnswerTyped, RaiseTyped DEF OnDisconnected
    <2> QED BY <2>1, <2>2
<1> QED BY <1>4, <1>5, <1>6

LEMMA EventTyped ==
    ASSUME Types, NEW m,
           \/ OnInitialized(m) \/ OnStopped(m) \/ OnContinued(m) \/ OnExited(m)
           \/ OnTerminated(m) \/ OnFailed(m)
    PROVE  Types'
<1>1. /\ m \in Messages /\ m.stop \in Stops
      /\ fromAdapter' \in Seq(Messages) /\ fromClient' \in Seq(Asks \cup Eofs)
      /\ target' \in Targets
    BY MessageTyped DEF OnInitialized, OnStopped, OnContinued, OnExited, OnTerminated,
       OnFailed, TakeEvent
<1>2. session \in Flags /\ conditions \in ConditionStates /\ client \in Editors
      /\ session.revision \in Nat /\ session.revision + 1 \in Nat
      /\ workers \in [Workers -> WorkerStates] /\ breakpoints \in BreakpointStates
    BY DEF Types, Flags
<1>3. AnswerStale(client) \in Editors
    BY <1>2, CancelsTyped
<1>4. CASE OnInitialized(m)
    <2>1. session' \in Flags
        BY <1>2, <1>4 DEF OnInitialized, Flags
    <2> QED BY <1>1, <1>4, <2>1 DEF OnInitialized, Types, Places
<1>5. CASE OnStopped(m)
    <2>1. CASE session.ended \/ session.exited \/ session.closing
        BY <1>1, <1>5, <2>1 DEF OnStopped, Types, Places
    <2>2. CASE ~(session.ended \/ session.exited \/ session.closing)
        <3> DEFINE cond == [conditions EXCEPT !.active = NoJob, !.suppress = FALSE,
                                !.stepping = @ \/ session.pauseRevision # None]
                   ws == Release(workers, {"inspection", "condition"})
        <3>1. cond \in ConditionStates
            BY <1>2, Values DEF ConditionStates
        <3>2. ws \in [Workers -> WorkerStates]
            BY <1>2, ReleaseTyped
        <3>3. session' = [session EXCEPT !.stopped = TRUE,
                              !.revision = session.revision + 1, !.pauseRevision = None]
            BY <1>5, <2>2 DEF OnStopped
        <3>4. session' \in Flags
            BY <1>2, <3>3, Values DEF Flags
        <3>5. /\ inspection' = NoInspection /\ at' = "loop"
              /\ \/ /\ breakpoints' = [breakpoints EXCEPT !.stops = Append(@, m.stop)]
                    /\ conditions' = cond /\ workers' = ws
                    /\ client' = AnswerStale(client)
                    /\ UNCHANGED <<pending, toAdapter>>
                 \/ /\ PublishStop(m.stop, AnswerStale(client), cond, ws,
                                   session.revision + 1)
                    /\ UNCHANGED breakpoints
            BY <1>5, <2>2 DEF OnStopped
        <3> HIDE DEF cond, ws
        <3>6. Append(breakpoints.stops, m.stop) \in Seq(Stops)
            BY <1>1, <1>2 DEF BreakpointStates
        <3>7. breakpoints' \in BreakpointStates
            BY <1>2, <3>5, <3>6 DEF BreakpointStates
        <3>8. /\ conditions' \in ConditionStates /\ workers' \in [Workers -> WorkerStates]
              /\ client' \in Editors /\ pending' \in SUBSET Sent /\ IsFiniteSet(pending')
              /\ toAdapter' \in Seq(Sent)
            <4>1. CASE PublishStop(m.stop, AnswerStale(client), cond, ws,
                                   session.revision + 1)
                BY <1>1, <1>2, <1>3, <3>1, <3>2, <4>1, PublishStopTyped
            <4> QED BY <1>3, <3>1, <3>2, <3>5, <4>1 DEF Types
        <3> QED BY <1>1, <3>4, <3>5, <3>7, <3>8, StatesTyped DEF Types, Places
    <2> QED BY <2>1, <2>2
<1>6. CASE OnContinued(m)
    <2>1. CASE session.ended \/ session.exited
        BY <1>1, <1>6, <2>1 DEF OnContinued, Types, Places
    <2>2. CASE ~(session.ended \/ session.exited)
        <3>1. session' = [session EXCEPT !.stopped = FALSE,
                                         !.revision = session.revision + 1]
            BY <1>6, <2>2 DEF OnContinued
        <3>2. session' \in Flags
            BY <1>2, <3>1 DEF Flags
        <3>3. conditions' \in ConditionStates
            BY <1>2, <1>6, <2>2 DEF OnContinued, ConditionStates
        <3>4. client' \in Editors
            BY <1>3, <1>6, <2>2, TellsTyped, Values DEF OnContinued
        <3> QED BY <1>1, <1>2, <1>6, <2>2, <3>2, <3>3, <3>4, ReleaseTyped, StatesTyped
                DEF OnContinued, Types, Places
    <2> QED BY <2>1, <2>2
<1>7. CASE OnExited(m)
    <2>1. session' = [session EXCEPT !.exited = TRUE, !.stopped = FALSE,
                          !.revision = session.revision + 1, !.pauseRevision = None]
        BY <1>7 DEF OnExited
    <2>2. session' \in Flags
        BY <1>2, <2>1, Values DEF Flags
    <2>3. client' \in Editors
        BY <1>2, <1>7, CancelsTyped, TellsTyped, Values DEF OnExited
    <2> QED BY <1>1, <1>2, <1>7, <2>2, <2>3, ReleaseTyped, StatesTyped
            DEF OnExited, Types, Places
<1>8. CASE OnTerminated(m)
    <2>1. session' \in Flags
        BY <1>2, <1>8, StatesTyped DEF OnTerminated
    <2>2. client' \in Editors
        BY <1>2, <1>8, CancelsTyped, TellsTyped, Values DEF OnTerminated
    <2> QED BY <1>1, <1>2, <1>8, <2>1, <2>2, ReleaseTyped, StatesTyped
            DEF OnTerminated, Types, Places
<1>9. CASE OnFailed(m)
    <2>1. CASE session.ended
        BY <1>1, <1>9, <2>1 DEF OnFailed, Types, Places
    <2>2. CASE ~session.ended
        BY <1>1, <1>2, <1>9, <2>2, RaiseTyped DEF OnFailed, Types
    <2> QED BY <2>1, <2>2
<1> QED BY <1>4, <1>5, <1>6, <1>7, <1>8, <1>9

LEMMA AdapterTyped == Types /\ OnAdapter => Types'
BY ResponseTyped, AnswersAndRaisesTyped, EventTyped DEF OnAdapter


-----------------------------------------------------------------------------
(* The workers and what they report.                                         *)

LEMMA WorkerTyped ==
    ASSUME Types, NEW w \in Workers, Worker(w)
    PROVE  Types'
<1>1. /\ workers[w] \in WorkerStates /\ workers[w].queue \in Seq(Orders)
      /\ workers \in [Workers -> WorkerStates] /\ workers[w].job \in Orders
    BY DEF Types, WorkerStates
<1>2. \A to \in WorkerStates : StepWorker(w, to) => Types'
    BY DEF StepWorker, Types
<1>3. CASE WorkerStart(w)
    <2> DEFINE job == Head(workers[w].queue)
               taken == [workers[w] EXCEPT !.queue = Tail(@), !.job = job]
    <2>1. job \in Orders /\ Tail(workers[w].queue) \in Seq(Orders)
        BY <1>1, <1>3, HeadTyped DEF WorkerStart
    <2>2. taken \in WorkerStates
        BY <1>1, <2>1 DEF WorkerStates
    <2>3. \A me \in WorkerStates :
              /\ [me EXCEPT !.pc = "done", !.result = "error"] \in WorkerStates
              /\ [me EXCEPT !.pc = "done", !.result = "ok"] \in WorkerStates
              /\ [me EXCEPT !.pc = "read"] \in WorkerStates
        BY DEF WorkerStates, Results
    <2>4. \/ StepWorker(w, [taken EXCEPT !.pc = "done", !.result = "error"])
          \/ StepWorker(w, [taken EXCEPT !.pc = "done", !.result = "ok"])
          \/ StepWorker(w, [taken EXCEPT !.pc = "read"])
        BY <1>3 DEF WorkerStart
    <2> HIDE DEF taken
    <2> QED BY <1>2, <2>2, <2>3, <2>4
<1>4. CASE WorkerFinish(w)
    <2>1. \A result \in Results, installed \in BOOLEAN :
              [workers[w] EXCEPT !.pc = "done", !.result = result,
                                 !.installed = installed] \in WorkerStates
        BY <1>1 DEF WorkerStates
    <2>2. workers[w].result \in Results /\ workers[w].installed \in BOOLEAN /\ "error" \in Results
        BY <1>1 DEF WorkerStates, Results
    <2>3. \E result \in Results, installed \in BOOLEAN :
              StepWorker(w, [workers[w] EXCEPT !.pc = "done", !.result = result,
                                               !.installed = installed])
        <3> DEFINE result == IF EpochHolds(w, workers[w].job) THEN workers[w].result
                             ELSE "error"
                   installed == IF workers[w].result = "ok"
                                THEN workers[w].job.kind # "none"
                                ELSE workers[w].installed
        <3>1. result \in Results /\ installed \in BOOLEAN
            BY <2>2
        <3>2. StepWorker(w, [workers[w] EXCEPT !.pc = "done", !.result = result,
                                               !.installed = installed])
            BY <1>4 DEF WorkerFinish
        <3> HIDE DEF result, installed
        <3> QED BY <3>1, <3>2
    <2> QED BY <1>2, <2>1, <2>3
<1>5. CASE WorkerTimeout(w)
    <2>1. [workers[w] EXCEPT !.pc = "done", !.seq = 0, !.result = "error"] \in WorkerStates
        BY <1>1 DEF WorkerStates, Results
    <2> QED BY <1>2, <1>5, <2>1 DEF WorkerTimeout
<1> QED BY <1>3, <1>4, <1>5 DEF Worker

LEMMA RestedTyped ==
    ASSUME Types, NEW w \in Workers
    PROVE  Rested(w) \in [Workers -> WorkerStates]
<1>1. workers[w] \in WorkerStates /\ workers \in [Workers -> WorkerStates]
    BY DEF Types
<1>2. [workers[w] EXCEPT !.pc = "idle", !.job = NoJob, !.result = "none", !.data = 0]
          \in WorkerStates
    BY <1>1, Values DEF WorkerStates, Results
<1>3. Rested(w) = [workers EXCEPT ![w] =
          [workers[w] EXCEPT !.pc = "idle", !.job = NoJob, !.result = "none", !.data = 0]]
    BY <1>1 DEF Rested
<1> QED BY <1>1, <1>2, <1>3

LEMMA ReadTyped ==
    ASSUME Types, NEW w \in Workers, OnRead(w)
    PROVE  Types'
<1>1. /\ workers[w] \in WorkerStates /\ workers[w].job \in Orders
      /\ workers \in [Workers -> WorkerStates] /\ session.revision \in Nat
    BY DEF Types, WorkerStates, Flags
<1>2. FreshSeq(pending) \in Nat
    BY FreshIsNew DEF Types
<1>3. CASE Admits(w)
    <2> DEFINE job == workers[w].job
               p == Outgoing(FreshSeq(pending), NoRequest, "work", w, job.kind, job.stop,
                             job.cause, session.revision)
    <2>1. job.kind \in KnownKinds /\ job.stop \in Stops
          /\ job.cause \in Requests \cup {NoRequest}
        BY <1>1 DEF Orders
    <2>2. p \in Sent
        BY <1>1, <1>2, <2>1, OutgoingTyped
    <2>3. Send(pending, p)
        BY <1>3 DEF OnRead
    <2>4. [workers[w] EXCEPT !.pc = "wait", !.seq = FreshSeq(pending)] \in WorkerStates
        BY <1>1, <1>2 DEF WorkerStates
    <2>5. workers' = [workers EXCEPT ![w] =
              [workers[w] EXCEPT !.pc = "wait", !.seq = FreshSeq(pending)]]
        BY <1>1, <1>3 DEF OnRead
    <2> HIDE DEF p
    <2>6. workers' \in [Workers -> WorkerStates]
        BY <1>1, <2>4, <2>5
    <2>7. pending' \in SUBSET Sent /\ IsFiniteSet(pending') /\ toAdapter' \in Seq(Sent)
        BY <2>2, <2>3, SendTyped DEF Types
    <2> QED BY <2>6, <2>7 DEF OnRead, TakeWork, Types, Places
<1>4. CASE ~Admits(w)
    <2>1. [workers[w] EXCEPT !.pc = "replied", !.result = "error"] \in WorkerStates
        BY <1>1 DEF WorkerStates, Results
    <2>2. workers' = [workers EXCEPT ![w] =
              [workers[w] EXCEPT !.pc = "replied", !.result = "error"]]
        BY <1>1, <1>4 DEF OnRead
    <2>3. workers' \in [Workers -> WorkerStates]
        BY <1>1, <2>1, <2>2
    <2> QED BY <1>4, <2>3 DEF OnRead, TakeWork, Types, Places
<1> QED BY <1>3, <1>4

LEMMA DoneTyped ==
    ASSUME Types, NEW w \in Workers, IgnoreDone(w) \/ RaiseDone(w)
    PROVE  Types'
<1>1. Rested(w) \in [Workers -> WorkerStates]
    BY RestedTyped
<1>2. CASE IgnoreDone(w)
    BY <1>1, <1>2 DEF IgnoreDone, TakeWork, Types, Places
<1>3. CASE RaiseDone(w)
    BY <1>1, <1>3, RaiseTyped DEF RaiseDone, TakeWork, Types
<1> QED BY <1>2, <1>3

LEMMA InspectDoneTyped ==
    ASSUME Types, OnInspectDone
    PROVE  Types'
<1> DEFINE me == workers["inspection"]
<1>0. me \in WorkerStates /\ "inspection" \in Workers
    BY Values DEF Types
<1>j. me.job \in Orders /\ me.data \in Nat
    BY <1>0 DEF WorkerStates
<1>c. me.job.cause \in Requests \cup {NoRequest}
    BY <1>j DEF Orders
<1>n. me.job.cause \in Nat
    BY <1>c, LiveAssumption DEF Requests, NoRequest
<1>1. /\ me \in WorkerStates /\ me.job \in Orders /\ me.data \in Nat
      /\ me.job.cause \in Nat /\ "inspection" \in Workers
    BY <1>0, <1>j, <1>n
<1>2. inspection' \in Inspections
    BY DEF OnInspectDone, Types, Inspections
<1>3. \A c \in Editors, r, no \in Nat : [c EXCEPT !.data[r] = no] \in Editors
    BY DEF Editors
<1>4. client' \in Editors
    <2> DEFINE failed == Answer(client, {me.job.cause}, "error")
               done == Answer(client, {me.job.cause}, "ok")
    <2>1. failed \in Editors /\ done \in Editors
        BY AnswerTyped DEF Types
    <2>2. \/ client' = client \/ client' = failed
          \/ client' = [done EXCEPT !.data[me.job.cause] = me.data]
        BY DEF OnInspectDone, AnswerWithData
    <2> HIDE DEF me, failed, done
    <2> QED BY <1>1, <1>3, <2>1, <2>2 DEF Types
<1>5. workers' \in [Workers -> WorkerStates]
    BY <1>1, RestedTyped DEF OnInspectDone
<1> QED BY <1>2, <1>4, <1>5 DEF OnInspectDone, TakeWork, Types, Places

LEMMA FunctionDoneTyped ==
    ASSUME Types, OnFunctionDone
    PROVE  Types'
<1>1. "function" \in Workers /\ "none" \in KnownKinds
    BY Values DEF KnownKinds, Kinds
<1>2. CASE IgnoreDone("function") \/ RaiseDone("function")
    BY <1>1, <1>2, DoneTyped
<1>3. CASE ~(IgnoreDone("function") \/ RaiseDone("function"))
    <2>1. /\ TakeWork("function", "done") /\ EnterDrain
          /\ conditions' = [conditions EXCEPT !.bindings =
                 [conditions.bindings EXCEPT !["function"] = breakpoints.requested]]
          /\ breakpoints' = [breakpoints EXCEPT !.function = NoRequest,
                                                !.requested = "none"]
          /\ client' = Answer(client, {breakpoints.function}, "ok")
          /\ workers' = Rested("function")
          /\ UNCHANGED <<session, pending, inspection, toAdapter>>
        BY <1>3 DEF OnFunctionDone
    <2>2. breakpoints' \in BreakpointStates
        BY <1>1, <2>1 DEF Types, BreakpointStates
    <2>3. breakpoints.requested \in KnownKinds
        BY DEF Types, BreakpointStates
    <2>4. [conditions.bindings EXCEPT !["function"] = breakpoints.requested]
              \in [{"source", "function"} -> KnownKinds]
        BY <2>3 DEF Types, ConditionStates
    <2>5. conditions' \in ConditionStates
        BY <2>1, <2>4 DEF Types, ConditionStates
    <2> QED BY <1>1, <2>1, <2>2, <2>5, AnswerTyped, RestedTyped
            DEF TakeWork, EnterDrain, Types, Places
<1> QED BY <1>2, <1>3

LEMMA PanicDoneTyped ==
    ASSUME Types, OnPanicDone
    PROVE  Types'
<1>1. "panic" \in Workers
    BY Values
<1>2. CASE IgnoreDone("panic") \/ RaiseDone("panic")
    BY <1>1, <1>2, DoneTyped
<1>3. CASE ~(IgnoreDone("panic") \/ RaiseDone("panic"))
    <2>1. /\ TakeWork("panic", "done") /\ EnterDrain
          /\ breakpoints' = [breakpoints EXCEPT !.panic = None, !.panicConfigured = TRUE,
                 !.panicInstalled = workers["panic"].job.kind # "none"]
          /\ client' = Answer(client, {breakpoints.panic} \cap Requests, "ok")
          /\ workers' = Rested("panic")
          /\ UNCHANGED <<session, pending, conditions, inspection, toAdapter>>
        BY <1>3 DEF OnPanicDone
    <2>2. breakpoints' \in BreakpointStates
        BY <2>1 DEF Types, BreakpointStates
    <2> QED BY <1>1, <2>1, <2>2, AnswerTyped, RestedTyped
            DEF TakeWork, EnterDrain, Types, Places
<1> QED BY <1>2, <1>3

LEMMA ConditionDoneTyped ==
    ASSUME Types, OnConditionDone
    PROVE  Types'
<1>1. /\ "condition" \in Workers /\ session.revision \in Nat
      /\ session.revision + 1 \in Nat /\ conditions.active.stop \in Stops
      /\ client \in Editors /\ conditions \in ConditionStates /\ session \in Flags
    BY Values DEF Types, Flags, ConditionStates, Orders
<1>2. CASE IgnoreDone("condition")
    BY <1>1, <1>2, DoneTyped
<1>3. CASE ~IgnoreDone("condition") /\ workers["condition"].result = "false"
    <2> DEFINE p == Outgoing(FreshSeq(pending), NoRequest, "continue",
                             "conditionContinue", "none", conditions.active.stop, 0,
                             session.revision + 1)
    <2>1. /\ TakeWork("condition", "done") /\ EnterDrain
          /\ session' = [session EXCEPT !.stopped = FALSE,
                                        !.revision = session.revision + 1]
          /\ conditions' = [conditions EXCEPT !.active = NoJob, !.suppress = TRUE]
          /\ client' = AnswerStale(client) /\ inspection' = NoInspection
          /\ workers' = Release(Rested("condition"), {"inspection", "condition"})
          /\ Send(pending, p) /\ UNCHANGED breakpoints
        BY <1>3 DEF OnConditionDone
    <2>2. p \in Sent
        <3>1. FreshSeq(pending) \in Nat /\ "none" \in KnownKinds
              /\ NoRequest \in Requests \cup {NoRequest} /\ 0 \in Requests \cup {NoRequest}
            BY FreshIsNew DEF Types, NoRequest, KnownKinds, Kinds
        <3> QED BY <1>1, <3>1, OutgoingTyped DEF AllCommands
    <2> HIDE DEF p
    <2>3. session' \in Flags
        BY <1>1, <2>1 DEF Flags
    <2>4. conditions' \in ConditionStates
        BY <1>1, <2>1, Values DEF ConditionStates
    <2>5. pending' \in SUBSET Sent /\ IsFiniteSet(pending') /\ toAdapter' \in Seq(Sent)
        BY <2>1, <2>2, SendTyped DEF Types
    <2>6. workers' \in [Workers -> WorkerStates]
        BY <1>1, <2>1, RestedTyped, ReleaseTyped
    <2> QED BY <1>1, <2>1, <2>3, <2>4, <2>5, <2>6, CancelsTyped, StatesTyped
            DEF TakeWork, EnterDrain, Types, Places
<1>4. CASE ~IgnoreDone("condition") /\ workers["condition"].result # "false"
    <2>1. /\ TakeWork("condition", "done") /\ EnterDrain
          /\ conditions' = [conditions EXCEPT !.active = NoJob]
          /\ client' = TellStopped(client, conditions.active.stop)
          /\ workers' = Rested("condition")
          /\ UNCHANGED <<session, inspection, pending, toAdapter, breakpoints>>
        BY <1>4 DEF OnConditionDone
    <2>2. conditions' \in ConditionStates
        BY <1>1, <2>1, Values DEF ConditionStates
    <2> QED BY <1>1, <2>1, <2>2, RestedTyped, TellsTyped
            DEF TakeWork, EnterDrain, Types, Places
<1> QED BY <1>2, <1>3, <1>4

LEMMA WorkTyped == Types /\ OnWork => Types'
BY ReadTyped, InspectDoneTyped, FunctionDoneTyped, PanicDoneTyped, ConditionDoneTyped
   DEF OnWork


-----------------------------------------------------------------------------
(* The loop's end, and the world around it.                                  *)

LEMMA TimeoutTyped == Types /\ Timeout => Types'
<1> SUFFICES ASSUME Types, Timeout PROVE Types'
    OBVIOUS
<1>1. CASE Raise(client, pending, workers)
    BY <1>1, RaiseTyped DEF Timeout, Types
<1>2. CASE ~Raise(client, pending, workers)
    BY <1>2 DEF Timeout, Types, Places
<1> QED BY <1>1, <1>2

LEMMA ShutdownTyped == Types /\ Shutdown => Types'
<1> SUFFICES ASSUME Types, Shutdown PROVE Types'
    OBVIOUS
<1>1. client' \in Editors
    BY TellsTyped, Values DEF Shutdown, Types
<1>2. session' \in Flags
    BY StatesTyped DEF Shutdown, Types
<1>3. target' \in Targets
    BY DEF Shutdown, Types, Targets
<1>4. ShutdownRequest \in Sent
    <2>1. FreshSeq(pending) \in Nat
        BY FreshIsNew DEF Types
    <2>2. session.revision \in Nat
        BY DEF Types, Flags
    <2> QED BY <2>1, <2>2, Values
            DEF ShutdownRequest, Outgoing, Sent, AllCommands, NoRequest, KnownKinds, Kinds
<1>5. pending' \in SUBSET Sent /\ IsFiniteSet(pending')
    BY <1>4, FS_AddElement DEF Shutdown, Types
<1>6. toAdapter' \in Seq(Sent) /\ fromAdapter' \in Seq(Messages)
    BY DEF Shutdown
<1> QED BY <1>1, <1>2, <1>3, <1>5, <1>6 DEF Shutdown, Types, Places

LEMMA ClientSendsTyped == Types /\ ClientSends => Types'
<1> SUFFICES ASSUME Types, ClientSends PROVE Types'
    OBVIOUS
<1>1. client \in Editors /\ client.next \in Requests /\ client.frame \in Revisions
    BY DEF ClientSends, Types, Editors
<1>c. PICK command \in Commands : \E kind \in KindsOf(command) :
          fromClient' = Append(fromClient, Request(client.next, command, kind))
    BY DEF ClientSends
<1>2. PICK kind \in KindsOf(command) :
          fromClient' = Append(fromClient, Request(client.next, command, kind))
    BY <1>c
<1>3. command \in AllCommands /\ kind \in Kinds
    BY LiveAssumption DEF KindsOf, Kinds
<1>4. kind = "invalid" => command \in Edits
    BY DEF KindsOf, Edits
<1>5. client.next # Launch /\ client.next + 1 \in Nat \ {0, Launch}
    BY <1>1, LiveAssumption DEF Editors, Launch, Requests
<1>6. Request(client.next, command, kind) \in Asks
    BY <1>1, <1>3, <1>4, <1>5 DEF Request, Asks
<1>7. fromClient' \in Seq(Asks \cup Eofs)
    BY <1>2, <1>6 DEF Types
<1>8. client' \in Editors
    BY <1>1, <1>5 DEF ClientSends, Editors
<1> QED BY <1>7, <1>8 DEF ClientSends, Types

LEMMA ClientLeavesTyped == Types /\ ClientLeaves => Types'
<1> SUFFICES ASSUME Types, ClientLeaves PROVE Types'
    OBVIOUS
<1>1. Request(client.next, "eof", "none") \in Eofs
    BY DEF Types, Editors, Request, Eofs
<1>2. fromClient' \in Seq(Asks \cup Eofs)
    BY <1>1 DEF ClientLeaves, Types
<1>3. client' \in Editors
    BY DEF ClientLeaves, Types, Editors
<1> QED BY <1>2, <1>3 DEF ClientLeaves, Types

\* The messages lldb-dap sends.
LEMMA MessagesTyped ==
    ASSUME Types, NEW p \in Sent, NEW ok \in BOOLEAN, NEW stop \in Stops,
           NEW value \in Results
    PROVE  /\ Message("response", p, ok, value, NoStop) \in Messages
           /\ Reply(p, ok) \in Messages
           /\ StopEvent(stop) \in Messages
           /\ \A type \in {"initialized", "continued", "exited", "terminated", "failed"} :
                 Event(type) \in Messages
<1>1. \A type \in {"response", "initialized", "stopped", "continued", "exited",
                   "terminated", "failed"}, q \in Sent, o \in BOOLEAN,
         v \in Results, s \in Stops : Message(type, q, o, v, s) \in Messages
    BY DEF Message, Messages, Types, Targets
<1>2. {"none", "ok", "error"} \subseteq Results /\ NoStop \in Stops /\ NoOutgoing \in Sent
    BY Values DEF Results
<1> QED BY <1>1, <1>2 DEF Reply, StopEvent, Event

LEMMA HandleTyped ==
    ASSUME Types, NEW p, NEW ms \in Seq(Messages), NEW t \in Targets,
           Handle(p, ms, t)
    PROVE  Types'
<1>1. fromAdapter \o ms \in Seq(Messages)
    BY DEF Types
<1>2. Tail(toAdapter) \in Seq(Sent)
    BY DEF Handle, Types
<1> QED BY <1>1, <1>2 DEF Handle, Types

LEMMA MovesTyped ==
    ASSUME Types, NEW ms \in Seq(Messages), NEW t \in Targets, TargetMoves(ms, t)
    PROVE  Types'
<1>1. fromAdapter \o ms \in Seq(Messages)
    BY DEF Types
<1> QED BY <1>1 DEF TargetMoves, Types


LEMMA LaunchesTyped ==
    ASSUME Types, NEW p \in Sent, AdapterLaunches(p) \/ AdapterRefuses(p)
    PROVE  Types'
<1> DEFINE held == [target EXCEPT !.launch = p]
           started == [target EXCEPT !.state = "running", !.launch = NoOutgoing]
<1>1. target \in Targets /\ target.launch \in Sent /\ held \in Targets /\ started \in Targets
    BY Values DEF Types, Targets
<1>2. /\ \A ok \in BOOLEAN : Reply(p, ok) \in Messages
      /\ Reply(target.launch, TRUE) \in Messages /\ Event("initialized") \in Messages
    BY <1>1, MessagesTyped, Values DEF Results
<1>3. /\ \A m \in Messages : <<m>> \in Seq(Messages)
      /\ \A m, n \in Messages : <<m, n>> \in Seq(Messages)
    OBVIOUS
<1>4. PICK ms \in Seq(Messages), t \in {target, held, started} : Handle(p, ms, t)
    <2>1. CASE AdapterRefuses(p)
        BY <1>2, <1>3, <2>1 DEF AdapterRefuses
    <2>2. CASE AdapterLaunches(p)
        <3>1. \/ Handle(p, <<Reply(p, TRUE)>>, target)
              \/ Handle(p, <<Reply(p, TRUE), Event("initialized")>>, target)
              \/ Handle(p, <<Event("initialized")>>, held)
              \/ Handle(p, <<Reply(p, TRUE)>>, started)
              \/ Handle(p, <<Reply(p, TRUE), Reply(target.launch, TRUE)>>, started)
            BY <2>2 DEF AdapterLaunches
        <3> HIDE DEF held, started
        <3> QED BY <1>2, <1>3, <3>1
    <2> QED BY <2>1, <2>2
<1> QED BY <1>1, <1>4, HandleTyped

LEMMA InstallsTyped ==
    ASSUME Types, NEW p \in Sent, Installs(p)
    PROVE  Types'
<1> DEFINE installer(seq) == IF p.kind = "none" THEN NoRequest ELSE seq
           done == [target EXCEPT !.busy = p]
           source == [done EXCEPT !.source = installer(p.client)]
           function == [done EXCEPT !.function = installer(p.cause)]
           panic == [done EXCEPT !.panic = p.kind # "none"]
<1>1. /\ installer(p.client) \in Requests \cup {NoRequest}
      /\ installer(p.cause) \in Requests \cup {NoRequest}
    BY DEF Sent
<1>2. done \in Targets
    BY DEF Types, Targets
<1>3. source \in Targets /\ function \in Targets /\ panic \in Targets
    <2> HIDE DEF installer, done
    <2> QED BY <1>1, <1>2 DEF Targets
<1>4. Handle(p, <<>>, source) \/ Handle(p, <<>>, function) \/ Handle(p, <<>>, panic)
    BY DEF Installs
<1> HIDE DEF source, function, panic
<1>5. <<>> \in Seq(Messages)
    OBVIOUS
<1> QED BY <1>3, <1>4, <1>5, HandleTyped

LEMMA InspectsTyped ==
    ASSUME Types, NEW p \in Sent, Inspects(p)
    PROVE  Types'
<1>1. PICK ok \in BOOLEAN, value \in Results :
          Handle(p, <<Message("response", p, ok, value, NoStop)>>, target)
    <2>1. {"ok", "error", "true", "false"} \subseteq Results
        BY DEF Results
    <2> QED BY <2>1 DEF Inspects, Reply
<1>2. Message("response", p, ok, value, NoStop) \in Messages
    BY MessagesTyped, Values
<1>3. <<Message("response", p, ok, value, NoStop)>> \in Seq(Messages)
    BY <1>2
<1> QED BY <1>1, <1>3, HandleTyped DEF Types

LEMMA MovingTyped ==
    ASSUME Types, NEW p \in Sent, Continues(p) \/ Halts(p) \/ Leaves(p)
    PROVE  Types'
<1> DEFINE running == [target EXCEPT !.state = "running"]
           resuming == [running EXCEPT !.busy = p]
           halted == [target EXCEPT !.state = "stopped", !.no = target.no + 1]
           gone == [target EXCEPT !.state = "gone"]
           stop == StopEvent([NoStop EXCEPT !.no = target.no + 1])
           continued == Event("continued")
           terminated == Event("terminated")
<1>t. target \in Targets /\ target.no + 1 \in Nat
    BY DEF Types, Targets
<1>r. running \in Targets
    BY <1>t DEF Targets
<1>1. /\ target \in Targets /\ running \in Targets /\ resuming \in Targets
      /\ halted \in Targets /\ gone \in Targets
    <2>1. \A u \in Targets : [u EXCEPT !.busy = p] \in Targets
        BY DEF Targets
    <2>2. halted \in Targets /\ gone \in Targets
        BY <1>t DEF Targets
    <2> QED BY <1>t, <1>r, <2>1, <2>2
<1>2. /\ \A ok \in BOOLEAN : Reply(p, ok) \in Messages
      /\ continued \in Messages /\ terminated \in Messages
    BY MessagesTyped, Values DEF Results
<1>3. stop \in Messages
    <2>1. [NoStop EXCEPT !.no = target.no + 1] \in Stops
        BY <1>1, Values DEF Stops, Targets
    <2> QED BY <2>1, MessagesTyped, Values DEF Results
<1>4. /\ <<>> \in Seq(Messages)
      /\ \A m \in Messages : <<m>> \in Seq(Messages)
      /\ \A m, n \in Messages : <<m, n>> \in Seq(Messages)
    OBVIOUS
<1>5. PICK ms \in Seq(Messages), t \in {target, running, resuming, halted, gone} :
          Handle(p, ms, t)
    <2>1. CASE Continues(p)
        <3>1. \/ Handle(p, <<>>, resuming)
              \/ Handle(p, <<continued>>, resuming)
              \/ Handle(p, <<Reply(p, TRUE), continued>>, running)
              \/ Handle(p, <<Reply(p, FALSE)>>, target)
            BY <2>1 DEF Continues
        <3> HIDE DEF running, resuming, halted, gone, continued
        <3> QED BY <1>2, <1>4, <3>1
    <2>2. CASE Halts(p)
        <3>1. \/ Handle(p, <<Reply(p, TRUE), stop>>, halted)
              \/ Handle(p, <<stop, Reply(p, TRUE)>>, halted)
              \/ \E ok \in BOOLEAN : Handle(p, <<Reply(p, ok)>>, target)
            BY <2>2 DEF Halts
        <3> HIDE DEF running, resuming, halted, gone, stop
        <3> QED BY <1>2, <1>3, <1>4, <3>1
    <2>3. CASE Leaves(p)
        <3>1. \/ Handle(p, Append(<<>>, Reply(p, TRUE)), gone)
              \/ Handle(p, Append(<<terminated>>, Reply(p, TRUE)), gone)
            BY <2>3 DEF Leaves
        <3>2. \A s \in Seq(Messages), m \in Messages : Append(s, m) \in Seq(Messages)
            OBVIOUS
        <3> HIDE DEF running, resuming, halted, gone, terminated
        <3> QED BY <1>2, <1>4, <3>1, <3>2
    <2> QED BY <2>1, <2>2, <2>3
<1> QED BY <1>1, <1>5, HandleTyped

LEMMA LldbTyped == Types /\ Adapter => Types'
<1> SUFFICES ASSUME Types, Adapter PROVE Types'
    OBVIOUS
<1>1. Head(toAdapter) \in Sent
    BY DEF Adapter, Types
<1> QED BY <1>1, LaunchesTyped, InstallsTyped, InspectsTyped, MovingTyped DEF Adapter


LEMMA TargetTyped ==
    ASSUME Types, AdapterAnswers \/ TargetStops \/ TargetExits \/ Crash
    PROVE  Types'
<1> DEFINE stopped == [target EXCEPT !.state = "stopped", !.no = target.no + 1]
           gone == [target EXCEPT !.state = "gone"]
           dead == [target EXCEPT !.state = "gone", !.alive = FALSE]
           settled == [target EXCEPT !.busy = NoOutgoing]
<1>1. target \in Targets /\ target.no + 1 \in Nat /\ target.busy \in Sent
    BY DEF Types, Targets
<1>2. stopped \in Targets /\ gone \in Targets /\ dead \in Targets /\ settled \in Targets
    BY <1>1, Values DEF Targets
<1>3. /\ \A m \in Messages : <<m>> \in Seq(Messages)
      /\ \A m, n \in Messages : <<m, n>> \in Seq(Messages)
    OBVIOUS
<1>4. /\ Reply(target.busy, TRUE) \in Messages /\ Event("exited") \in Messages
      /\ Event("terminated") \in Messages /\ Event("failed") \in Messages
    BY <1>1, MessagesTyped, Values DEF Results
<1>5. PICK ms \in Seq(Messages), t \in {stopped, gone, dead, settled} : TargetMoves(ms, t)
    <2>1. CASE AdapterAnswers
        BY <1>3, <1>4, <2>1 DEF AdapterAnswers
    <2>2. CASE TargetExits
        BY <1>3, <1>4, <2>2 DEF TargetExits
    <2>3. CASE Crash
        BY <1>3, <1>4, <2>3 DEF Crash
    <2>4. CASE TargetStops
        <3> DEFINE Stop(ids, holds) == StopEvent(StopsAt(ids, holds))
                   Hit == {i \in SUBSET HitKinds : i \subseteq Installed}
        <3>1. \E i, j \in Hit : \E h, k \in BOOLEAN :
                  \/ TargetMoves(<<Stop(i, h)>>, stopped)
                  \/ TargetMoves(<<Stop(i, h), Stop(j, k)>>, stopped)
            <4>1. HitSets \subseteq SUBSET HitKinds
                BY LiveAssumption
            <4>2. \A ids : (IF ids = {} THEN {FALSE} ELSE BOOLEAN) \subseteq BOOLEAN
                OBVIOUS
            <4> HIDE DEF stopped
            <4> QED BY <2>4, <4>1, <4>2 DEF TargetStops, stopped
        <3>2. ASSUME NEW i \in Hit, NEW h \in BOOLEAN
              PROVE  Stop(i, h) \in Messages
            <4>1. InstallersOf(i) \subseteq Requests
                BY <1>1 DEF InstallersOf, Installed, Targets, HitKinds
            <4>2. StopsAt(i, h) \in Stops
                BY <1>1, <4>1 DEF StopsAt, Stops
            <4> QED BY <4>2, MessagesTyped, Values DEF Results
        <3> HIDE DEF Stop, Hit, stopped, gone, dead, settled
        <3> QED BY <1>3, <3>1, <3>2
    <2> QED BY <2>1, <2>2, <2>3, <2>4 DEF AdapterAnswers
<1> QED BY <1>2, <1>5, MovesTyped

LEMMA InitTypes == Init => Types
<1> SUFFICES ASSUME Init PROVE Types
    OBVIOUS
<1> DEFINE hello == Outgoing(1, NoRequest, "initialize", "client", "none",
                             NoStop, 0, 0)
<1>1. hello \in Sent
    BY OutgoingTyped, Values
       DEF NoRequest, Workers, AllCommands, KnownKinds, Kinds
<1>2. pending \in SUBSET Sent /\ IsFiniteSet(pending) /\ toAdapter \in Seq(Sent)
    <2>1. IsFiniteSet({}) /\ IsFiniteSet({hello})
        BY FS_EmptySet, FS_Singleton
    <2>2. \/ pending = {} /\ toAdapter = <<>>
          \/ pending = {hello} /\ toAdapter = <<hello>>
        BY DEF Init
    <2>3. <<hello>> \in Seq(Sent) /\ <<>> \in Seq(Sent)
        BY <1>1
    <2> HIDE DEF hello
    <2>4. CASE pending = {} /\ toAdapter = <<>>
        BY <2>1, <2>3, <2>4
    <2>5. CASE pending = {hello} /\ toAdapter = <<hello>>
        BY <1>1, <2>1, <2>3, <2>5
    <2> QED BY <2>2, <2>4, <2>5
<1>3. at \in Places /\ session \in Flags
    BY Values DEF Init, Places, FlagsAtLaunch, Flags
<1>4. breakpoints \in BreakpointStates /\ conditions \in ConditionStates
    <2>1. "none" \in KnownKinds /\ <<>> \in Seq(Asks) /\ <<>> \in Seq(Stops)
        BY DEF KnownKinds, Kinds
    <2>2. StartRunning \in BOOLEAN
        BY LiveAssumption
    <2> QED BY <2>1, <2>2, Values DEF Init, BreakpointStates, ConditionStates
<1>5. inspection \in Inspections
    BY Values DEF Init, Inspections
<1>6. workers \in [Workers -> WorkerStates]
    BY Values DEF Init, WorkerStates, Results
<1>7. client \in Editors
    <2>1. /\ client.answers \in [Requests -> Nat]
          /\ client.outcome \in [Requests -> Outcomes]
          /\ client.data \in [Requests -> Nat]
        BY DEF Init, Outcomes
    <2>2. client.next \in Nat \ {0, Launch}
        BY DEF Init, Launch
    <2> QED BY <2>1, <2>2, Values DEF Init, Editors, NoRequest
<1>8. fromClient \in Seq(Asks \cup Eofs) /\ fromAdapter \in Seq(Messages)
    BY DEF Init
<1>9. target \in Targets
    BY Values DEF Init, Targets, NoRequest
<1> QED BY <1>2, <1>3, <1>4, <1>5, <1>6, <1>7, <1>8, <1>9 DEF Types

LEMMA TypesInductive == Types /\ [Next]_vars => Types'
<1> SUFFICES ASSUME Types, [Next]_vars PROVE Types'
    OBVIOUS
<1>1. CASE UNCHANGED vars
    BY <1>1 DEF vars, Types
<1>2. CASE Next
    BY <1>2, ClientTyped, AdapterTyped, WorkTyped, DrainTyped, TimeoutTyped,
       ShutdownTyped, WorkerTyped, ClientSendsTyped, ClientLeavesTyped, LldbTyped,
       TargetTyped DEF Next
<1> QED BY <1>1, <1>2

LEMMA TypesHold == Spec => []Types
BY InitTypes, TypesInductive, PTL DEF Spec

\* Every variable of the live session keeps its type, whatever the editor sends,
\* lldb-dap answers and fails, and however often the target stops.
THEOREM TypeCorrect == Spec => []TypeOK
<1>1. Types => TypeOK
    <2> SUFFICES ASSUME Types PROVE TypeOK
        OBVIOUS
    <2>1. Orders \subseteq Jobs /\ Sent \subseteq Outgoings
        BY DEF Orders, Jobs, Sent, Outgoings, KnownKinds, Revisions
    <2>2. Asks \cup Eofs \subseteq RequestRecords
        BY LiveAssumption DEF Asks, Eofs, RequestRecords, Revisions, Kinds, Requests
    <2>3. pending \subseteq Outgoings /\ inspection.waiting \subseteq Jobs
          /\ conditions.active \in Jobs
        BY <2>1 DEF Types, Inspections, ConditionStates
    <2>4. fromClient \in Seq(RequestRecords) /\ toAdapter \in Seq(Outgoings)
        BY <2>1, <2>2 DEF Types
    <2>5. ASSUME NEW w \in Workers
          PROVE  /\ workers[w].pc \in {"idle", "read", "wait", "replied", "done"}
                 /\ workers[w].job \in Jobs /\ workers[w].queue \in Seq(Jobs)
                 /\ workers[w].result \in Results
        <3>1. workers[w] \in WorkerStates
            BY DEF Types
        <3> QED BY <2>1, <3>1 DEF WorkerStates
    <2>6. /\ breakpoints.function \in Requests \cup {NoRequest}
          /\ breakpoints.requested \in Kinds \ {"invalid"}
          /\ breakpoints.panic \in Requests \cup {0, None}
          /\ breakpoints.stops \in Seq(Stops)
        BY DEF Types, BreakpointStates, Others, KnownKinds
    <2>7. breakpoints.deferred \in Seq(RequestRecords)
        BY <2>2 DEF Types, BreakpointStates
    <2> QED BY <2>3, <2>4, <2>5, <2>6, <2>7
            DEF Types, TypeOK, Flags, Revisions, ConditionStates, KnownKinds, Editors,
                Targets
<1> QED BY <1>1, TypesHold, PTL

-----------------------------------------------------------------------------
(* One `terminated`, and silence after disconnect.                           *)

\* The editor has heard `terminated` when and only when the session has ended.
Ends == /\ client.terminated = IF session.ended THEN 1 ELSE 0
        /\ at = "over" => session.ended

\* Jobs that read at a stop were issued for one.
Dated(ws) ==
    \A w \in {"inspection", "condition"} :
        /\ \A i \in 1 .. Len(ws[w].queue) : ws[w].queue[i].epoch # None
        /\ ws[w].pc # "idle" => ws[w].job.epoch # None

\* Disconnect leaves nothing held back that could be sent later.
Closed == session.closing => /\ at # "drain"
                             /\ breakpoints.stops = <<>>
                             /\ breakpoints.deferred = <<>>

SafetyInv == Types /\ Ends /\ Dated(workers) /\ Closed

\* What most steps do: the session does not end, and closing stays as it is.
GoesOn == /\ client'.terminated = client.terminated
          /\ session'.ended = session.ended
          /\ session'.closing = session.closing
          /\ at' # "over"
\* What is held back stays held back, or goes.
HoldsNoMore ==
    /\ at' \in {"loop", "shutdown"}
    /\ breakpoints'.stops \in {breakpoints.stops, <<>>}
    /\ breakpoints'.deferred \in {breakpoints.deferred, <<>>}
Silent == session.closing => pending' \subseteq pending

LEMMA Kept ==
    ASSUME NEW c \in Editors
    PROVE  /\ \A S, o : Answer(c, S, o).terminated = c.terminated
           /\ \A stop : TellStopped(c, stop).terminated = c.terminated
           /\ TellContinued(c).terminated = c.terminated
           /\ TellExited(c).terminated = c.terminated
BY DEF Answer, TellStopped, TellContinued, TellExited, Editors

LEMMA CancelsKept ==
    ASSUME NEW c \in Editors
    PROVE  /\ AnswerCancelled(c).terminated = c.terminated
           /\ AnswerStale(c).terminated = c.terminated
           /\ CancelLaunch(c).terminated = c.terminated
BY Kept, AnswerTyped DEF AnswerCancelled, AnswerStale, CancelLaunch

LEMMA ReleaseDated ==
    ASSUME NEW ws \in [Workers -> WorkerStates], NEW S, Dated(ws)
    PROVE  Dated(Release(ws, S))
<1> SUFFICES ASSUME NEW w \in {"inspection", "condition"}
             PROVE  /\ \A i \in 1 .. Len(Release(ws, S)[w].queue) :
                           Release(ws, S)[w].queue[i].epoch # None
                    /\ Release(ws, S)[w].pc # "idle" => Release(ws, S)[w].job.epoch # None
    BY DEF Dated
<1>1. w \in Workers /\ ws[w] \in WorkerStates
    BY Values
<1>2. /\ Release(ws, S)[w].queue = ws[w].queue
      /\ Release(ws, S)[w].job = ws[w].job
      /\ Release(ws, S)[w].pc # "idle" => ws[w].pc # "idle"
    BY <1>1 DEF Release, WorkerStates
<1> QED BY <1>2 DEF Dated

LEMMA EnqueueDated ==
    ASSUME NEW ws \in [Workers -> WorkerStates], NEW w \in Workers, NEW job \in Orders,
           Dated(ws), w \in {"function", "panic"} \/ job.epoch # None
    PROVE  Dated(Enqueue(ws, w, job))
<1> SUFFICES ASSUME NEW v \in {"inspection", "condition"}
             PROVE  /\ \A i \in 1 .. Len(Enqueue(ws, w, job)[v].queue) :
                           Enqueue(ws, w, job)[v].queue[i].epoch # None
                    /\ Enqueue(ws, w, job)[v].pc # "idle"
                          => Enqueue(ws, w, job)[v].job.epoch # None
    BY DEF Dated
<1>1. /\ v \in Workers /\ ws[v] \in WorkerStates /\ ws[v].queue \in Seq(Orders)
      /\ ws[v].pc # "idle" => ws[v].job.epoch # None
      /\ \A i \in 1 .. Len(ws[v].queue) : ws[v].queue[i].epoch # None
    BY Values DEF WorkerStates, Dated
<1>2. CASE v # w
    BY <1>1, <1>2 DEF Enqueue
<1>3. CASE v = w
    <2>1. job.epoch # None
        BY <1>3
    <2>2. /\ Enqueue(ws, w, job)[v].queue = Append(ws[v].queue, job)
          /\ Enqueue(ws, w, job)[v].pc = ws[v].pc
          /\ Enqueue(ws, w, job)[v].job = ws[v].job
        BY <1>1, <1>3 DEF Enqueue, WorkerStates
    <2>3. \A i \in 1 .. Len(Append(ws[v].queue, job)) :
              Append(ws[v].queue, job)[i].epoch # None
        BY <1>1, <2>1
    <2> QED BY <1>1, <2>2, <2>3
<1> QED BY <1>2, <1>3

LEMMA RestedDated ==
    ASSUME SafetyInv, NEW w \in Workers
    PROVE  Dated(Rested(w))
<1>1. /\ "inspection" \in Workers /\ "condition" \in Workers
      /\ workers \in [Workers -> WorkerStates]
    BY Values DEF SafetyInv, Types
<1>2. \A v \in Workers : workers[v] \in WorkerStates
    BY <1>1
<1>3. \A v \in Workers : /\ Rested(w)[v].queue = workers[v].queue
                         /\ Rested(w)[v].pc # "idle" => v # w
                         /\ v # w => Rested(w)[v] = workers[v]
    BY <1>1, <1>2 DEF Rested, WorkerStates
<1> QED BY <1>1, <1>3 DEF SafetyInv, Dated

\* A step that goes on and holds nothing new keeps the invariant.
LEMMA GoingOn ==
    ASSUME SafetyInv, GoesOn, HoldsNoMore
    PROVE  Ends' /\ Closed'
BY DEF SafetyInv, Ends, Closed, GoesOn, HoldsNoMore

LEMMA RaiseGoesOn ==
    ASSUME SafetyInv, NEW c \in Editors, c.terminated = client.terminated,
           NEW ps \in SUBSET pending,
           NEW ws \in [Workers -> WorkerStates], Dated(ws), Raise(c, ps, ws)
    PROVE  GoesOn /\ HoldsNoMore /\ Silent /\ Dated(workers')
<1>1. client'.terminated = client.terminated
    BY Kept, CancelsKept, CancelsTyped, AnswerTyped DEF Raise
<1>2. session'.ended = session.ended /\ session'.closing = session.closing
    BY DEF Raise, SafetyInv, Types, Flags
<1>3. HoldsNoMore
    BY DEF Raise, HoldsNoMore, CancelledWork, SafetyInv, Types, BreakpointStates
<1>4. Dated(workers')
    BY ReleaseDated DEF Raise
<1> QED BY <1>1, <1>2, <1>3, <1>4 DEF Raise, GoesOn, Silent

LEMMA PublishConditionStopGoesOn ==
    ASSUME NEW stop \in Stops, NEW c \in Editors, NEW cond,
           NEW ws \in [Workers -> WorkerStates], NEW revision \in Nat, Dated(ws),
           PublishConditionStop(stop, c, cond, ws, revision)
    PROVE  client'.terminated = c.terminated /\ Dated(workers')
<1>1. ConditionJob(stop, revision) \in Orders /\ ConditionJob(stop, revision).epoch # None
    <2>1. ConditionJob(stop, revision) \in Orders
        BY Values DEF ConditionJob, Orders, Revisions
    <2>2. ConditionJob(stop, revision).epoch = revision
        BY Values DEF ConditionJob, Orders
    <2>3. revision # None
        BY DEF None
    <2> QED BY <2>1, <2>2, <2>3
<1>2. "condition" \in Workers
    BY Values
<1> QED BY <1>1, <1>2, Kept, EnqueueDated DEF PublishConditionStop

LEMMA PublishStopGoesOn ==
    ASSUME NEW stop \in Stops, NEW c \in Editors, NEW cond,
           NEW ws \in [Workers -> WorkerStates], NEW revision \in Nat, Dated(ws),
           PublishStop(stop, c, cond, ws, revision)
    PROVE  client'.terminated = c.terminated /\ Dated(workers')
BY PublishConditionStopGoesOn DEF PublishStop


\* A step that does not close and is taken while the session is open.
LEMMA OpenGoesOn ==
    ASSUME SafetyInv, GoesOn, ~session.closing
    PROVE  Ends' /\ Closed' /\ Silent
BY DEF SafetyInv, Ends, Closed, GoesOn, Silent

LEMMA PerformGoesOn ==
    ASSUME SafetyInv, NEW req \in Asks, NEW b \in BreakpointStates, Perform(req, b),
           at' # "over"
    PROVE  GoesOn /\ Dated(workers')
<1>0. /\ session \in Flags /\ client \in Editors /\ workers \in [Workers -> WorkerStates]
      /\ Dated(workers)
      /\ {"inspection", "function", "panic", "condition"} \subseteq Workers
      /\ req.seq \in Requests
    BY Values DEF SafetyInv, Types, Asks
<1>1. ASSUME NEW o, ReplyAtOnce(req, o, b)
      PROVE  GoesOn /\ Dated(workers')
    BY <1>0, <1>1, Kept DEF ReplyAtOnce, GoesOn
<1>2. ASSUME UNCHANGED <<session, client, workers>>
      PROVE  GoesOn /\ Dated(workers')
    BY <1>0, <1>2 DEF GoesOn
<1>3. ASSUME NEW w \in {"function", "panic"}, NEW job \in Orders,
             workers' = Enqueue(workers, w, job)
      PROVE  Dated(workers')
    BY <1>0, <1>3, EnqueueDated
<1>4. CASE Refused(req) /\ ReplyAtOnce(req, "error", b)
    BY <1>1, <1>4
<1>5. CASE ReplaceFunctions(req, b) \/ ReplacePanic(req, b)
    <2>1. req.kind \in KnownKinds
        BY <1>5 DEF ReplaceFunctions, ReplacePanic, Valid, Asks, KnownKinds
    <2>2. [NoJob EXCEPT !.cause = req.seq, !.kind = req.kind] \in Orders
        BY <1>0, <2>1, Values DEF Orders
    <2>3. UNCHANGED <<session, client>>
        BY <1>5 DEF ReplaceFunctions, ReplacePanic
    <2> QED BY <1>3, <1>5, <2>2, <2>3 DEF ReplaceFunctions, ReplacePanic, GoesOn
<1>6. CASE ReplaceSources(req, b) \/ StackTrace(req, b)
    BY <1>2, <1>6 DEF ReplaceSources, StackTrace
<1>7. CASE ConfigurationDone(req, b)
    <2>1. [NoJob EXCEPT !.kind = "plain"] \in Orders
        BY Values DEF Orders, KnownKinds, Kinds
    <2>2. /\ session' = session \/ session' = [session EXCEPT !.configured = TRUE]
          /\ client' = client
          /\ \/ workers' = workers
             \/ workers' = Enqueue(workers, "panic", [NoJob EXCEPT !.kind = "plain"])
        BY <1>7 DEF ConfigurationDone
    <2>3. session'.ended = session.ended /\ session'.closing = session.closing
        BY <1>0, <2>2 DEF Flags
    <2> QED BY <1>0, <1>3, <2>1, <2>2, <2>3 DEF GoesOn
<1>8. CASE Threads(req, b)
    BY <1>1, <1>2, <1>8 DEF Threads
<1>9. CASE Variables(req, b)
    <2> DEFINE job == [NoJob EXCEPT !.cause = req.seq, !.epoch = InspectionEpoch,
                                    !.frame = req.frame]
    <2>1. InspectionEpoch \in Revisions /\ req.frame \in Revisions
        BY <1>0 DEF InspectionEpoch, Flags, Revisions, Asks
    <2>2. job \in Orders /\ job.epoch = InspectionEpoch
        BY <1>0, <2>1, Values DEF Orders
    <2>3. InspectionEpoch # None /\ workers' = Enqueue(workers, "inspection", job)
          /\ UNCHANGED <<session, client>>
        BY <1>9 DEF Variables
    <2> HIDE DEF job
    <2> QED BY <1>0, <2>2, <2>3, EnqueueDated DEF GoesOn
<1>10. CASE Resume(req, b)
    <2>1. /\ session' = [session EXCEPT !.stopped = FALSE,
                                        !.revision = session.revision + 1]
          /\ client' = [AnswerStale(client) EXCEPT !.view = "running",
                                                   !.resume = req.seq]
          /\ workers' = Release(workers, {"inspection", "condition"})
        BY <1>10 DEF Resume
    <2>2. session'.ended = session.ended /\ session'.closing = session.closing
        BY <1>0, <2>1 DEF Flags
    <2>3. client'.terminated = AnswerStale(client).terminated
        BY <1>0, <2>1, CancelsTyped DEF Editors
    <2> QED BY <1>0, <2>1, <2>2, <2>3, CancelsKept, ReleaseDated DEF GoesOn
<1>11. CASE Pause(req, b)
    <2>1. session' = [session EXCEPT !.pauseRevision = session.revision]
          /\ UNCHANGED <<workers, client>>
        BY <1>11 DEF Pause
    <2>2. session'.ended = session.ended /\ session'.closing = session.closing
        BY <1>0, <2>1 DEF Flags
    <2> QED BY <1>0, <2>1, <2>2 DEF GoesOn
<1> QED BY <1>4, <1>5, <1>6, <1>7, <1>8, <1>9, <1>10, <1>11 DEF Perform

LEMMA ClientSafe ==
    ASSUME SafetyInv, OnClient
    PROVE  Ends' /\ Closed' /\ Dated(workers') /\ Silent
<1> SUFFICES ASSUME NEW req, req = Head(fromClient), fromClient # <<>>,
                    \/ DeferRequest(req) \/ InterruptCondition(req)
                    \/ PerformRequest(req) \/ Disconnect(req)
                    \/ RefuseWhileClosing(req) \/ ClientEof(req)
             PROVE  Ends' /\ Closed' /\ Dated(workers') /\ Silent
    BY DEF OnClient
<1>1. /\ req \in Asks \cup Eofs
      /\ req.command # "eof" => req \in Asks
    BY HeadTyped DEF SafetyInv, Types, Eofs
<1>2. /\ session \in Flags /\ client \in Editors /\ workers \in [Workers -> WorkerStates]
      /\ breakpoints \in BreakpointStates /\ Dated(workers)
    BY DEF SafetyInv, Types
<1>3. CASE DeferRequest(req)
    <2>1. GoesOn /\ Dated(workers')
        BY <1>2, <1>3, Kept DEF DeferRequest, ReplyAtOnce, GoesOn
    <2> QED BY <1>3, <2>1, OpenGoesOn DEF DeferRequest
<1>4. CASE InterruptCondition(req)
    <2>1. session' = [session EXCEPT !.revision = session.revision + 1]
          /\ ~session.closing /\ workers' = workers /\ at' # "over"
          /\ client' = TellStopped(Answer(client, {req.seq}, "ok"),
                                   conditions.active.stop)
        BY <1>4 DEF InterruptCondition, EnterDrain
    <2>2. session'.ended = session.ended /\ session'.closing = session.closing
        BY <1>2, <2>1 DEF Flags
    <2>3. client'.terminated = client.terminated
        BY <1>2, <2>1, Kept, AnswerTyped
    <2> QED BY <1>2, <2>1, <2>2, <2>3, OpenGoesOn DEF GoesOn
<1>5. CASE PerformRequest(req)
    <2>1. at' # "over" /\ ~session.closing /\ req \in Asks /\ Perform(req, breakpoints)
        BY <1>1, <1>5 DEF PerformRequest
    <2> QED BY <1>2, <2>1, PerformGoesOn, OpenGoesOn
<1>6. CASE Disconnect(req)
    <2>1. /\ session' = [session EXCEPT !.closing = TRUE, !.launchAnswered = TRUE]
          /\ client' = CancelLaunch(AnswerStale(AnswerCancelled(client)))
          /\ breakpoints' = CancelledWork /\ workers' = Release(workers, Workers)
          /\ at' = "loop" /\ ~session.closing
        BY <1>6 DEF Disconnect
    <2>2. session'.ended = session.ended
        BY <1>2, <2>1 DEF Flags
    <2>3. client'.terminated = client.terminated
        BY <1>2, <2>1, CancelsKept, CancelsTyped
    <2>4. breakpoints'.stops = <<>> /\ breakpoints'.deferred = <<>>
        BY <1>2, <2>1 DEF CancelledWork, BreakpointStates
    <2> QED BY <1>2, <2>1, <2>2, <2>3, <2>4, ReleaseDated
            DEF SafetyInv, Ends, Closed, Silent
<1>7. CASE RefuseWhileClosing(req) \/ ClientEof(req)
    <2>1. GoesOn /\ HoldsNoMore /\ Dated(workers') /\ pending' = pending
        BY <1>2, <1>7, Kept DEF RefuseWhileClosing, ReplyAtOnce, ClientEof, GoesOn,
           HoldsNoMore
    <2> QED BY <2>1, GoingOn DEF Silent
<1> QED BY <1>3, <1>4, <1>5, <1>6, <1>7

LEMMA DrainSafe ==
    ASSUME SafetyInv, DrainStop \/ DrainRequest
    PROVE  Ends' /\ Closed' /\ Dated(workers') /\ Silent
<1>0. /\ session \in Flags /\ client \in Editors /\ workers \in [Workers -> WorkerStates]
      /\ breakpoints \in BreakpointStates /\ Dated(workers)
      /\ breakpoints.deferred \in Seq(Asks) /\ breakpoints.stops \in Seq(Stops)
    BY DEF SafetyInv, Types, BreakpointStates
<1>1. ~session.closing /\ at' # "over"
    BY DEF DrainStop, DrainRequest, KeepDraining, SafetyInv, Closed
<1>2. CASE DrainStop
    <2>1. Head(breakpoints.stops) \in Stops /\ session.revision \in Nat
        BY <1>0, <1>2, HeadTyped DEF DrainStop, Flags
    <2>2. PublishStop(Head(breakpoints.stops), client, conditions, workers,
                      session.revision)
          /\ session' = session
        BY <1>2 DEF DrainStop
    <2>3. GoesOn /\ Dated(workers')
        BY <1>0, <1>1, <2>1, <2>2, PublishStopGoesOn DEF GoesOn
    <2> QED BY <1>1, <2>3, OpenGoesOn
<1>3. CASE DrainRequest
    <2>1. Head(breakpoints.deferred) \in Asks /\ Tail(breakpoints.deferred) \in Seq(Asks)
        BY <1>0, <1>3, HeadTyped DEF DrainRequest
    <2>2. [breakpoints EXCEPT !.deferred = Tail(@)] \in BreakpointStates
        BY <1>0, <2>1 DEF BreakpointStates
    <2>3. GoesOn /\ Dated(workers')
        BY <1>1, <1>3, <2>1, <2>2, PerformGoesOn DEF DrainRequest
    <2> QED BY <1>1, <2>3, OpenGoesOn
<1> QED BY <1>2, <1>3


\* A step that ends the session tells the editor, unless it was told before.
LEMMA Finishing ==
    ASSUME SafetyInv, NEW c \in Editors, c.terminated = client.terminated,
           client' = TellTerminated(c), session'.ended = TRUE,
           session'.closing = session.closing,
           at' \in {"loop", "shutdown", "closed", "over"},
           breakpoints'.stops \in {breakpoints.stops, <<>>},
           breakpoints'.deferred \in {breakpoints.deferred, <<>>}
    PROVE  Ends' /\ Closed'
<1>1. client.terminated \in Nat
    BY DEF SafetyInv, Types, Editors
<1>2. TellExited(c) \in Editors /\ TellExited(c).terminated = c.terminated
    BY Kept, TellsTyped, Values
<1>3. client'.terminated = IF session.ended THEN c.terminated ELSE c.terminated + 1
    <2>1. [TellExited(c) EXCEPT !.terminated = @ + 1].terminated
              = TellExited(c).terminated + 1
        BY <1>2 DEF Editors
    <2> QED BY <1>2, <2>1 DEF TellTerminated
<1> QED BY <1>1, <1>3 DEF SafetyInv, Ends, Closed

\* Leaving through the drain while closing is leaving at once.
LEMMA Draining ==
    ASSUME SafetyInv, GoesOn, EnterDrain,
           breakpoints'.stops = breakpoints.stops,
           breakpoints'.deferred = breakpoints.deferred
    PROVE  Ends' /\ Closed'
BY DEF SafetyInv, Ends, Closed, GoesOn, EnterDrain

LEMMA ResponseSafe ==
    ASSUME SafetyInv, NEW m,
           \/ OnConditionContinued(m) \/ \E w \in Workers : OnWorkerReply(m, w)
           \/ \E panicked \in BOOLEAN : OnStopClassified(m, panicked)
           \/ OnStackTrace(m) \/ OnLaunched(m) \/ OnConfigured(m) \/ OnResumed(m)
           \/ OnPauseAnswered(m) \/ OnThreads(m)
    PROVE  Ends' /\ Closed' /\ Dated(workers') /\ Silent
<1>1. /\ m \in Messages /\ m.request \in Sent /\ m.request.stop \in Stops
      /\ m.request.client \in Requests \cup {NoRequest}
    <2>1. TakeMessage(m)
        BY DEF OnConditionContinued, OnWorkerReply, OnStopClassified, OnStackTrace,
           OnLaunched, OnConfigured, OnResumed, OnPauseAnswered, OnThreads, TakeResponse
    <2>2. m \in Messages /\ m.request \in Sent
        BY <2>1, MessageTyped DEF SafetyInv
    <2> QED BY <2>2 DEF Sent
<1>2. /\ session \in Flags /\ client \in Editors /\ workers \in [Workers -> WorkerStates]
      /\ breakpoints \in BreakpointStates /\ Dated(workers)
    BY DEF SafetyInv, Types
<1>3. /\ pending' = Settled(m) /\ at' = "loop" /\ breakpoints' = breakpoints
      /\ HoldsNoMore /\ Silent
    <2>1. pending' = Settled(m) /\ at' = "loop" /\ breakpoints' = breakpoints
        BY DEF OnConditionContinued, OnWorkerReply, OnStopClassified, OnStackTrace,
           OnLaunched, OnConfigured, OnResumed, OnPauseAnswered, OnThreads
    <2> QED BY <2>1 DEF HoldsNoMore, Silent, Settled
<1>4. ASSUME GoesOn PROVE Ends' /\ Closed' /\ Silent
    BY <1>3, <1>4, GoingOn
<1>5. CASE OnConditionContinued(m)
    <2>1. /\ session' = session \/ session' = [session EXCEPT !.stopped = TRUE]
          /\ client' = client \/ client' = TellStopped(client, m.request.stop)
          /\ workers' = workers
        BY <1>5 DEF OnConditionContinued
    <2>2. session'.ended = session.ended /\ session'.closing = session.closing
        BY <1>2, <2>1 DEF Flags
    <2> QED BY <1>2, <1>3, <1>4, <2>1, <2>2, Kept DEF GoesOn
<1>6. ASSUME NEW w \in Workers, OnWorkerReply(m, w)
      PROVE  Ends' /\ Closed' /\ Dated(workers') /\ Silent
    <2>1. UNCHANGED <<session, client>>
        BY <1>6 DEF OnWorkerReply
    <2>2. \/ workers' = workers
          \/ /\ workers[w].pc = "wait"
             /\ workers' = [workers EXCEPT ![w] = [workers[w] EXCEPT
                   !.pc = "replied", !.seq = 0, !.result = m.value, !.data = m.data]]
        BY <1>6 DEF OnWorkerReply
    <2>3. Dated(workers')
        <3> SUFFICES ASSUME NEW v \in {"inspection", "condition"}
                     PROVE  /\ workers'[v].queue = workers[v].queue
                            /\ workers'[v].job = workers[v].job
                            /\ workers'[v].pc # "idle" => workers[v].pc # "idle"
            BY <1>2 DEF Dated
        <3>1. v \in Workers /\ workers[v] \in WorkerStates
            BY <1>2, Values
        <3>2. \/ workers'[v] = workers[v]
              \/ /\ v = w /\ workers[v].pc = "wait"
                 /\ workers'[v] = [workers[v] EXCEPT
                       !.pc = "replied", !.seq = 0, !.result = m.value, !.data = m.data]
            BY <1>2, <2>2, <3>1
        <3> QED BY <3>1, <3>2 DEF WorkerStates
    <2> QED BY <1>3, <1>4, <2>1, <2>3 DEF GoesOn
<1>7. ASSUME NEW panicked \in BOOLEAN, OnStopClassified(m, panicked)
      PROVE  Ends' /\ Closed' /\ Dated(workers') /\ Silent
    <2>1. /\ session' = session
          /\ \/ UNCHANGED <<client, workers>>
             \/ client' = TellStopped(client, m.request.stop) /\ workers' = workers
             \/ PublishConditionStop(m.request.stop, client, conditions, workers,
                                     session.revision)
        BY <1>7 DEF OnStopClassified
    <2>2. session.revision \in Nat
        BY <1>2 DEF Flags
    <2>3. client'.terminated = client.terminated /\ Dated(workers')
        BY <1>1, <1>2, <2>1, <2>2, Kept, PublishConditionStopGoesOn
    <2> QED BY <1>3, <1>4, <2>1, <2>3 DEF GoesOn
<1>8. CASE OnStackTrace(m)
    <2> DEFINE done == Answer(client, {m.request.client}, "ok")
    <2>1. /\ session' = session /\ workers' = workers
          /\ \/ client' = Answer(client, {m.request.client}, "error")
             \/ client' = [[done EXCEPT !.data[m.request.client] = m.data]
                              EXCEPT !.frame = MapFrames(m.request.client)]
        BY <1>8 DEF OnStackTrace, AnswerWithData
    <2>2. done \in Editors /\ done.terminated = client.terminated
        BY <1>2, AnswerTyped, Kept
    <2>3. Answer(client, {m.request.client}, "error").terminated = client.terminated
        BY <1>2, Kept
    <2> HIDE DEF done
    <2>4. client'.terminated = client.terminated
        BY <2>1, <2>2, <2>3 DEF Editors
    <2> QED BY <1>2, <1>3, <1>4, <2>1, <2>4 DEF GoesOn
<1>9. CASE OnLaunched(m)
    <2> DEFINE answered == IF session.launchAnswered THEN client
                           ELSE Answer(client, {Launch}, IF m.ok THEN "ok" ELSE "error")
               launched == [session EXCEPT !.launchAnswered = TRUE]
    <2>1. /\ workers' = workers
          /\ \/ client' = answered /\ session' = launched
             \/ client' = TellTerminated(answered) /\ session' = Finished(launched)
        BY <1>9 DEF OnLaunched
    <2>2. answered \in Editors /\ answered.terminated = client.terminated
        BY <1>2, Kept, AnswerTyped
    <2>3. /\ launched.ended = session.ended /\ launched.closing = session.closing
          /\ Finished(launched).ended = TRUE
          /\ Finished(launched).closing = session.closing
        BY <1>2 DEF Flags, Finished
    <2> HIDE DEF answered, launched
    <2>4. CASE client' = answered /\ session' = launched
        BY <1>2, <1>3, <1>4, <2>1, <2>2, <2>3, <2>4 DEF GoesOn
    <2>5. CASE client' = TellTerminated(answered) /\ session' = Finished(launched)
        <3>1. Ends' /\ Closed'
            BY <1>3, <2>2, <2>3, <2>5, Finishing
        <3> QED BY <1>2, <1>3, <2>1, <3>1
    <2> QED BY <2>1, <2>4, <2>5
<1>10. CASE OnConfigured(m)
    <2> DEFINE failed == Answer(client, {m.request.client}, "error")
    <2>1. /\ workers' = workers
          /\ \/ client' = Answer(client, {m.request.client}, "ok") /\ session' = session
             \/ client' = TellTerminated(failed) /\ session' = Finished(session)
        BY <1>10 DEF OnConfigured
    <2>2. failed \in Editors /\ failed.terminated = client.terminated
        BY <1>2, Kept, AnswerTyped
    <2>3. Finished(session).ended = TRUE /\ Finished(session).closing = session.closing
        BY <1>2 DEF Flags, Finished
    <2>4. CASE client' = Answer(client, {m.request.client}, "ok") /\ session' = session
        BY <1>2, <1>3, <1>4, <2>1, <2>4, Kept DEF GoesOn
    <2>5. CASE client' = TellTerminated(failed) /\ session' = Finished(session)
        <3> HIDE DEF failed
        <3>1. Ends' /\ Closed'
            BY <1>3, <2>2, <2>3, <2>5, Finishing
        <3> QED BY <1>2, <1>3, <2>1, <3>1
    <2> QED BY <2>1, <2>4, <2>5
<1>11. CASE OnResumed(m) \/ OnPauseAnswered(m) \/ OnThreads(m)
    <2>1. /\ \/ session' = session
             \/ \E v : session' = [session EXCEPT !.stopped = v]
             \/ \E v : session' = [session EXCEPT !.pauseRevision = v]
          /\ \E o : client' = Answer(client, {m.request.client}, o)
          /\ workers' = workers
        BY <1>11 DEF OnResumed, OnPauseAnswered, OnThreads
    <2>2. session'.ended = session.ended /\ session'.closing = session.closing
        BY <1>2, <2>1 DEF Flags
    <2> QED BY <1>2, <1>3, <1>4, <2>1, <2>2, Kept DEF GoesOn
<1> QED BY <1>5, <1>6, <1>7, <1>8, <1>9, <1>10, <1>11


LEMMA AnswersAndRaisesSafe ==
    ASSUME SafetyInv, NEW m, OnSourcesReplaced(m) \/ OnInitialize(m) \/ OnDisconnected(m)
    PROVE  Ends' /\ Closed' /\ Dated(workers') /\ Silent
<1>2. /\ session \in Flags /\ client \in Editors /\ workers \in [Workers -> WorkerStates]
      /\ breakpoints \in BreakpointStates /\ Dated(workers)
    BY DEF SafetyInv, Types
<1>3. Settled(m) \subseteq pending
    BY DEF Settled
<1>4. ASSUME NEW o \in {"ok", "error"}
      PROVE  /\ Answer(client, {m.request.client}, o) \in Editors
             /\ Answer(client, {m.request.client}, o).terminated = client.terminated
    BY <1>2, AnswerTyped, Kept
<1>5. ASSUME NEW c \in Editors, c.terminated = client.terminated,
             Raise(c, Settled(m), workers)
      PROVE  Ends' /\ Closed' /\ Dated(workers') /\ Silent
    BY <1>2, <1>3, <1>5, RaiseGoesOn, GoingOn
<1>6. CASE OnSourcesReplaced(m)
    <2>1. CASE Raise(Answer(client, {m.request.client}, "error"), Settled(m), workers)
        BY <1>4, <1>5, <2>1
    <2>2. CASE /\ pending' = Settled(m)
               /\ client' = Answer(client, {m.request.client}, "ok")
               /\ UNCHANGED <<session, breakpoints, inspection, workers, toAdapter>>
               /\ EnterDrain
        <3>1. at' # "over"
            BY <2>2 DEF EnterDrain
        <3>2. GoesOn
            BY <1>4, <2>2, <3>1 DEF GoesOn
        <3> QED BY <1>2, <1>3, <2>2, <3>2, Draining DEF Silent
    <2> QED BY <1>6, <2>1, <2>2 DEF OnSourcesReplaced
<1>7. CASE OnInitialize(m)
    <2>1. CASE Raise(client, Settled(m), workers)
        BY <1>2, <1>5, <2>1
    <2>2. CASE ~Raise(client, Settled(m), workers)
        <3>1. /\ UNCHANGED <<session, breakpoints, workers, client>> /\ at' = "loop"
              /\ session.closing => pending' = Settled(m)
            BY <1>7, <2>2 DEF OnInitialize
        <3>2. GoesOn /\ HoldsNoMore
            BY <3>1 DEF GoesOn, HoldsNoMore
        <3> QED BY <1>2, <1>3, <3>1, <3>2, GoingOn DEF Silent
    <2> QED BY <2>1, <2>2
<1>8. CASE OnDisconnected(m)
    <2> DEFINE done == Answer(client, {m.request.client}, IF m.ok THEN "ok" ELSE "error")
               told == Answer(done, Asked(Settled(m)), "error")
    <2>1. done \in Editors /\ done.terminated = client.terminated
        BY <1>4
    <2>2. told \in Editors /\ told.terminated = client.terminated
        <3> HIDE DEF done
        <3> QED BY <2>1, AnswerTyped, Kept
    <2>3. CASE Raise(done, Settled(m), workers)
        <3> HIDE DEF done
        <3> QED BY <1>5, <2>1, <2>3
    <2>4. CASE /\ client' = TellTerminated(told) /\ pending' = {}
               /\ session' = Finished(session) /\ at' = "closed"
               /\ UNCHANGED <<breakpoints, conditions, inspection, workers, toAdapter>>
        <3> HIDE DEF done, told
        <3>1. session'.ended = TRUE /\ session'.closing = session.closing
            BY <1>2, <2>4 DEF Flags, Finished
        <3>2. Ends' /\ Closed'
            BY <2>2, <2>4, <3>1, Finishing
        <3> QED BY <1>2, <2>4, <3>2 DEF Silent
    <2> QED BY <1>8, <2>3, <2>4 DEF OnDisconnected
<1> QED BY <1>6, <1>7, <1>8

LEMMA EventSafe ==
    ASSUME SafetyInv, NEW m,
           \/ OnInitialized(m) \/ OnStopped(m) \/ OnContinued(m) \/ OnExited(m)
           \/ OnTerminated(m) \/ OnFailed(m)
    PROVE  Ends' /\ Closed' /\ Dated(workers') /\ Silent
<1>2. /\ session \in Flags /\ client \in Editors /\ workers \in [Workers -> WorkerStates]
      /\ breakpoints \in BreakpointStates /\ Dated(workers)
      /\ session.revision + 1 \in Nat
    BY DEF SafetyInv, Types, Flags
<1>3. AnswerStale(client) \in Editors /\ AnswerStale(client).terminated = client.terminated
    BY <1>2, CancelsTyped, CancelsKept
<1>4. /\ AnswerStale(AnswerCancelled(client)) \in Editors
      /\ AnswerStale(AnswerCancelled(client)).terminated = client.terminated
    BY <1>2, CancelsTyped, CancelsKept
<1>5. CancelledWork.stops = <<>> /\ CancelledWork.deferred = <<>>
    BY <1>2 DEF CancelledWork, BreakpointStates
<1>6. CASE OnInitialized(m)
    <2>1. session'.ended = session.ended /\ session'.closing = session.closing
        BY <1>2, <1>6 DEF OnInitialized, Flags
    <2>2. GoesOn /\ HoldsNoMore
        BY <1>6, <2>1 DEF OnInitialized, GoesOn, HoldsNoMore
    <2> QED BY <1>2, <1>6, <2>2, GoingOn DEF OnInitialized, Silent
<1>7. CASE OnStopped(m)
    <2>1. CASE session.ended \/ session.exited \/ session.closing
        <3>1. GoesOn /\ HoldsNoMore /\ UNCHANGED <<pending, workers>>
            BY <1>7, <2>1 DEF OnStopped, GoesOn, HoldsNoMore
        <3> QED BY <1>2, <3>1, GoingOn DEF Silent
    <2>2. CASE ~(session.ended \/ session.exited \/ session.closing)
        <3> DEFINE ws == Release(workers, {"inspection", "condition"})
                   cond == [conditions EXCEPT !.active = NoJob, !.suppress = FALSE,
                               !.stepping = @ \/ session.pauseRevision # None]
        <3>1. /\ session' = [session EXCEPT !.stopped = TRUE,
                                !.revision = session.revision + 1, !.pauseRevision = None]
              /\ at' = "loop"
              /\ \/ workers' = ws /\ client' = AnswerStale(client)
                 \/ PublishStop(m.stop, AnswerStale(client), cond, ws,
                                session.revision + 1)
            BY <1>7, <2>2 DEF OnStopped
        <3>2. session'.ended = session.ended /\ session'.closing = session.closing
            BY <1>2, <3>1 DEF Flags
        <3>3. ws \in [Workers -> WorkerStates] /\ Dated(ws)
            BY <1>2, ReleaseTyped, ReleaseDated
        <3>4. m.stop \in Stops
            BY <1>7, MessageTyped DEF OnStopped, TakeEvent, SafetyInv
        <3> HIDE DEF ws, cond
        <3>5. client'.terminated = client.terminated /\ Dated(workers')
            BY <1>2, <1>3, <3>1, <3>3, <3>4, PublishStopGoesOn
        <3> QED BY <2>2, <3>1, <3>2, <3>5, OpenGoesOn DEF GoesOn
    <2> QED BY <2>1, <2>2
<1>8. CASE OnContinued(m)
    <2>1. /\ \/ session' = session
             \/ session' = [session EXCEPT !.stopped = FALSE,
                                           !.revision = session.revision + 1]
          /\ \/ client' = client \/ client' = AnswerStale(client)
             \/ client' = TellContinued(AnswerStale(client))
          /\ \/ workers' = workers
             \/ workers' = Release(workers, {"inspection", "condition"})
          /\ at' = "loop" /\ UNCHANGED <<pending, breakpoints>>
        BY <1>8 DEF OnContinued
    <2>2. session'.ended = session.ended /\ session'.closing = session.closing
        BY <1>2, <2>1 DEF Flags
    <2>3. client'.terminated = client.terminated
        BY <1>3, <2>1, Kept
    <2>4. GoesOn /\ HoldsNoMore
        BY <2>1, <2>2, <2>3 DEF GoesOn, HoldsNoMore
    <2> QED BY <1>2, <2>1, <2>4, ReleaseDated, GoingOn DEF Silent
<1>9. CASE OnExited(m)
    <2>1. /\ session' = [session EXCEPT !.exited = TRUE, !.stopped = FALSE,
                             !.revision = session.revision + 1, !.pauseRevision = None]
          /\ client' = TellExited(AnswerStale(AnswerCancelled(client)))
          /\ breakpoints' = CancelledWork /\ workers' = Release(workers, Workers)
          /\ at' = "loop" /\ UNCHANGED pending
        BY <1>9 DEF OnExited
    <2>2. session'.ended = session.ended /\ session'.closing = session.closing
        BY <1>2, <2>1 DEF Flags
    <2>3. GoesOn /\ HoldsNoMore
        BY <1>4, <1>5, <2>1, <2>2, Kept DEF GoesOn, HoldsNoMore
    <2> QED BY <1>2, <2>1, <2>3, ReleaseDated, GoingOn DEF Silent
<1>10. CASE OnTerminated(m)
    <2>1. /\ session' = IF session.ended THEN session ELSE Finished(session)
          /\ client' = TellTerminated(AnswerStale(AnswerCancelled(client)))
          /\ breakpoints' = CancelledWork /\ workers' = Release(workers, Workers)
          /\ at' = "loop" /\ UNCHANGED pending
        BY <1>10 DEF OnTerminated
    <2>2. session'.ended = TRUE /\ session'.closing = session.closing
        BY <1>2, <2>1 DEF Flags, Finished
    <2>3. Ends' /\ Closed'
        BY <1>4, <1>5, <2>1, <2>2, Finishing
    <2> QED BY <1>2, <2>1, <2>3, ReleaseDated DEF Silent
<1>11. CASE OnFailed(m)
    <2>1. CASE Raise(client, pending, workers)
        BY <1>2, <2>1, RaiseGoesOn, GoingOn
    <2>2. CASE ~Raise(client, pending, workers)
        <3>1. GoesOn /\ HoldsNoMore /\ UNCHANGED <<pending, workers>>
            BY <1>11, <2>2 DEF OnFailed, GoesOn, HoldsNoMore
        <3> QED BY <1>2, <3>1, GoingOn DEF Silent
    <2> QED BY <2>1, <2>2
<1> QED BY <1>6, <1>7, <1>8, <1>9, <1>10, <1>11

LEMMA AdapterSafe ==
    SafetyInv /\ OnAdapter => Ends' /\ Closed' /\ Dated(workers') /\ Silent
BY ResponseSafe, AnswersAndRaisesSafe, EventSafe DEF OnAdapter


\* While the session closes, no read is admitted.
LEMMA NothingAdmitted ==
    ASSUME SafetyInv, session.closing, NEW w \in Workers, workers[w].pc = "read"
    PROVE  ~Admits(w)
<1>1. InspectionEpoch = None /\ ConditionEpoch = None
    BY DEF InspectionEpoch, ConditionEpoch, Inspectable
<1>2. CASE w \in {"function", "panic"}
    BY <1>2 DEF Admits
<1>3. CASE w \in {"inspection", "condition"}
    <2>1. workers[w].job.epoch # None
        BY <1>3 DEF SafetyInv, Dated
    <2> QED BY <1>1, <1>3, <2>1 DEF Admits, EpochHolds
<1> QED BY <1>2, <1>3, Values

\* A worker's own step dates nothing anew.
LEMMA StepDated ==
    ASSUME SafetyInv, NEW w \in Workers, NEW to,
           workers' = [workers EXCEPT ![w] = to],
           \/ to.queue = workers[w].queue /\ to.job = workers[w].job /\ workers[w].pc # "idle"
           \/ /\ workers[w].queue # <<>>
              /\ to.queue = Tail(workers[w].queue) /\ to.job = Head(workers[w].queue)
    PROVE  Dated(workers')
<1>1. workers \in [Workers -> WorkerStates] /\ Dated(workers)
    BY DEF SafetyInv, Types
<1> SUFFICES ASSUME NEW v \in {"inspection", "condition"}
             PROVE  /\ \A i \in 1 .. Len(workers'[v].queue) :
                           workers'[v].queue[i].epoch # None
                    /\ workers'[v].pc # "idle" => workers'[v].job.epoch # None
    BY DEF Dated
<1>2. /\ v \in Workers /\ workers[v].queue \in Seq(Orders)
      /\ \A i \in 1 .. Len(workers[v].queue) : workers[v].queue[i].epoch # None
      /\ workers[v].pc # "idle" => workers[v].job.epoch # None
    BY <1>1, Values DEF Dated, WorkerStates
<1>3. CASE v # w
    BY <1>1, <1>2, <1>3
<1>4. CASE v = w
    <2>1. workers'[v] = to
        BY <1>1, <1>2, <1>4
    <2>2. CASE to.queue = workers[w].queue /\ to.job = workers[w].job
               /\ workers[w].pc # "idle"
        BY <1>2, <1>4, <2>1, <2>2
    <2>3. CASE /\ workers[w].queue # <<>>
               /\ to.queue = Tail(workers[w].queue) /\ to.job = Head(workers[w].queue)
        <3>1. /\ \A i \in 1 .. Len(Tail(workers[v].queue)) :
                     Tail(workers[v].queue)[i] = workers[v].queue[i + 1]
              /\ Len(Tail(workers[v].queue)) = Len(workers[v].queue) - 1
              /\ Head(workers[v].queue) = workers[v].queue[1]
              /\ Len(workers[v].queue) \in Nat \ {0}
            BY <1>2, <1>4, <2>3
        <3>2. ASSUME NEW i \in 1 .. Len(Tail(workers[v].queue))
              PROVE  Tail(workers[v].queue)[i].epoch # None
            <4>1. i + 1 \in 1 .. Len(workers[v].queue)
                BY <3>1
            <4> QED BY <1>2, <3>1, <4>1
        <3>3. Head(workers[v].queue).epoch # None
            <4>1. 1 \in 1 .. Len(workers[v].queue)
                BY <3>1
            <4> QED BY <1>2, <3>1, <4>1
        <3> QED BY <1>4, <2>1, <2>3, <3>2, <3>3
    <2> QED BY <2>2, <2>3
<1> QED BY <1>3, <1>4

LEMMA WorkerSafe ==
    ASSUME SafetyInv, NEW w \in Workers, Worker(w)
    PROVE  Ends' /\ Closed' /\ Dated(workers') /\ Silent
<1>1. workers[w] \in WorkerStates
    BY DEF SafetyInv, Types
<1>2. UNCHANGED <<at, session, pending, breakpoints, client>>
    BY DEF Worker, WorkerStart, WorkerFinish, WorkerTimeout, StepWorker
<1>r. Ends' /\ Closed' /\ Silent
    BY <1>2 DEF SafetyInv, Ends, Closed, Silent
<1> SUFFICES Dated(workers')
    BY <1>r
<1>3. CASE WorkerStart(w)
    <2> DEFINE taken == [workers[w] EXCEPT !.queue = Tail(workers[w].queue),
                                           !.job = Head(workers[w].queue)]
    <2>1. /\ workers[w].queue # <<>>
          /\ \/ workers' = [workers EXCEPT ![w] =
                               [taken EXCEPT !.pc = "done", !.result = "error"]]
             \/ workers' = [workers EXCEPT ![w] =
                               [taken EXCEPT !.pc = "done", !.result = "ok"]]
             \/ workers' = [workers EXCEPT ![w] = [taken EXCEPT !.pc = "read"]]
        BY <1>3 DEF WorkerStart, StepWorker
    <2>2. ASSUME NEW to \in {[taken EXCEPT !.pc = "done", !.result = "error"],
                             [taken EXCEPT !.pc = "done", !.result = "ok"],
                             [taken EXCEPT !.pc = "read"]}
          PROVE  /\ to.queue = Tail(workers[w].queue)
                 /\ to.job = Head(workers[w].queue)
        BY <1>1, <2>2 DEF WorkerStates
    <2> HIDE DEF taken
    <2> QED BY <2>1, <2>2, StepDated
<1>4. CASE WorkerFinish(w)
    <2> DEFINE result == IF EpochHolds(w, workers[w].job) THEN workers[w].result
                         ELSE "error"
               installed == IF workers[w].result = "ok"
                            THEN workers[w].job.kind # "none"
                            ELSE workers[w].installed
               to == [workers[w] EXCEPT !.pc = "done", !.result = result,
                                        !.installed = installed]
    <2>1. workers' = [workers EXCEPT ![w] = to] /\ workers[w].pc # "idle"
        BY <1>4 DEF WorkerFinish, StepWorker
    <2> HIDE DEF result, installed
    <2>2. to.queue = workers[w].queue /\ to.job = workers[w].job
        BY <1>1 DEF WorkerStates
    <2> HIDE DEF to
    <2> QED BY <2>1, <2>2, StepDated
<1>5. CASE WorkerTimeout(w)
    <2> DEFINE to == [workers[w] EXCEPT !.pc = "done", !.seq = 0, !.result = "error"]
    <2>1. workers' = [workers EXCEPT ![w] = to] /\ workers[w].pc # "idle"
        BY <1>5 DEF WorkerTimeout, StepWorker
    <2>2. to.queue = workers[w].queue /\ to.job = workers[w].job
        BY <1>1 DEF WorkerStates
    <2> HIDE DEF to
    <2> QED BY <2>1, <2>2, StepDated
<1> QED BY <1>3, <1>4, <1>5 DEF Worker

LEMMA WorkSafe ==
    ASSUME SafetyInv, OnWork
    PROVE  Ends' /\ Closed' /\ Dated(workers') /\ Silent
<1>0. /\ session \in Flags /\ client \in Editors /\ workers \in [Workers -> WorkerStates]
      /\ breakpoints \in BreakpointStates /\ Dated(workers)
      /\ {"inspection", "function", "panic", "condition"} \subseteq Workers
    BY Values DEF SafetyInv, Types
<1>1. ASSUME NEW w \in Workers, IgnoreDone(w) \/ RaiseDone(w)
      PROVE  Ends' /\ Closed' /\ Dated(workers') /\ Silent
    <2>1. Dated(Rested(w)) /\ Rested(w) \in [Workers -> WorkerStates]
        BY RestedDated, RestedTyped DEF SafetyInv
    <2>2. CASE IgnoreDone(w)
        <3>1. GoesOn /\ HoldsNoMore
            BY <2>2 DEF IgnoreDone, GoesOn, HoldsNoMore
        <3> QED BY <2>1, <2>2, <3>1, GoingOn DEF IgnoreDone, Silent
    <2>3. CASE RaiseDone(w)
        BY <1>0, <2>1, <2>3, RaiseGoesOn, GoingOn DEF RaiseDone
    <2> QED BY <1>1, <2>2, <2>3
<1>2. ASSUME NEW w \in Workers, OnRead(w)
      PROVE  Ends' /\ Closed' /\ Dated(workers') /\ Silent
    <2>1. GoesOn /\ HoldsNoMore
        BY <1>2 DEF OnRead, GoesOn, HoldsNoMore
    <2>2. Silent
        BY <1>2, NothingAdmitted DEF OnRead, TakeWork, Silent
    <2>3. workers[w].pc # "idle"
        BY <1>2 DEF OnRead, TakeWork
    <2> DEFINE sent == [workers[w] EXCEPT !.pc = "wait", !.seq = FreshSeq(pending)]
               refused == [workers[w] EXCEPT !.pc = "replied", !.result = "error"]
    <2>4. \/ workers' = [workers EXCEPT ![w] = sent]
          \/ workers' = [workers EXCEPT ![w] = refused]
        <3>1. CASE Admits(w)
            BY <1>0, <1>2, <3>1 DEF OnRead
        <3>2. CASE ~Admits(w)
            BY <1>0, <1>2, <3>2 DEF OnRead
        <3> QED BY <3>1, <3>2
    <2>5. /\ sent.queue = workers[w].queue /\ sent.job = workers[w].job
          /\ refused.queue = workers[w].queue /\ refused.job = workers[w].job
        BY <1>0 DEF WorkerStates
    <2> HIDE DEF sent, refused
    <2>6. Dated(workers')
        BY <2>3, <2>4, <2>5, StepDated
    <2> QED BY <2>1, <2>2, <2>6, GoingOn
<1>3. CASE OnInspectDone
    <2> DEFINE me == workers["inspection"]
               done == Answer(client, {me.job.cause}, "ok")
    <2>1. /\ UNCHANGED <<session, pending, breakpoints>> /\ at' = "loop"
          /\ workers' = Rested("inspection")
          /\ \/ client' = client \/ client' = Answer(client, {me.job.cause}, "error")
             \/ client' = [done EXCEPT !.data[me.job.cause] = me.data]
        BY <1>3 DEF OnInspectDone, AnswerWithData
    <2>2. done \in Editors /\ done.terminated = client.terminated
        BY <1>0, AnswerTyped, Kept
    <2>3. Answer(client, {me.job.cause}, "error").terminated = client.terminated
        BY <1>0, Kept
    <2> HIDE DEF me, done
    <2>4. client'.terminated = client.terminated
        BY <2>1, <2>2, <2>3 DEF Editors
    <2>5. GoesOn /\ HoldsNoMore
        BY <2>1, <2>4 DEF GoesOn, HoldsNoMore
    <2> QED BY <1>0, <2>1, <2>5, RestedDated, GoingOn DEF Silent
<1>4. CASE OnFunctionDone
    <2>1. CASE IgnoreDone("function") \/ RaiseDone("function")
        BY <1>0, <1>1, <2>1
    <2>2. CASE ~(IgnoreDone("function") \/ RaiseDone("function"))
        <3>1. /\ EnterDrain /\ workers' = Rested("function")
              /\ breakpoints' = [breakpoints EXCEPT !.function = NoRequest,
                                                    !.requested = "none"]
              /\ client' = Answer(client, {breakpoints.function}, "ok")
              /\ UNCHANGED <<session, pending>>
            BY <1>4, <2>2 DEF OnFunctionDone
        <3>2. breakpoints'.stops = breakpoints.stops
              /\ breakpoints'.deferred = breakpoints.deferred
            BY <1>0, <3>1 DEF BreakpointStates
        <3>3. GoesOn
            BY <1>0, <3>1, Kept DEF GoesOn, EnterDrain
        <3> QED BY <1>0, <3>1, <3>2, <3>3, Draining, RestedDated DEF Silent
    <2> QED BY <2>1, <2>2
<1>5. CASE OnPanicDone
    <2>1. CASE IgnoreDone("panic") \/ RaiseDone("panic")
        BY <1>0, <1>1, <2>1
    <2>2. CASE ~(IgnoreDone("panic") \/ RaiseDone("panic"))
        <3>1. /\ EnterDrain /\ workers' = Rested("panic")
              /\ breakpoints' = [breakpoints EXCEPT !.panic = None,
                     !.panicConfigured = TRUE,
                     !.panicInstalled = workers["panic"].job.kind # "none"]
              /\ client' = Answer(client, {breakpoints.panic} \cap Requests, "ok")
              /\ UNCHANGED <<session, pending>>
            BY <1>5, <2>2 DEF OnPanicDone
        <3>2. breakpoints'.stops = breakpoints.stops
              /\ breakpoints'.deferred = breakpoints.deferred
            BY <1>0, <3>1 DEF BreakpointStates
        <3>3. GoesOn
            BY <1>0, <3>1, Kept DEF GoesOn, EnterDrain
        <3> QED BY <1>0, <3>1, <3>2, <3>3, Draining, RestedDated DEF Silent
    <2> QED BY <2>1, <2>2
<1>6. CASE OnConditionDone
    <2>1. CASE IgnoreDone("condition")
        BY <1>0, <1>1, <2>1
    <2>2. CASE ~IgnoreDone("condition")
        <3>1. /\ ConditionEpoch = workers["condition"].job.epoch
              /\ workers["condition"].pc = "done" /\ EnterDrain
              /\ \/ /\ session' = [session EXCEPT !.stopped = FALSE,
                                                  !.revision = session.revision + 1]
                    /\ client' = AnswerStale(client)
                    /\ workers' = Release(Rested("condition"), {"inspection", "condition"})
                 \/ /\ session' = session
                    /\ client' = TellStopped(client, conditions.active.stop)
                    /\ workers' = Rested("condition")
            BY <1>6, <2>2 DEF OnConditionDone, TakeWork
        <3>2. ~session.closing
            <4>1. workers["condition"].job.epoch # None
                BY <3>1 DEF SafetyInv, Dated
            <4> QED BY <3>1, <4>1 DEF ConditionEpoch, Inspectable
        <3>3. session'.ended = session.ended /\ session'.closing = session.closing
            BY <1>0, <3>1 DEF Flags
        <3>4. client'.terminated = client.terminated
            BY <1>0, <3>1, Kept, CancelsKept
        <3>5. Dated(workers')
            BY <1>0, <3>1, RestedDated, RestedTyped, ReleaseDated DEF SafetyInv
        <3> QED BY <3>1, <3>2, <3>3, <3>4, <3>5, OpenGoesOn DEF GoesOn, EnterDrain
    <2> QED BY <2>1, <2>2
<1> QED BY <1>2, <1>3, <1>4, <1>5, <1>6 DEF OnWork


LEMMA LoopEndSafe ==
    ASSUME SafetyInv, Timeout \/ Shutdown
    PROVE  Ends' /\ Closed' /\ Dated(workers') /\ (Silent \/ Shutdown)
<1>0. /\ session \in Flags /\ client \in Editors /\ workers \in [Workers -> WorkerStates]
      /\ Dated(workers)
    BY DEF SafetyInv, Types
<1>1. CASE Timeout
    <2>1. CASE Raise(client, pending, workers)
        BY <1>0, <2>1, RaiseGoesOn, GoingOn
    <2>2. CASE ~Raise(client, pending, workers)
        <3>1. GoesOn /\ HoldsNoMore /\ UNCHANGED <<pending, workers>>
            BY <1>1, <2>2 DEF Timeout, GoesOn, HoldsNoMore
        <3> QED BY <1>0, <3>1, GoingOn DEF Silent
    <2> QED BY <2>1, <2>2
<1>2. CASE Shutdown
    <2>1. session'.ended = TRUE /\ session'.closing = session.closing
        BY <1>0, <1>2 DEF Shutdown, Finished, Flags
    <2>2. Ends' /\ Closed'
        BY <1>0, <1>2, <2>1, Finishing DEF Shutdown
    <2>3. workers' = workers
        BY <1>2 DEF Shutdown
    <2> QED BY <1>0, <1>2, <2>2, <2>3
<1> QED BY <1>1, <1>2

LEMMA WorldSafe ==
    ASSUME SafetyInv,
           \/ ClientSends \/ ClientLeaves \/ Adapter \/ AdapterAnswers
           \/ TargetStops \/ TargetExits \/ Crash
    PROVE  Ends' /\ Closed' /\ Dated(workers') /\ Silent
<1>0. client \in Editors /\ Dated(workers)
    BY DEF SafetyInv, Types
<1>1. CASE ClientSends \/ ClientLeaves
    <2>1. UNCHANGED <<at, session, pending, breakpoints, workers>>
        BY <1>1 DEF ClientSends, ClientLeaves
    <2>2. client'.terminated = client.terminated
        BY <1>0, <1>1 DEF ClientSends, ClientLeaves, Editors
    <2> QED BY <1>0, <2>1, <2>2 DEF SafetyInv, Ends, Closed, Silent
<1>2. ASSUME UNCHANGED <<at, session, pending, breakpoints, workers, client>>
      PROVE  Ends' /\ Closed' /\ Dated(workers') /\ Silent
    BY <1>0, <1>2 DEF SafetyInv, Ends, Closed, Silent
<1>3. CASE Adapter
    BY <1>2, <1>3 DEF Adapter, AdapterLaunches, AdapterRefuses, Installs, Inspects,
       Continues, Halts, Leaves, Handle
<1>4. CASE AdapterAnswers \/ TargetStops \/ TargetExits \/ Crash
    BY <1>2, <1>4 DEF AdapterAnswers, TargetStops, TargetExits, Crash, TargetMoves
<1> QED BY <1>1, <1>3, <1>4

LEMMA InitSafe == Init => SafetyInv
<1> SUFFICES ASSUME Init PROVE SafetyInv
    OBVIOUS
<1>1. Ends
    <2>1. session.ended = FALSE
        BY DEF Init, FlagsAtLaunch
    <2>2. client.terminated = 0 /\ at = "loop"
        BY DEF Init
    <2> QED BY <2>1, <2>2 DEF Ends
<1>2. Dated(workers)
    BY Values DEF Init, Dated
<1>3. Closed
    BY DEF Init, FlagsAtLaunch, Closed
<1> QED BY <1>1, <1>2, <1>3, InitTypes DEF SafetyInv

LEMMA SafetyInductive == SafetyInv /\ [Next]_vars => SafetyInv' /\ (Silent \/ Shutdown)
<1> SUFFICES ASSUME SafetyInv, [Next]_vars PROVE SafetyInv' /\ (Silent \/ Shutdown)
    OBVIOUS
<1>1. Types'
    BY TypesInductive DEF SafetyInv
<1>2. Ends' /\ Closed' /\ Dated(workers') /\ (Silent \/ Shutdown)
    <2>1. CASE UNCHANGED vars
        BY <2>1 DEF vars, SafetyInv, Ends, Closed, Silent, Dated
    <2>2. CASE Next
        BY <2>2, ClientSafe, DrainSafe, AdapterSafe, WorkerSafe, WorkSafe, LoopEndSafe,
           WorldSafe DEF Next
    <2> QED BY <2>1, <2>2
<1> QED BY <1>1, <1>2 DEF SafetyInv

LEMMA SafetyHolds == Spec => []SafetyInv
<1>1. SafetyInv /\ [Next]_vars => SafetyInv'
    BY SafetyInductive
<1> QED BY InitSafe, <1>1, PTL DEF Spec

\* The editor hears `terminated` at most once, whatever ends the session, and
\* has heard it when the loop is over: finish, the launch and configuration
\* failures, the adapter's event and the shutdown all go through one flag.
THEOREM EndsOnce == Spec => []TerminatedOnce
<1>1. SafetyInv => TerminatedOnce
    BY DEF SafetyInv, Ends, TerminatedOnce
<1> QED BY <1>1, SafetyHolds, PTL

\* Once the editor has asked to disconnect, the session asks lldb-dap nothing
\* more: no request that waited, no read of a worker, no launch after a late
\* initialize, no continue after a condition that turned out false.  Only the loop
\* itself, at its end, may ask it to disconnect again.
THEOREM DisconnectIsLast == Spec => SilentAfterDisconnect
<1> DEFINE Last == session.closing =>
               \A p \in pending' \ pending :
                   /\ p.command = "disconnect" /\ p.client = NoRequest
                   /\ at = "shutdown" /\ at' = "over"
<1>1. Silent => Last
    BY DEF Silent
<1>2. Shutdown => Last
    <2> SUFFICES ASSUME Shutdown, NEW p \in pending' \ pending
                 PROVE  /\ p.command = "disconnect" /\ p.client = NoRequest
                        /\ at = "shutdown" /\ at' = "over"
        OBVIOUS
    <2>1. p = ShutdownRequest /\ at = "shutdown" /\ at' = "over"
        BY DEF Shutdown
    <2> QED BY <2>1 DEF ShutdownRequest, Outgoing
<1>3. SafetyInv /\ [Next]_vars => [Last]_vars
    BY <1>1, <1>2, SafetyInductive
<1> QED BY <1>3, SafetyHolds, PTL DEF Spec, SilentAfterDisconnect

-----------------------------------------------------------------------------
(* Who holds a request.                                                      *)

Count(holds) == IF holds THEN 1 ELSE 0

\* Not yet taken by the loop.
Coming(r) == \/ r >= client.next
             \/ \E i \in 1 .. Len(fromClient) : fromClient[i].seq = r
InRouter(ps, r) == \E p \in ps : p.client = r
InQueue(q, r) == \E i \in 1 .. Len(q) : q[i].seq = r
Reads(waiting, r) == \E j \in waiting : j.cause = r

\* The holders of r in the session, and its answers.
Balance(r, ps, b, waiting, c) ==
    Count(InRouter(ps, r)) + Count(InQueue(b.deferred, r))
    + Count(Reads(waiting, r)) + Count(b.function = r) + Count(b.panic = r)
    + c.answers[r]

Balanced ==
    \A r \in Others :
        Count(Coming(r))
        + Balance(r, pending, breakpoints, inspection.waiting, client) = 1

\* No holder has a request twice.
OneInRouter(ps) == \A p, q \in ps : p.client = q.client /\ p.client \in Others => p = q
OneInQueue(q) == \A i, j \in 1 .. Len(q) : q[i].seq = q[j].seq => i = j
OneRead(waiting) == \A j, k \in waiting : j.cause = k.cause => j = k

\* Only what the editor asked for is answered to it, and launch apart.
Owed(ps) == \A p \in ps : /\ p.client = Launch <=> p.command = "launch"
                          /\ p.use # "client" \/ p.command = "initialize"
                                => p.client = NoRequest
ReadsOwed(waiting) == \A j \in waiting : j.cause \in Others

\* The editor numbers its requests upwards; eof comes last.
Inflow ==
    /\ \A i, j \in 1 .. Len(fromClient) : i < j => fromClient[i].seq < fromClient[j].seq
    /\ \A i \in 1 .. Len(fromClient) :
          IF fromClient[i].command = "eof"
          THEN client.left /\ fromClient[i].seq = client.next
          ELSE fromClient[i].seq < client.next

\* Deferred requests are performed when no breakpoint work is pending.
DrainsAtRest == at = "drain" /\ breakpoints.stops = <<>> => ~WorkPending

Sane(ps, b, waiting) ==
    /\ OneInRouter(ps) /\ Owed(ps)
    /\ OneInQueue(b.deferred)
    /\ OneRead(waiting) /\ ReadsOwed(waiting)

LaunchOnce == client.answers[Launch] = Count(session.launchAnswered)
NoneTwice == \A r \in Others : client.answers[r] <= 1

\* An error answers everybody at once, and no step answers after it.
AnswersInv ==
    /\ Types
    /\ Inflow /\ DrainsAtRest
    /\ at \in {"loop", "drain"} =>
          Balanced /\ Sane(pending, breakpoints, inspection.waiting)
    /\ NoneTwice /\ LaunchOnce

-----------------------------------------------------------------------------
(* Counting.                                                                 *)

LEMMA Counts ==
    ASSUME NEW h \in BOOLEAN
    PROVE  Count(h) \in {0, 1} /\ (Count(h) = 0 <=> ~h)
BY DEF Count

LEMMA AnswerCounts ==
    ASSUME NEW c \in Editors, NEW S, NEW o
    PROVE  /\ \A r \in Requests :
                 Answer(c, S, o).answers[r] = c.answers[r] + Count(r \in S)
           /\ Answer(c, S, o).next = c.next
           /\ Answer(c, S, o).left = c.left
<1>1. c.answers \in [Requests -> Nat]
    BY DEF Editors
<1>2. Answer(c, S, o).answers
          = [r \in Requests |-> IF r \in S THEN c.answers[r] + 1 ELSE c.answers[r]]
    BY DEF Answer, Editors
<1>3. Answer(c, S, o).next = c.next /\ Answer(c, S, o).left = c.left
    BY DEF Answer, Editors
<1> QED BY <1>1, <1>2, <1>3 DEF Count

\* What leaves the answers and the editor's numbering as they are.
SameEditor(c, d) == c.answers = d.answers /\ c.next = d.next /\ c.left = d.left

LEMMA TellsSame ==
    ASSUME NEW c \in Editors, NEW stop
    PROVE  /\ SameEditor(TellStopped(c, stop), c)
           /\ SameEditor(TellContinued(c), c)
           /\ SameEditor(TellExited(c), c)
           /\ SameEditor(TellTerminated(c), c)
<1>1. /\ SameEditor(TellStopped(c, stop), c)
      /\ SameEditor(TellContinued(c), c)
      /\ SameEditor(TellExited(c), c)
    BY DEF TellStopped, TellContinued, TellExited, SameEditor, Editors
<1>2. TellExited(c) \in Editors
    BY TellsTyped, Values
<1>3. SameEditor([TellExited(c) EXCEPT !.terminated = @ + 1], TellExited(c))
    BY <1>2 DEF SameEditor, Editors
<1>4. SameEditor(c, c)
    BY DEF SameEditor
<1> QED BY <1>1, <1>3, <1>4 DEF TellTerminated, SameEditor

\* Cancelling answers what was deferred or at a worker, and nothing else.
LEMMA CancelledCounts ==
    ASSUME Types, NEW c \in Editors
    PROVE  /\ \A r \in Others :
                 AnswerCancelled(c).answers[r]
                     = c.answers[r] + Count(breakpoints.function = r)
                       + Count(breakpoints.panic = r)
                       + Count(InQueue(breakpoints.deferred, r))
           /\ AnswerCancelled(c).answers[Launch] = c.answers[Launch]
           /\ AnswerCancelled(c).next = c.next /\ AnswerCancelled(c).left = c.left
<1> DEFINE f == {breakpoints.function} \cap Requests
           p == {breakpoints.panic} \cap Requests
           d == {breakpoints.deferred[i].seq : i \in DOMAIN breakpoints.deferred}
           c1 == Answer(c, f, "error")
           c2 == Answer(c1, p, "error")
           c3 == Answer(c2, d, "error")
<1>1. AnswerCancelled(c) = c3
    BY DEF AnswerCancelled
<1>2. /\ breakpoints.function \in Others \cup {NoRequest}
      /\ breakpoints.panic \in Others \cup {0, None}
      /\ breakpoints.deferred \in Seq(Asks)
    BY DEF Types, BreakpointStates
<1>3. Others \subseteq Requests /\ Launch \in Requests /\ Launch \notin Others
      /\ NoRequest \notin Requests /\ 0 \notin Requests /\ None \notin Requests
    BY Values DEF Others, Requests, NoRequest, None
<1>4. \A r \in Others : /\ r \in f <=> breakpoints.function = r
                        /\ r \in p <=> breakpoints.panic = r
                        /\ r \in d <=> InQueue(breakpoints.deferred, r)
    BY <1>2, <1>3 DEF InQueue
<1>5. Launch \notin f /\ Launch \notin p /\ Launch \notin d
    BY <1>2, <1>3 DEF Asks
<1> HIDE DEF f, p, d
<1>6. c1 \in Editors
    BY AnswerTyped
<1>7. c2 \in Editors
    BY <1>6, AnswerTyped
<1>8. /\ \A r \in Requests : c1.answers[r] = c.answers[r] + Count(r \in f)
      /\ c1.next = c.next /\ c1.left = c.left
    BY AnswerCounts
<1>9. /\ \A r \in Requests : c2.answers[r] = c1.answers[r] + Count(r \in p)
      /\ c2.next = c1.next /\ c2.left = c1.left
    BY <1>6, AnswerCounts
<1>10. /\ \A r \in Requests : c3.answers[r] = c2.answers[r] + Count(r \in d)
       /\ c3.next = c2.next /\ c3.left = c2.left
    BY <1>7, AnswerCounts
<1> HIDE DEF c1, c2, c3
<1>11. \A r \in Others : AnswerCancelled(c).answers[r]
           = c.answers[r] + Count(r \in f) + Count(r \in p) + Count(r \in d)
    BY <1>1, <1>3, <1>8, <1>9, <1>10
<1>12. AnswerCancelled(c).answers[Launch] = c.answers[Launch]
    <2>1. Count(Launch \in f) = 0 /\ Count(Launch \in p) = 0 /\ Count(Launch \in d) = 0
        BY <1>5 DEF Count
    <2>2. c.answers[Launch] \in Nat
        BY <1>3 DEF Editors
    <2> QED BY <1>1, <1>3, <1>8, <1>9, <1>10, <2>1, <2>2
<1>13. \A r \in Others : /\ Count(r \in f) = Count(breakpoints.function = r)
                         /\ Count(r \in p) = Count(breakpoints.panic = r)
                         /\ Count(r \in d) = Count(InQueue(breakpoints.deferred, r))
    BY <1>4 DEF Count
<1> QED BY <1>1, <1>8, <1>9, <1>10, <1>11, <1>12, <1>13

LEMMA StaleCounts ==
    ASSUME NEW c \in Editors, ReadsOwed(inspection.waiting)
    PROVE  /\ \A r \in Others : AnswerStale(c).answers[r]
                 = c.answers[r] + Count(Reads(inspection.waiting, r))
           /\ AnswerStale(c).answers[Launch] = c.answers[Launch]
           /\ AnswerStale(c).next = c.next /\ AnswerStale(c).left = c.left
<1> DEFINE S == {j.cause : j \in inspection.waiting}
<1>1. /\ \A r \in Requests : AnswerStale(c).answers[r] = c.answers[r] + Count(r \in S)
      /\ AnswerStale(c).next = c.next /\ AnswerStale(c).left = c.left
    BY AnswerCounts DEF AnswerStale
<1>2. \A r : r \in S <=> Reads(inspection.waiting, r)
    BY DEF Reads
<1>3. Launch \notin S
    BY DEF ReadsOwed, Others
<1> HIDE DEF S
<1>4. Count(Launch \in S) = 0 /\ Launch \in Requests /\ c.answers[Launch] \in Nat
    BY <1>3, Values DEF Count, Editors
<1>5. \A r \in Others : r \in Requests /\ Count(r \in S) = Count(Reads(inspection.waiting, r))
    BY <1>2 DEF Others, Count
<1> QED BY <1>1, <1>4, <1>5

LEMMA LaunchCounts ==
    ASSUME NEW c \in Editors, session.launchAnswered \in BOOLEAN
    PROVE  /\ \A r \in Others : CancelLaunch(c).answers[r] = c.answers[r]
           /\ c.answers[Launch] = Count(session.launchAnswered)
                 => CancelLaunch(c).answers[Launch] = 1
           /\ CancelLaunch(c).next = c.next /\ CancelLaunch(c).left = c.left
<1>1. Launch \in Requests /\ \A r \in Others : r \in Requests /\ r # Launch
    BY Values DEF Others
<1>2. \A r \in Requests : c.answers[r] \in Nat
    BY DEF Editors
<1>3. CASE session.launchAnswered
    BY <1>3 DEF CancelLaunch, Count
<1>4. CASE ~session.launchAnswered
    <2>1. /\ \A r \in Requests : CancelLaunch(c).answers[r]
                 = c.answers[r] + Count(r \in {Launch})
          /\ CancelLaunch(c).next = c.next /\ CancelLaunch(c).left = c.left
        BY <1>4, AnswerCounts DEF CancelLaunch
    <2> QED BY <1>1, <1>2, <1>4, <2>1 DEF Count
<1> QED BY <1>3, <1>4

-----------------------------------------------------------------------------
(* Passing a request on.                                                     *)

LEMMA RouterGains ==
    ASSUME NEW ps, NEW p
    PROVE  /\ \A r : InRouter(ps \cup {p}, r) <=> InRouter(ps, r) \/ p.client = r
           /\ OneInRouter(ps) /\ (p.client \in Others => ~InRouter(ps, p.client))
                 => OneInRouter(ps \cup {p})
           /\ Owed(ps) /\ (p.client = Launch <=> p.command = "launch")
                       /\ (p.use # "client" \/ p.command = "initialize"
                               => p.client = NoRequest)
                 => Owed(ps \cup {p})
BY DEF InRouter, OneInRouter, Owed

LEMMA RouterLoses ==
    ASSUME NEW ps, NEW p \in ps, OneInRouter(ps), Owed(ps)
    PROVE  /\ \A r \in Others : Count(InRouter(ps, r))
                 = Count(InRouter(ps \ {p}, r)) + Count(p.client = r)
           /\ OneInRouter(ps \ {p}) /\ Owed(ps \ {p})
<1>1. ASSUME NEW r \in Others
      PROVE  /\ InRouter(ps, r) <=> InRouter(ps \ {p}, r) \/ p.client = r
             /\ ~(InRouter(ps \ {p}, r) /\ p.client = r)
    BY DEF InRouter, OneInRouter
<1>2. OneInRouter(ps \ {p}) /\ Owed(ps \ {p})
    BY DEF OneInRouter, Owed
<1> QED BY <1>1, <1>2 DEF Count

LEMMA QueueGains ==
    ASSUME NEW q \in Seq(Asks), NEW x \in Asks
    PROVE  /\ \A r : InQueue(Append(q, x), r) <=> InQueue(q, r) \/ x.seq = r
           /\ OneInQueue(q) /\ ~InQueue(q, x.seq) => OneInQueue(Append(q, x))
<1>1. /\ Len(q) \in Nat /\ Len(Append(q, x)) = Len(q) + 1
      /\ \A i \in 1 .. Len(q) : Append(q, x)[i] = q[i]
      /\ Append(q, x)[Len(q) + 1] = x
    OBVIOUS
<1>2. \A i : i \in 1 .. Len(q) + 1 <=> i \in 1 .. Len(q) \/ i = Len(q) + 1
    BY <1>1
<1>3. \A r : InQueue(Append(q, x), r) <=> InQueue(q, r) \/ x.seq = r
    BY <1>1, <1>2 DEF InQueue
<1>4. OneInQueue(q) /\ ~InQueue(q, x.seq) => OneInQueue(Append(q, x))
    BY <1>1, <1>2 DEF InQueue, OneInQueue
<1> QED BY <1>3, <1>4

LEMMA QueueLoses ==
    ASSUME NEW q \in Seq(Asks), q # <<>>, OneInQueue(q)
    PROVE  /\ \A r : Count(InQueue(q, r))
                 = Count(InQueue(Tail(q), r)) + Count(Head(q).seq = r)
           /\ OneInQueue(Tail(q))
<1>1. /\ Len(q) \in Nat \ {0} /\ Len(Tail(q)) = Len(q) - 1 /\ Head(q) = q[1]
      /\ \A i \in 1 .. Len(q) - 1 : Tail(q)[i] = q[i + 1]
    OBVIOUS
<1>2. /\ 1 \in 1 .. Len(q)
      /\ \A i \in 1 .. Len(q) - 1 : i + 1 \in 1 .. Len(q) /\ i + 1 # 1
      /\ \A i \in 1 .. Len(q) : i # 1 => i - 1 \in 1 .. Len(q) - 1 /\ (i - 1) + 1 = i
    BY <1>1
<1>3. ASSUME NEW r
      PROVE  /\ InQueue(q, r) <=> InQueue(Tail(q), r) \/ Head(q).seq = r
             /\ ~(InQueue(Tail(q), r) /\ Head(q).seq = r)
    BY <1>1, <1>2 DEF InQueue, OneInQueue
<1>4. OneInQueue(Tail(q))
    <2> SUFFICES ASSUME NEW i \in 1 .. Len(q) - 1, NEW j \in 1 .. Len(q) - 1,
                        q[i + 1].seq = q[j + 1].seq
                 PROVE  i = j
        BY <1>1 DEF OneInQueue
    <2>1. i + 1 = j + 1
        BY <1>2 DEF OneInQueue
    <2> QED BY <2>1
<1> QED BY <1>3, <1>4 DEF Count

LEMMA ReadsGain ==
    ASSUME NEW waiting, NEW job
    PROVE  /\ \A r : Reads(waiting \cup {job}, r) <=> Reads(waiting, r) \/ job.cause = r
           /\ OneRead(waiting) /\ ~Reads(waiting, job.cause) => OneRead(waiting \cup {job})
           /\ ReadsOwed(waiting) /\ job.cause \in Others => ReadsOwed(waiting \cup {job})
BY DEF Reads, OneRead, ReadsOwed

LEMMA ReadsLose ==
    ASSUME NEW waiting, NEW job \in waiting, OneRead(waiting), ReadsOwed(waiting)
    PROVE  /\ \A r : Count(Reads(waiting, r))
                 = Count(Reads(waiting \ {job}, r)) + Count(job.cause = r)
           /\ OneRead(waiting \ {job}) /\ ReadsOwed(waiting \ {job})
<1>1. ASSUME NEW r
      PROVE  /\ Reads(waiting, r) <=> Reads(waiting \ {job}, r) \/ job.cause = r
             /\ ~(Reads(waiting \ {job}, r) /\ job.cause = r)
    BY DEF Reads, OneRead
<1>2. OneRead(waiting \ {job}) /\ ReadsOwed(waiting \ {job})
    BY DEF OneRead, ReadsOwed
<1> QED BY <1>1, <1>2 DEF Count


-----------------------------------------------------------------------------
(* The steps every handler shares.                                           *)

SameFlow == /\ fromClient' = fromClient
            /\ client'.next = client.next /\ client'.left = client.left

LEMMA FlowKept ==
    ASSUME Inflow, SameFlow
    PROVE  Inflow' /\ \A r : Coming(r)' <=> Coming(r)
BY DEF Inflow, SameFlow, Coming

LEMMA BalanceTyped ==
    ASSUME NEW r \in Others, NEW ps, NEW b, NEW waiting, NEW c \in Editors
    PROVE  /\ c.answers[r] \in Nat
           /\ Balance(r, ps, b, waiting, c) \in Nat
           /\ c.answers[r] <= Balance(r, ps, b, waiting, c)
<1>1. c.answers[r] \in Nat
    BY DEF Editors, Others
<1> QED BY <1>1 DEF Balance, Count

LEMMA BalancedBounds ==
    ASSUME Types, Balanced
    PROVE  NoneTwice
<1> SUFFICES ASSUME NEW r \in Others PROVE client.answers[r] <= 1
    BY DEF NoneTwice
<1>1. client.answers[r] \in Nat
    BY DEF Types, Editors, Others
<1>2. Balance(r, pending, breakpoints, inspection.waiting, client) \in Nat
      /\ client.answers[r] <= Balance(r, pending, breakpoints, inspection.waiting, client)
    BY BalanceTyped DEF Types
<1>3. Count(Coming(r))
          + Balance(r, pending, breakpoints, inspection.waiting, client) = 1
    BY DEF Balanced
<1> QED BY <1>1, <1>2, <1>3 DEF Count

\* A step of the loop that passes requests on and keeps the balance.
LEMMA Rebalances ==
    ASSUME AnswersInv, Types', Inflow', LaunchOnce',
           at' = "loop" \/ EnterDrain \/ KeepDraining,
           \A r \in Others :
               Count(Coming(r)') + Balance(r, pending', breakpoints',
                                           inspection'.waiting, client') = 1,
           Sane(pending', breakpoints', inspection'.waiting)
    PROVE  AnswersInv'
<1>1. Balanced'
    BY DEF Balanced, Balance
<1>2. NoneTwice'
    BY <1>1, BalancedBounds, PTL
<1>3. DrainsAtRest'
    BY DEF DrainsAtRest, EnterDrain, KeepDraining
<1> QED BY <1>1, <1>2, <1>3 DEF AnswersInv, Sane

LEMMA Rebalanced ==
    ASSUME AnswersInv, Types', SameFlow, LaunchOnce',
           at' = "loop" \/ EnterDrain \/ KeepDraining,
           \A r \in Others :
               Balance(r, pending', breakpoints', inspection'.waiting, client')
               = Balance(r, pending, breakpoints, inspection.waiting, client),
           Sane(pending', breakpoints', inspection'.waiting),
           at \in {"loop", "drain"}
    PROVE  AnswersInv'
<1>1. Inflow' /\ \A r : Coming(r)' <=> Coming(r)
    BY FlowKept DEF AnswersInv
<1>2. ASSUME NEW r \in Others
      PROVE  Count(Coming(r)') + Balance(r, pending', breakpoints',
                                         inspection'.waiting, client') = 1
    <2>1. Count(Coming(r)') = Count(Coming(r))
        BY <1>1 DEF Count
    <2> QED BY <2>1 DEF AnswersInv, Balanced
<1> QED BY <1>1, <1>2, Rebalances

\* An error answers whoever is left; nothing is owed after it.
LEMMA RaiseBalances ==
    ASSUME AnswersInv, at \in {"loop", "drain"}, Types',
           NEW c \in Editors, NEW ps, NEW ws, Raise(c, ps, ws),
           Sane(ps, breakpoints, inspection.waiting),
           fromClient' = fromClient, c.next = client.next, c.left = client.left,
           \A r \in Others :
               Balance(r, ps, breakpoints, inspection.waiting, c)
               = Balance(r, pending, breakpoints, inspection.waiting, client),
           c.answers[Launch] = client.answers[Launch]
    PROVE  AnswersInv'
<1> DEFINE c1 == AnswerCancelled(c)
           c2 == AnswerStale(c1)
           c3 == CancelLaunch(c2)
           c4 == Answer(c3, Asked(ps), "error")
<1>0. Types /\ session \in Flags
    BY DEF AnswersInv, Types
<1>1. c1 \in Editors /\ c2 \in Editors /\ c3 \in Editors
    BY CancelsTyped
<1>2. /\ \A r \in Others : c1.answers[r]
             = c.answers[r] + Count(breakpoints.function = r)
               + Count(breakpoints.panic = r) + Count(InQueue(breakpoints.deferred, r))
      /\ c1.answers[Launch] = c.answers[Launch]
      /\ c1.next = c.next /\ c1.left = c.left
    BY <1>0, CancelledCounts
<1> HIDE DEF c1
<1>3. /\ \A r \in Others : c2.answers[r]
             = c1.answers[r] + Count(Reads(inspection.waiting, r))
      /\ c2.answers[Launch] = c1.answers[Launch]
      /\ c2.next = c1.next /\ c2.left = c1.left
    BY <1>1, StaleCounts DEF Sane
<1> HIDE DEF c2
<1>4. /\ \A r \in Others : c3.answers[r] = c2.answers[r]
      /\ c2.answers[Launch] = Count(session.launchAnswered) => c3.answers[Launch] = 1
      /\ c3.next = c2.next /\ c3.left = c2.left
    BY <1>0, <1>1, LaunchCounts DEF Flags
<1> HIDE DEF c3
<1>5. /\ \A r \in Requests : c4.answers[r] = c3.answers[r] + Count(r \in Asked(ps))
      /\ c4.next = c3.next /\ c4.left = c3.left
    BY <1>1, AnswerCounts
<1>6. client' = c4
    BY DEF Raise, c1, c2, c3
<1> HIDE DEF c4
<1>7. /\ \A r \in Others : r \in Requests /\ r # Launch /\ r > 0
      /\ Launch \in Requests
    BY Values DEF Others, Requests
<1>8. \A r \in Others : r \in Asked(ps) <=> InRouter(ps, r)
    BY <1>7 DEF Asked, InRouter, Sane, Owed
<1>9. Launch \notin Asked(ps)
    BY DEF Asked, Sane, Owed
<1>10. LaunchOnce'
    <2>1. Count(Launch \in Asked(ps)) = 0
        BY <1>9 DEF Count
    <2>2. client'.answers[Launch] = 1
        BY <1>2, <1>3, <1>4, <1>5, <1>6, <1>7, <2>1 DEF AnswersInv, LaunchOnce
    <2>3. session'.launchAnswered = TRUE
        BY <1>0 DEF Raise, Flags
    <2> QED BY <2>2, <2>3 DEF LaunchOnce, Count
<1>11. NoneTwice'
    <2> SUFFICES ASSUME NEW r \in Others PROVE client'.answers[r] <= 1
        BY DEF NoneTwice
    <2>1. Count(r \in Asked(ps)) = Count(InRouter(ps, r))
        BY <1>8 DEF Count
    <2>2. client'.answers[r] = Balance(r, ps, breakpoints, inspection.waiting, c)
        <3>1. c.answers[r] \in Nat
            BY <1>7 DEF Editors
        <3> QED BY <1>2, <1>3, <1>4, <1>5, <1>6, <1>7, <2>1, <3>1 DEF Balance, Count
    <2>3. Count(Coming(r)) + Balance(r, ps, breakpoints, inspection.waiting, c) = 1
          /\ Balance(r, ps, breakpoints, inspection.waiting, c) \in Nat
        BY BalanceTyped DEF AnswersInv, Balanced
    <2> QED BY <2>2, <2>3 DEF Count
<1>12. Inflow' /\ DrainsAtRest' /\ at' = "shutdown"
    <2>1. SameFlow /\ at' = "shutdown"
        BY <1>2, <1>3, <1>4, <1>5, <1>6 DEF SameFlow, Raise
    <2> QED BY <2>1, FlowKept DEF AnswersInv, DrainsAtRest
<1> QED BY <1>10, <1>11, <1>12 DEF AnswersInv

\* A request of the loop's own is owed to nobody.
OwnRequest(p) == p.client = NoRequest /\ p.command # "launch"

LEMMA OwnSent ==
    ASSUME NEW ps, NEW p, OwnRequest(p), OneInRouter(ps), Owed(ps)
    PROVE  /\ \A r \in Others : InRouter(ps \cup {p}, r) <=> InRouter(ps, r)
           /\ OneInRouter(ps \cup {p}) /\ Owed(ps \cup {p})
<1>1. NoRequest # Launch /\ NoRequest \notin Others
    BY DEF NoRequest, Launch, Others, Requests
<1> QED BY <1>1, RouterGains DEF OwnRequest

LEMMA PublishConditionStopSame ==
    ASSUME NEW stop, NEW c \in Editors, NEW cond, NEW ws, NEW revision,
           PublishConditionStop(stop, c, cond, ws, revision)
    PROVE  SameEditor(client', c)
BY TellsSame DEF PublishConditionStop, SameEditor

LEMMA PublishStopSame ==
    ASSUME NEW stop, NEW c \in Editors, NEW cond, NEW ws, NEW revision,
           PublishStop(stop, c, cond, ws, revision),
           OneInRouter(pending), Owed(pending)
    PROVE  /\ SameEditor(client', c)
           /\ \A r \in Others : InRouter(pending', r) <=> InRouter(pending, r)
           /\ OneInRouter(pending') /\ Owed(pending')
<1>1. CASE breakpoints.panicInstalled /\ "panic" \in stop.ids
    <2> DEFINE p == Outgoing(FreshSeq(pending), NoRequest, "stackTrace",
                             "stopContext", "none", stop, 0, revision)
    <2>1. OwnRequest(p) /\ pending' = pending \cup {p} /\ client' = c
        BY <1>1 DEF PublishStop, Send, OwnRequest, Outgoing
    <2> HIDE DEF p
    <2> QED BY <2>1, OwnSent DEF SameEditor
<1>2. CASE ~(breakpoints.panicInstalled /\ "panic" \in stop.ids)
    <2>1. PublishConditionStop(stop, c, cond, ws, revision) /\ pending' = pending
        BY <1>2 DEF PublishStop
    <2> QED BY <2>1, PublishConditionStopSame
<1> QED BY <1>1, <1>2


-----------------------------------------------------------------------------
(* A request that the loop has in hand.                                      *)

\* Whoever has a request in hand is its only holder.
LEMMA InHand ==
    ASSUME NEW h \in Others, NEW ps, NEW b, NEW waiting, NEW c \in Editors,
           Count(h = h) + Balance(h, ps, b, waiting, c) <= 1
    PROVE  /\ ~InRouter(ps, h) /\ ~InQueue(b.deferred, h) /\ ~Reads(waiting, h)
           /\ b.function # h /\ b.panic # h /\ c.answers[h] = 0
<1>1. c.answers[h] \in Nat
    BY DEF Editors, Others
<1> QED BY <1>1 DEF Balance, Count

\* It is answered at once, ...
LEMMA ReplyBalances ==
    ASSUME NEW req \in Asks, NEW b, NEW o, Types, ReplyAtOnce(req, o, b)
    PROVE  /\ \A r \in Others :
                 Balance(r, pending', breakpoints', inspection'.waiting, client')
                 = Count(r = req.seq)
                   + Balance(r, pending, b, inspection.waiting, client)
           /\ client'.answers[Launch] = client.answers[Launch]
           /\ client'.next = client.next /\ client'.left = client.left
<1>1. /\ client \in Editors /\ req.seq \in Others /\ Launch \in Requests
      /\ Others \subseteq Requests /\ Launch \notin Others
    BY Values DEF Types, Asks, Others
<1>2. /\ \A r \in Requests : client'.answers[r] = client.answers[r] + Count(r \in {req.seq})
      /\ client'.next = client.next /\ client'.left = client.left
    BY <1>1, AnswerCounts DEF ReplyAtOnce
<1>3. \A r \in Requests : client.answers[r] \in Nat
    BY <1>1 DEF Editors
<1>4. UNCHANGED <<pending, inspection>> /\ breakpoints' = b
    BY DEF ReplyAtOnce
<1>5. ASSUME NEW r \in Others
      PROVE  Balance(r, pending', breakpoints', inspection'.waiting, client')
             = Count(r = req.seq) + Balance(r, pending, b, inspection.waiting, client)
    <2>1. client'.answers[r] = client.answers[r] + Count(r = req.seq)
        BY <1>1, <1>2 DEF Count
    <2> QED BY <1>1, <1>3, <1>4, <2>1 DEF Balance, Count
<1>6. client'.answers[Launch] = client.answers[Launch]
    BY <1>1, <1>2, <1>3 DEF Count
<1> QED BY <1>2, <1>5, <1>6

\* ... or forwarded.
LEMMA ForwardBalances ==
    ASSUME NEW req \in Asks, NEW p, p.client = req.seq, p.command = req.command,
           p.use = "client", NEW ps, OneInRouter(ps), Owed(ps), ~InRouter(ps, req.seq)
    PROVE  /\ \A r \in Others : Count(InRouter(ps \cup {p}, r))
                                = Count(InRouter(ps, r)) + Count(r = req.seq)
           /\ OneInRouter(ps \cup {p}) /\ Owed(ps \cup {p})
<1>1. req.seq # Launch /\ req.command \notin {"launch", "initialize"}
    BY DEF Asks, AllCommands
<1>2. \A r : InRouter(ps \cup {p}, r) <=> InRouter(ps, r) \/ p.client = r
    BY RouterGains
<1>3. OneInRouter(ps \cup {p}) /\ Owed(ps \cup {p})
    BY <1>1, RouterGains
<1> QED BY <1>2, <1>3 DEF Count

LEMMA Forwarded ==
    ASSUME NEW req \in Asks, Forward(req, req.command),
           OneInRouter(pending), Owed(pending), ~InRouter(pending, req.seq)
    PROVE  /\ \A r \in Others : Count(InRouter(pending', r))
                                = Count(InRouter(pending, r)) + Count(r = req.seq)
           /\ OneInRouter(pending') /\ Owed(pending')
<1> DEFINE p == Outgoing(FreshSeq(pending), req.seq, req.command, "client", req.kind,
                         NoStop, 0, session.revision)
<1>1. /\ p.client = req.seq /\ p.command = req.command /\ p.use = "client"
      /\ pending' = pending \cup {p}
    BY DEF Forward, Send, Outgoing
<1> HIDE DEF p
<1> QED BY <1>1, ForwardBalances

LEMMA PerformBalances ==
    ASSUME Types, NEW req \in Asks, NEW b \in BreakpointStates, Perform(req, b),
           Deferrable(req.command) => b.function = NoRequest /\ b.panic = None,
           Sane(pending, b, inspection.waiting), LaunchOnce,
           \A r \in Others :
               Count(r = req.seq) + Balance(r, pending, b, inspection.waiting, client) <= 1
    PROVE  /\ \A r \in Others :
                 Balance(r, pending', breakpoints', inspection'.waiting, client')
                 = Count(r = req.seq)
                   + Balance(r, pending, b, inspection.waiting, client)
           /\ Sane(pending', breakpoints', inspection'.waiting)
           /\ client'.next = client.next /\ client'.left = client.left
           /\ LaunchOnce'
<1> DEFINE Moved == \A r \in Others :
               Balance(r, pending', breakpoints', inspection'.waiting, client')
               = Count(r = req.seq) + Balance(r, pending, b, inspection.waiting, client)
           Goal == /\ Moved /\ Sane(pending', breakpoints', inspection'.waiting)
                   /\ client'.next = client.next /\ client'.left = client.left
                   /\ LaunchOnce'
<1>0. /\ client \in Editors /\ session \in Flags /\ inspection \in Inspections
      /\ req.seq \in Others /\ Others \subseteq Requests
      /\ NoRequest \notin Others /\ None \notin Others /\ 0 \notin Others
      /\ \A r \in Others : client.answers[r] \in Nat
      /\ b.deferred \in Seq(Asks)
    <2>1. client \in Editors /\ session \in Flags /\ inspection \in Inspections
        BY DEF Types
    <2>2. req.seq \in Others /\ Others \subseteq Requests
        BY DEF Asks, Others
    <2>3. NoRequest \notin Others /\ None \notin Others /\ 0 \notin Others
        BY DEF Others, Requests, NoRequest, None
    <2>4. \A r \in Others : client.answers[r] \in Nat
        BY <2>1, <2>2 DEF Editors
    <2> QED BY <2>1, <2>2, <2>3, <2>4 DEF BreakpointStates
<1>1. /\ ~InRouter(pending, req.seq) /\ ~InQueue(b.deferred, req.seq)
      /\ ~Reads(inspection.waiting, req.seq)
    BY <1>0, InHand
<1>2. ASSUME NEW o, ReplyAtOnce(req, o, b)
      PROVE  Goal
    <2>1. UNCHANGED <<pending, inspection, session>> /\ breakpoints' = b
        BY <1>2 DEF ReplyAtOnce
    <2> QED BY <1>2, <2>1, ReplyBalances DEF LaunchOnce
<1>3. ASSUME Forward(req, req.command), UNCHANGED <<inspection, client>>, breakpoints' = b,
             session'.launchAnswered = session.launchAnswered
      PROVE  Goal
    <2> DEFINE p == Outgoing(FreshSeq(pending), req.seq, req.command, "client", req.kind,
                             NoStop, 0, session.revision)
    <2>1. /\ p.client = req.seq /\ p.command = req.command /\ p.use = "client"
          /\ pending' = pending \cup {p}
        BY <1>3 DEF Forward, Send, Outgoing
    <2> HIDE DEF p
    <2>2. /\ \A r \in Others : Count(InRouter(pending', r))
                               = Count(InRouter(pending, r)) + Count(r = req.seq)
          /\ OneInRouter(pending') /\ Owed(pending')
        BY <1>1, <2>1, ForwardBalances DEF Sane
    <2>3. Moved
        BY <1>0, <1>3, <2>2 DEF Balance, Count
    <2> QED BY <1>3, <2>2, <2>3 DEF Sane, LaunchOnce
<1>4. CASE Refused(req) /\ ReplyAtOnce(req, "error", b)
    BY <1>2, <1>4
<1>5. CASE ReplaceFunctions(req, b)
    <2>1. b.function = NoRequest
        BY <1>5 DEF ReplaceFunctions, Deferrable
    <2>2. /\ UNCHANGED <<session, pending, inspection, client>>
          /\ breakpoints'.function = req.seq /\ breakpoints'.panic = b.panic
          /\ breakpoints'.deferred = b.deferred
        BY <1>5 DEF ReplaceFunctions, BreakpointStates
    <2>3. Moved
        BY <1>0, <2>1, <2>2 DEF Balance, Count
    <2> QED BY <2>2, <2>3 DEF Sane, LaunchOnce
<1>6. CASE ReplacePanic(req, b)
    <2>1. b.panic = None
        BY <1>6 DEF ReplacePanic, Deferrable
    <2>2. /\ UNCHANGED <<session, pending, inspection, client>>
          /\ breakpoints'.panic = req.seq /\ breakpoints'.function = b.function
          /\ breakpoints'.deferred = b.deferred
        BY <1>6 DEF ReplacePanic, BreakpointStates
    <2>3. Moved
        BY <1>0, <2>1, <2>2 DEF Balance, Count
    <2> QED BY <2>2, <2>3 DEF Sane, LaunchOnce
<1>7. CASE ReplaceSources(req, b) \/ StackTrace(req, b)
    BY <1>3, <1>7 DEF ReplaceSources, StackTrace
<1>8. CASE ConfigurationDone(req, b)
    <2>1. CASE b.panicConfigured
        <3>1. session'.launchAnswered = session.launchAnswered
            BY <1>0, <1>8, <2>1 DEF ConfigurationDone, Flags
        <3> QED BY <1>3, <1>8, <2>1, <3>1 DEF ConfigurationDone
    <2>2. CASE ~b.panicConfigured
        <3>1. b.panic = None
            BY <1>8 DEF ConfigurationDone, Deferrable
        <3>2. /\ UNCHANGED <<session, pending, inspection, client>>
              /\ breakpoints'.panic = 0 /\ breakpoints'.function = b.function
              /\ breakpoints'.deferred = Append(b.deferred, req)
            BY <1>8, <2>2 DEF ConfigurationDone, BreakpointStates
        <3>3. /\ \A r : InQueue(breakpoints'.deferred, r)
                            <=> InQueue(b.deferred, r) \/ req.seq = r
              /\ OneInQueue(breakpoints'.deferred)
            BY <1>0, <1>1, <3>2, QueueGains DEF Sane
        <3>4. Moved
            BY <1>0, <1>1, <3>1, <3>2, <3>3 DEF Balance, Count
        <3> QED BY <3>2, <3>3, <3>4 DEF Sane, LaunchOnce
    <2> QED BY <2>1, <2>2
<1>9. CASE Threads(req, b)
    BY <1>2, <1>3, <1>9 DEF Threads
<1>10. CASE Variables(req, b)
    <2> DEFINE job == [NoJob EXCEPT !.cause = req.seq, !.epoch = InspectionEpoch,
                                    !.frame = req.frame]
    <2>1. /\ inspection' = [inspection EXCEPT !.waiting = @ \cup {job}]
          /\ UNCHANGED <<session, pending, client>> /\ breakpoints' = b
        BY <1>10 DEF Variables
    <2>2. job.cause = req.seq
        BY Values DEF Orders
    <2> HIDE DEF job
    <2>3. inspection'.waiting = inspection.waiting \cup {job}
        BY <1>0, <2>1 DEF Inspections
    <2>4. /\ \A r : Reads(inspection'.waiting, r)
                        <=> Reads(inspection.waiting, r) \/ req.seq = r
          /\ OneRead(inspection'.waiting) /\ ReadsOwed(inspection'.waiting)
        <3> DEFINE waiting == inspection.waiting \cup {job}
        <3>1. OneRead(inspection.waiting) /\ ReadsOwed(inspection.waiting)
            BY DEF Sane
        <3>2. /\ \A r : Reads(waiting, r) <=> Reads(inspection.waiting, r) \/ job.cause = r
              /\ OneRead(waiting) /\ ReadsOwed(waiting)
            BY <1>0, <1>1, <2>2, <3>1, ReadsGain
        <3> HIDE DEF waiting
        <3>3. inspection'.waiting = waiting
            BY <2>3 DEF waiting
        <3> QED BY <2>2, <3>2, <3>3
    <2>5. Moved
        <3> SUFFICES ASSUME NEW r \in Others
                     PROVE  Balance(r, pending', breakpoints', inspection'.waiting, client')
                            = Count(r = req.seq)
                              + Balance(r, pending, b, inspection.waiting, client)
            OBVIOUS
        <3>1. Count(Reads(inspection'.waiting, r))
                  = Count(Reads(inspection.waiting, r)) + Count(r = req.seq)
            BY <1>1, <2>4 DEF Count
        <3> QED BY <1>0, <2>1, <3>1 DEF Balance, Count
    <2> QED BY <2>1, <2>4, <2>5 DEF Sane, LaunchOnce
<1>11. CASE Resume(req, b)
    <2> DEFINE p == Outgoing(FreshSeq(pending), req.seq, req.command, "client", "none",
                             NoStop, 0, session.revision + 1)
    <2>1. /\ p.client = req.seq /\ p.command = req.command /\ p.use = "client"
          /\ pending' = pending \cup {p} /\ breakpoints' = b
          /\ inspection' = NoInspection
          /\ session'.launchAnswered = session.launchAnswered
        BY <1>0, <1>11 DEF Resume, Send, Outgoing, Flags
    <2> HIDE DEF p
    <2>2. /\ \A r \in Others : Count(InRouter(pending', r))
                               = Count(InRouter(pending, r)) + Count(r = req.seq)
          /\ OneInRouter(pending') /\ Owed(pending')
        BY <1>1, <2>1, ForwardBalances DEF Sane
    <2>3. SameEditor(client', AnswerStale(client))
        <3>1. client' = [AnswerStale(client) EXCEPT !.view = "running", !.resume = req.seq]
            BY <1>11 DEF Resume
        <3>2. AnswerStale(client) \in Editors
            BY <1>0, CancelsTyped
        <3> QED BY <3>1, <3>2 DEF SameEditor, Editors
    <2>4. /\ \A r \in Others : AnswerStale(client).answers[r]
                 = client.answers[r] + Count(Reads(inspection.waiting, r))
          /\ AnswerStale(client).answers[Launch] = client.answers[Launch]
          /\ AnswerStale(client).next = client.next
          /\ AnswerStale(client).left = client.left
        BY <1>0, StaleCounts DEF Sane
    <2>5. /\ \A r : ~Reads(inspection'.waiting, r)
          /\ OneRead(inspection'.waiting) /\ ReadsOwed(inspection'.waiting)
        BY <2>1 DEF NoInspection, Reads, OneRead, ReadsOwed
    <2>6. Moved
        <3> SUFFICES ASSUME NEW r \in Others
                     PROVE  Balance(r, pending', breakpoints', inspection'.waiting, client')
                            = Count(r = req.seq)
                              + Balance(r, pending, b, inspection.waiting, client)
            OBVIOUS
        <3>1. client'.answers[r]
                  = client.answers[r] + Count(Reads(inspection.waiting, r))
            BY <2>3, <2>4 DEF SameEditor
        <3>2. Count(Reads(inspection'.waiting, r)) = 0
            BY <2>5 DEF Count
        <3>3. Count(InRouter(pending', r)) = Count(InRouter(pending, r)) + Count(r = req.seq)
            BY <2>2
        <3> QED BY <1>0, <2>1, <3>1, <3>2, <3>3 DEF Balance, Count
    <2> QED BY <2>1, <2>2, <2>3, <2>4, <2>5, <2>6 DEF Sane, LaunchOnce, SameEditor
<1>12. CASE Pause(req, b)
    <2>1. session'.launchAnswered = session.launchAnswered
        BY <1>0, <1>12 DEF Pause, Flags
    <2> QED BY <1>3, <1>12, <2>1 DEF Pause
<1> QED BY <1>4, <1>5, <1>6, <1>7, <1>8, <1>9, <1>10, <1>11, <1>12 DEF Perform


\* The loop takes the editor's next request.
LEMMA Taking ==
    ASSUME Types, Inflow, fromClient # <<>>, fromClient' = Tail(fromClient),
           client'.next = client.next, client'.left = client.left
    PROVE  /\ Inflow'
           /\ Head(fromClient).command # "eof" =>
                 \A r : Count(Coming(r))
                        = Count(Coming(r)') + Count(r = Head(fromClient).seq)
<1> DEFINE q == fromClient
<1>0. q \in Seq(Asks \cup Eofs) /\ client.next \in Nat
      /\ \A x \in Asks \cup Eofs : x.seq \in Nat
    BY LiveAssumption DEF Types, Editors, Asks, Eofs, Requests
<1>1. /\ Len(q) \in Nat \ {0} /\ Len(Tail(q)) = Len(q) - 1 /\ Head(q) = q[1]
      /\ \A i \in 1 .. Len(q) - 1 : Tail(q)[i] = q[i + 1]
      /\ \A i \in 1 .. Len(q) : q[i] \in Asks \cup Eofs
    BY <1>0
<1>2. \A i \in 1 .. Len(q) : q[i].seq \in Nat
    BY <1>0, <1>1
<1>3. /\ 1 \in 1 .. Len(q)
      /\ \A i \in 1 .. Len(q) - 1 : i + 1 \in 1 .. Len(q) /\ 1 < i + 1
      /\ \A i \in 1 .. Len(q) : i # 1 => i - 1 \in 1 .. Len(q) - 1 /\ (i - 1) + 1 = i
    BY <1>1
<1>4. Inflow'
    <2>1. ASSUME NEW i \in 1 .. Len(q) - 1, NEW j \in 1 .. Len(q) - 1, i < j
          PROVE  q[i + 1].seq < q[j + 1].seq
        <3>1. i + 1 < j + 1 /\ i + 1 \in 1 .. Len(q) /\ j + 1 \in 1 .. Len(q)
            BY <1>3, <2>1
        <3> QED BY <3>1 DEF Inflow
    <2>2. \A i \in 1 .. Len(q) - 1 :
              IF q[i + 1].command = "eof"
              THEN client.left /\ q[i + 1].seq = client.next
              ELSE q[i + 1].seq < client.next
        BY <1>3 DEF Inflow
    <2> QED BY <1>1, <2>1, <2>2 DEF Inflow
<1>5. ASSUME Head(q).command # "eof", NEW r
      PROVE  Count(Coming(r)) = Count(Coming(r)') + Count(r = Head(q).seq)
    <2>1. q[1].seq < client.next
        BY <1>1, <1>3, <1>5 DEF Inflow
    <2>2. \A i \in 1 .. Len(q) - 1 : q[1].seq < q[i + 1].seq
        BY <1>3 DEF Inflow
    <2>3. Coming(r)' <=> r >= client.next \/ \E i \in 1 .. Len(q) - 1 : q[i + 1].seq = r
        BY <1>1 DEF Coming
    <2>4. Coming(r) <=> Coming(r)' \/ r = q[1].seq
        BY <1>1, <1>3, <2>3 DEF Coming
    <2>5. ~(Coming(r)' /\ r = q[1].seq)
        <3> SUFFICES ASSUME r = q[1].seq PROVE ~Coming(r)'
            OBVIOUS
        <3>1. ~(r >= client.next)
            BY <1>0, <1>2, <1>3, <2>1
        <3>2. \A i \in 1 .. Len(q) - 1 : q[i + 1].seq # r
            BY <1>2, <1>3, <2>2
        <3> QED BY <2>3, <3>1, <3>2
    <2> QED BY <1>1, <2>4, <2>5 DEF Count
<1> QED BY <1>4, <1>5

\* A request that was coming and is in hand, and the step that places it.
LEMMA TakenRebalanced ==
    ASSUME AnswersInv, Types', at = "loop", fromClient # <<>>,
           fromClient' = Tail(fromClient), Head(fromClient).command # "eof",
           client'.next = client.next, client'.left = client.left,
           at' = "loop" \/ EnterDrain \/ KeepDraining, LaunchOnce',
           \A r \in Others :
               Balance(r, pending', breakpoints', inspection'.waiting, client')
               = Count(r = Head(fromClient).seq)
                 + Balance(r, pending, breakpoints, inspection.waiting, client),
           Sane(pending', breakpoints', inspection'.waiting)
    PROVE  AnswersInv'
<1>1. /\ Inflow'
      /\ \A r : Count(Coming(r)) = Count(Coming(r)') + Count(r = Head(fromClient).seq)
    BY Taking DEF AnswersInv
<1>2. ASSUME NEW r \in Others
      PROVE  Count(Coming(r)') + Balance(r, pending', breakpoints',
                                         inspection'.waiting, client') = 1
    <2>1. /\ Count(Coming(r))
                 + Balance(r, pending, breakpoints, inspection.waiting, client) = 1
          /\ Balance(r, pending, breakpoints, inspection.waiting, client) \in Nat
        BY BalanceTyped DEF AnswersInv, Balanced, Types
    <2>2. Count(Coming(r)) = Count(Coming(r)') + Count(r = Head(fromClient).seq)
        BY <1>1
    <2>3. Count(Coming(r)') \in Nat /\ Count(r = Head(fromClient).seq) \in Nat
        BY DEF Count
    <2>4. Balance(r, pending', breakpoints', inspection'.waiting, client')
          = Count(r = Head(fromClient).seq)
            + Balance(r, pending, breakpoints, inspection.waiting, client)
        OBVIOUS
    <2> QED BY <2>1, <2>2, <2>3, <2>4
<1> QED BY <1>1, <1>2, Rebalances

\* The request in hand is with nobody else.
LEMMA TakenAlone ==
    ASSUME AnswersInv, at = "loop", fromClient # <<>>
    PROVE  \A r \in Others :
               Count(r = Head(fromClient).seq)
               + Balance(r, pending, breakpoints, inspection.waiting, client) <= 1
<1> SUFFICES ASSUME NEW r \in Others
             PROVE  Count(r = Head(fromClient).seq)
                    + Balance(r, pending, breakpoints, inspection.waiting, client) <= 1
    OBVIOUS
<1>1. Coming(Head(fromClient).seq)
    <2>1. fromClient \in Seq(Asks \cup Eofs)
        BY DEF AnswersInv, Types
    <2>2. 1 \in 1 .. Len(fromClient) /\ Head(fromClient) = fromClient[1]
        BY <2>1
    <2> QED BY <2>2 DEF Coming
<1>2. /\ Count(Coming(r))
             + Balance(r, pending, breakpoints, inspection.waiting, client) = 1
      /\ Balance(r, pending, breakpoints, inspection.waiting, client) \in Nat
    BY BalanceTyped DEF AnswersInv, Balanced, Types
<1>3. r = Head(fromClient).seq => Coming(r)
    BY <1>1
<1> QED BY <1>2, <1>3 DEF Count

LEMMA ClientAnswers == AnswersInv /\ OnClient => AnswersInv'
<1> SUFFICES ASSUME AnswersInv, NEW req, req = Head(fromClient), fromClient # <<>>,
                    \/ DeferRequest(req) \/ InterruptCondition(req)
                    \/ PerformRequest(req) \/ Disconnect(req)
                    \/ RefuseWhileClosing(req) \/ ClientEof(req)
             PROVE  AnswersInv'
    BY DEF OnClient
<1>1. /\ at = "loop" /\ fromClient' = Tail(fromClient)
      /\ req.command # "eof" => req \in Asks
    <2>1. TakeRequest(req)
        BY DEF DeferRequest, InterruptCondition, PerformRequest, Disconnect,
           RefuseWhileClosing, ClientEof
    <2>2. req \in Asks \cup Eofs
        BY HeadTyped DEF AnswersInv, Types
    <2> QED BY <2>1, <2>2 DEF TakeRequest, Eofs
<1>2. Types'
    <2>1. OnClient
        BY DEF OnClient
    <2> QED BY <2>1, ClientTyped DEF AnswersInv
<1>3. /\ Types /\ client \in Editors /\ session \in Flags /\ inspection \in Inspections
      /\ breakpoints \in BreakpointStates /\ breakpoints.deferred \in Seq(Asks)
      /\ Sane(pending, breakpoints, inspection.waiting) /\ LaunchOnce
    BY <1>1 DEF AnswersInv, Types, BreakpointStates
<1>4. ASSUME req.command # "eof"
      PROVE  /\ req.seq \in Others
             /\ ~InRouter(pending, req.seq) /\ ~InQueue(breakpoints.deferred, req.seq)
    <2>1. req.seq \in Others
        BY <1>1, <1>4 DEF Asks, Others
    <2>2. Count(req.seq = req.seq) + Balance(req.seq, pending, breakpoints,
                                             inspection.waiting, client) <= 1
        BY <1>1, <2>1, TakenAlone
    <2> QED BY <1>3, <2>1, <2>2, InHand
<1>5. ASSUME NEW o, ReplyAtOnce(req, o, breakpoints), req.command # "eof", at' = "loop"
      PROVE  AnswersInv'
    <2>1. UNCHANGED <<pending, inspection, session>> /\ breakpoints' = breakpoints
        BY <1>5 DEF ReplyAtOnce
    <2>2. /\ \A r \in Others :
                 Balance(r, pending', breakpoints', inspection'.waiting, client')
                 = Count(r = req.seq)
                   + Balance(r, pending, breakpoints, inspection.waiting, client)
          /\ client'.answers[Launch] = client.answers[Launch]
          /\ client'.next = client.next /\ client'.left = client.left
        BY <1>1, <1>3, <1>5, ReplyBalances
    <2>3. LaunchOnce'
        BY <1>3, <2>1, <2>2 DEF LaunchOnce
    <2>4. Sane(pending', breakpoints', inspection'.waiting)
        BY <1>3, <2>1
    <2> QED BY <1>1, <1>2, <1>5, <2>2, <2>3, <2>4, TakenRebalanced
<1>6. CASE DeferRequest(req)
    <2>0. req.command # "eof"
        BY <1>6 DEF DeferRequest, MustDefer, Deferrable
    <2>1. CASE ReplyAtOnce(req, "error", breakpoints)
        BY <1>5, <1>6, <2>0, <2>1 DEF DeferRequest
    <2>2. CASE /\ breakpoints' = [breakpoints EXCEPT !.deferred = Append(@, req)]
               /\ UNCHANGED <<session, pending, conditions, inspection, workers,
                              client, toAdapter>>
        <3>1. /\ breakpoints'.deferred = Append(breakpoints.deferred, req)
              /\ breakpoints'.function = breakpoints.function
              /\ breakpoints'.panic = breakpoints.panic
            BY <1>3, <2>2 DEF BreakpointStates
        <3>2. /\ \A r : InQueue(breakpoints'.deferred, r)
                            <=> InQueue(breakpoints.deferred, r) \/ req.seq = r
              /\ OneInQueue(breakpoints'.deferred)
            BY <1>1, <1>3, <1>4, <2>0, <3>1, QueueGains DEF Sane
        <3>3. ASSUME NEW r \in Others
              PROVE  Balance(r, pending', breakpoints', inspection'.waiting, client')
                     = Count(r = req.seq)
                       + Balance(r, pending, breakpoints, inspection.waiting, client)
            <4>1. Count(InQueue(breakpoints'.deferred, r))
                      = Count(InQueue(breakpoints.deferred, r)) + Count(r = req.seq)
                BY <1>4, <2>0, <3>2 DEF Count
            <4>2. client.answers[r] \in Nat
                BY <1>3 DEF Editors, Others
            <4> QED BY SMTT(30), <2>2, <3>1, <4>1, <4>2 DEF Balance, Count
        <3>4. Sane(pending', breakpoints', inspection'.waiting) /\ LaunchOnce'
            BY <1>3, <2>2, <3>2 DEF Sane, LaunchOnce
        <3>5. at' = "loop" /\ client' = client
            BY <1>6, <2>2 DEF DeferRequest
        <3> QED BY <1>1, <1>2, <2>0, <3>3, <3>4, <3>5, TakenRebalanced
    <2> QED BY <1>6, <2>1, <2>2 DEF DeferRequest
<1>7. CASE InterruptCondition(req)
    <2> DEFINE done == Answer(client, {req.seq}, "ok")
    <2>0. /\ req.command # "eof" /\ EnterDrain
          /\ client' = TellStopped(done, conditions.active.stop)
          /\ UNCHANGED <<pending, breakpoints, inspection>>
          /\ session' = [session EXCEPT !.revision = session.revision + 1]
        BY <1>7 DEF InterruptCondition
    <2>1. SameEditor(client', done)
        BY <1>3, <2>0, AnswerTyped, TellsSame
    <2>2. /\ \A r \in Requests : done.answers[r] = client.answers[r] + Count(r \in {req.seq})
          /\ done.next = client.next /\ done.left = client.left
        BY <1>3, AnswerCounts
    <2> HIDE DEF done
    <2>3. ASSUME NEW r \in Others
          PROVE  Balance(r, pending', breakpoints', inspection'.waiting, client')
                 = Count(r = req.seq)
                   + Balance(r, pending, breakpoints, inspection.waiting, client)
        <3>1. client'.answers[r] = client.answers[r] + Count(r = req.seq)
              /\ client.answers[r] \in Nat
            BY <1>3, <2>1, <2>2 DEF SameEditor, Count, Others, Editors
        <3> QED BY <2>0, <3>1 DEF Balance, Count
    <2>4. LaunchOnce'
        <3>1. Launch \in Requests /\ client.answers[Launch] \in Nat /\ Launch # req.seq
            BY <1>3, <1>4, <2>0, Values DEF Editors, Others
        <3>2. client'.answers[Launch] = client.answers[Launch]
            BY <2>1, <2>2, <3>1 DEF SameEditor, Count
        <3>3. session'.launchAnswered = session.launchAnswered
            BY <1>3, <2>0 DEF Flags
        <3> QED BY <1>3, <3>2, <3>3 DEF LaunchOnce
    <2>5. Sane(pending', breakpoints', inspection'.waiting)
        BY <1>3, <2>0
    <2>6. client'.next = client.next /\ client'.left = client.left
        BY <2>1, <2>2 DEF SameEditor
    <2> QED BY <1>1, <1>2, <2>0, <2>3, <2>4, <2>5, <2>6, TakenRebalanced
<1>8. CASE PerformRequest(req)
    <2>1. req.command # "eof" /\ Perform(req, breakpoints) /\ at' = "loop"
          /\ ~MustDefer(req)
        BY <1>8 DEF PerformRequest
    <2>2. Deferrable(req.command) =>
              breakpoints.function = NoRequest /\ breakpoints.panic = None
        BY <2>1 DEF MustDefer, WorkPending
    <2>3. \A r \in Others : Count(r = req.seq)
              + Balance(r, pending, breakpoints, inspection.waiting, client) <= 1
        BY <1>1, TakenAlone
    <2>4. /\ \A r \in Others :
                 Balance(r, pending', breakpoints', inspection'.waiting, client')
                 = Count(r = req.seq)
                   + Balance(r, pending, breakpoints, inspection.waiting, client)
          /\ Sane(pending', breakpoints', inspection'.waiting)
          /\ client'.next = client.next /\ client'.left = client.left /\ LaunchOnce'
        BY <1>1, <1>3, <2>1, <2>2, <2>3, PerformBalances
    <2> QED BY <1>1, <1>2, <2>1, <2>4, TakenRebalanced
<1>9. CASE Disconnect(req)
    <2> DEFINE c1 == AnswerCancelled(client)
           c2 == AnswerStale(c1)
    <2>0. /\ req.command # "eof" /\ at' = "loop"
          /\ session' = [session EXCEPT !.closing = TRUE, !.launchAnswered = TRUE]
          /\ client' = CancelLaunch(c2)
          /\ breakpoints' = CancelledWork /\ inspection' = NoInspection
        BY <1>9 DEF Disconnect
    <2>1. Forward(req, req.command)
        BY <1>9 DEF Disconnect
    <2>2. /\ \A r \in Others : Count(InRouter(pending', r))
                               = Count(InRouter(pending, r)) + Count(r = req.seq)
          /\ OneInRouter(pending') /\ Owed(pending')
        <3>1. req \in Asks /\ OneInRouter(pending) /\ Owed(pending)
              /\ ~InRouter(pending, req.seq)
            BY <1>1, <1>3, <1>4, <2>0 DEF Sane
        <3> QED BY <2>1, <3>1, Forwarded
    <2>3. c1 \in Editors /\ c2 \in Editors
        BY <1>3, CancelsTyped
    <2>4. /\ \A r \in Others : c1.answers[r]
                 = client.answers[r] + Count(breakpoints.function = r)
                   + Count(breakpoints.panic = r) + Count(InQueue(breakpoints.deferred, r))
          /\ c1.answers[Launch] = client.answers[Launch]
          /\ c1.next = client.next /\ c1.left = client.left
        BY <1>3, CancelledCounts
    <2> HIDE DEF c1
    <2>5. /\ \A r \in Others : c2.answers[r]
                 = c1.answers[r] + Count(Reads(inspection.waiting, r))
          /\ c2.answers[Launch] = c1.answers[Launch]
          /\ c2.next = c1.next /\ c2.left = c1.left
        BY <1>3, <2>3, StaleCounts DEF Sane
    <2> HIDE DEF c2
    <2>6. /\ \A r \in Others : client'.answers[r] = c2.answers[r]
          /\ c2.answers[Launch] = Count(session.launchAnswered)
                => client'.answers[Launch] = 1
          /\ client'.next = c2.next /\ client'.left = c2.left
        BY <1>3, <2>0, <2>3, LaunchCounts DEF Flags
    <2>7. /\ breakpoints'.function = NoRequest /\ breakpoints'.panic = None
          /\ breakpoints'.deferred = <<>> /\ inspection'.waiting = {}
        BY <1>3, <2>0 DEF CancelledWork, NoInspection, BreakpointStates
    <2>8. ASSUME NEW r \in Others
          PROVE  Balance(r, pending', breakpoints', inspection'.waiting, client')
                 = Count(r = req.seq)
                   + Balance(r, pending, breakpoints, inspection.waiting, client)
        <3>1. r # NoRequest /\ r # None
            BY DEF Others, Requests, NoRequest, None
        <3>2. /\ Count(InQueue(breakpoints'.deferred, r)) = 0
              /\ Count(Reads(inspection'.waiting, r)) = 0
              /\ Count(breakpoints'.function = r) = 0 /\ Count(breakpoints'.panic = r) = 0
            BY <2>7, <3>1 DEF InQueue, Reads, Count
        <3>3. client.answers[r] \in Nat
            BY <1>3 DEF Editors, Others
        <3> QED BY <2>2, <2>4, <2>5, <2>6, <3>2, <3>3 DEF Balance, Count
    <2>9. Sane(pending', breakpoints', inspection'.waiting)
        BY <2>2, <2>7 DEF Sane, OneInQueue, OneRead, ReadsOwed
    <2>10. LaunchOnce'
        <3>1. client'.answers[Launch] = 1
            BY <1>3, <2>4, <2>5, <2>6 DEF LaunchOnce
        <3>2. session'.launchAnswered = TRUE
            BY <1>3, <2>0 DEF Flags
        <3> QED BY <3>1, <3>2 DEF LaunchOnce, Count
    <2>11. client'.next = client.next /\ client'.left = client.left
        BY <2>4, <2>5, <2>6
    <2> QED BY <1>1, <1>2, <2>0, <2>8, <2>9, <2>10, <2>11, TakenRebalanced
<1>10. CASE RefuseWhileClosing(req)
    BY <1>5, <1>10 DEF RefuseWhileClosing
<1>11. CASE ClientEof(req)
    <2>1. UNCHANGED <<session, client>> /\ at' = "shutdown"
        BY <1>11 DEF ClientEof
    <2>2. Inflow'
        BY <1>1, <2>1, Taking DEF AnswersInv
    <2> QED BY <1>2, <2>1, <2>2 DEF AnswersInv, DrainsAtRest, NoneTwice, LaunchOnce
<1> QED BY <1>6, <1>7, <1>8, <1>9, <1>10, <1>11


-----------------------------------------------------------------------------
(* Deferred stops and requests.                                              *)

LEMMA DrainStopAnswers == AnswersInv /\ DrainStop => AnswersInv'
<1> SUFFICES ASSUME AnswersInv, DrainStop PROVE AnswersInv'
    OBVIOUS
<1>1. /\ Types /\ client \in Editors /\ breakpoints \in BreakpointStates
      /\ at = "drain" /\ Sane(pending, breakpoints, inspection.waiting) /\ LaunchOnce
    BY DEF AnswersInv, Types, DrainStop
<1>2. Types' /\ KeepDraining
    BY <1>1, DrainTyped DEF DrainStop
<1>3. /\ breakpoints'.function = breakpoints.function /\ breakpoints'.panic = breakpoints.panic
      /\ breakpoints'.deferred = breakpoints.deferred
      /\ UNCHANGED <<session, inspection, fromClient>>
    BY <1>1 DEF DrainStop, BreakpointStates
<1>4. /\ SameEditor(client', client)
      /\ \A r \in Others : InRouter(pending', r) <=> InRouter(pending, r)
      /\ OneInRouter(pending') /\ Owed(pending')
    BY <1>1, PublishStopSame DEF DrainStop, Sane
<1>5. \A r \in Others :
          Balance(r, pending', breakpoints', inspection'.waiting, client')
          = Balance(r, pending, breakpoints, inspection.waiting, client)
    BY <1>3, <1>4 DEF Balance, Count, SameEditor
<1>6. Sane(pending', breakpoints', inspection'.waiting) /\ LaunchOnce' /\ SameFlow
    BY <1>1, <1>3, <1>4 DEF Sane, LaunchOnce, SameEditor, SameFlow
<1> QED BY <1>1, <1>2, <1>5, <1>6, Rebalanced

LEMMA DrainRequestAnswers == AnswersInv /\ DrainRequest => AnswersInv'
<1> SUFFICES ASSUME AnswersInv, DrainRequest PROVE AnswersInv'
    OBVIOUS
<1> DEFINE b == [breakpoints EXCEPT !.deferred = Tail(@)]
           req == Head(breakpoints.deferred)
<1>1. /\ Types /\ client \in Editors /\ breakpoints \in BreakpointStates
      /\ at = "drain" /\ Sane(pending, breakpoints, inspection.waiting) /\ LaunchOnce
      /\ breakpoints.deferred \in Seq(Asks) /\ breakpoints.deferred # <<>>
    BY DEF AnswersInv, Types, DrainRequest, BreakpointStates
<1>2. Types' /\ KeepDraining /\ fromClient' = fromClient
    BY <1>1, DrainTyped DEF DrainRequest
<1>3. req \in Asks /\ Tail(breakpoints.deferred) \in Seq(Asks)
    BY <1>1, HeadTyped
<1>4. /\ b \in BreakpointStates /\ b.deferred = Tail(breakpoints.deferred)
      /\ b.function = breakpoints.function /\ b.panic = breakpoints.panic
    BY <1>1, <1>3 DEF BreakpointStates
<1>5. b.function = NoRequest /\ b.panic = None
    BY <1>1, <1>4 DEF AnswersInv, DrainsAtRest, WorkPending, DrainRequest
<1>6. Perform(req, b)
    BY DEF DrainRequest
<1>7. /\ \A r : Count(InQueue(breakpoints.deferred, r))
                = Count(InQueue(b.deferred, r)) + Count(req.seq = r)
      /\ OneInQueue(b.deferred)
    BY <1>1, <1>4, QueueLoses DEF Sane
<1> HIDE DEF b, req
<1>8. ASSUME NEW r \in Others
      PROVE  /\ Count(r = req.seq) + Balance(r, pending, b, inspection.waiting, client)
                = Balance(r, pending, breakpoints, inspection.waiting, client)
             /\ Balance(r, pending, breakpoints, inspection.waiting, client) <= 1
    <2>1. client.answers[r] \in Nat
        BY <1>1 DEF Editors, Others
    <2>2. Count(InQueue(breakpoints.deferred, r))
              = Count(InQueue(b.deferred, r)) + Count(r = req.seq)
        BY <1>7 DEF Count
    <2>3. Count(Coming(r))
              + Balance(r, pending, breakpoints, inspection.waiting, client) = 1
          /\ Balance(r, pending, breakpoints, inspection.waiting, client) \in Nat
        BY <1>1, BalanceTyped DEF AnswersInv, Balanced
    <2>4. Count(r = req.seq) + Balance(r, pending, b, inspection.waiting, client)
              = Balance(r, pending, breakpoints, inspection.waiting, client)
        BY <1>4, <2>1, <2>2 DEF Balance, Count
    <2>5. Balance(r, pending, breakpoints, inspection.waiting, client) <= 1
        BY <2>3 DEF Count
    <2> QED BY <2>4, <2>5
<1>9. Sane(pending, b, inspection.waiting)
    BY <1>1, <1>7 DEF Sane
<1>10. \A r \in Others :
           Count(r = req.seq) + Balance(r, pending, b, inspection.waiting, client) <= 1
    BY <1>8
<1>11. /\ \A r \in Others :
              Balance(r, pending', breakpoints', inspection'.waiting, client')
              = Count(r = req.seq) + Balance(r, pending, b, inspection.waiting, client)
       /\ Sane(pending', breakpoints', inspection'.waiting)
       /\ client'.next = client.next /\ client'.left = client.left /\ LaunchOnce'
    BY <1>1, <1>3, <1>4, <1>5, <1>6, <1>9, <1>10, PerformBalances
<1>12. SameFlow
    BY <1>2, <1>11 DEF SameFlow
<1>13. \A r \in Others :
           Balance(r, pending', breakpoints', inspection'.waiting, client')
           = Balance(r, pending, breakpoints, inspection.waiting, client)
    BY <1>8, <1>11
<1> QED BY <1>1, <1>2, <1>11, <1>12, <1>13, Rebalanced


-----------------------------------------------------------------------------
(* The messages of lldb-dap.                                                 *)

\* Who asked for a request that left the router is answered, ...
LEMMA SettledBalances ==
    ASSUME AnswersInv, at = "loop", NEW m, m.request \in pending, NEW c,
           \A r \in Others :
               c.answers[r] = client.answers[r] + Count(m.request.client = r)
    PROVE  /\ \A r \in Others :
                 Balance(r, Settled(m), breakpoints, inspection.waiting, c)
                 = Balance(r, pending, breakpoints, inspection.waiting, client)
           /\ Sane(Settled(m), breakpoints, inspection.waiting)
<1>1. /\ client \in Editors /\ Sane(pending, breakpoints, inspection.waiting)
    BY DEF AnswersInv, Types
<1>2. /\ \A r \in Others : Count(InRouter(pending, r))
             = Count(InRouter(Settled(m), r)) + Count(m.request.client = r)
      /\ OneInRouter(Settled(m)) /\ Owed(Settled(m))
    <2> DEFINE p == m.request
    <2>1. p \in pending /\ Settled(m) = pending \ {p}
        BY DEF Settled
    <2> HIDE DEF p
    <2>2. /\ \A r \in Others : Count(InRouter(pending, r))
                 = Count(InRouter(pending \ {p}, r)) + Count(p.client = r)
          /\ OneInRouter(pending \ {p}) /\ Owed(pending \ {p})
        BY <1>1, <2>1, RouterLoses DEF Sane
    <2> QED BY <2>1, <2>2 DEF p
<1>3. \A r \in Others : client.answers[r] \in Nat
    BY <1>1 DEF Editors, Others
<1>4. ASSUME NEW r \in Others
      PROVE  Balance(r, Settled(m), breakpoints, inspection.waiting, c)
             = Balance(r, pending, breakpoints, inspection.waiting, client)
    BY <1>2, <1>3 DEF Balance, Count
<1> QED BY <1>1, <1>2, <1>4 DEF Sane

\* ... and the loop goes on.
LEMMA ResponseBalances ==
    ASSUME AnswersInv, Types', NEW m, TakeMessage(m), m.request \in pending,
           pending' = Settled(m), breakpoints' = breakpoints,
           inspection'.waiting = inspection.waiting, at' = "loop" \/ EnterDrain,
           \A r \in Others :
               client'.answers[r] = client.answers[r] + Count(m.request.client = r),
           client'.next = client.next, client'.left = client.left, LaunchOnce'
    PROVE  AnswersInv'
<1>1. at = "loop" /\ SameFlow
    BY DEF TakeMessage, SameFlow
<1>2. /\ \A r \in Others :
             Balance(r, Settled(m), breakpoints, inspection.waiting, client')
             = Balance(r, pending, breakpoints, inspection.waiting, client)
      /\ Sane(Settled(m), breakpoints, inspection.waiting)
    BY <1>1, SettledBalances
<1> QED BY <1>1, <1>2, Rebalanced

\* Answers to others than launch.
LEMMA OthersAnswered ==
    ASSUME NEW c \in Editors, NEW S, Launch \notin S, NEW o
    PROVE  /\ \A r \in Others : Answer(c, S, o).answers[r] = c.answers[r] + Count(r \in S)
           /\ Answer(c, S, o).answers[Launch] = c.answers[Launch]
           /\ Answer(c, S, o).next = c.next /\ Answer(c, S, o).left = c.left
<1> DEFINE d == Answer(c, S, o)
<1>1. /\ \A r \in Requests : d.answers[r] = c.answers[r] + Count(r \in S)
      /\ d.next = c.next /\ d.left = c.left
    BY AnswerCounts
<1> HIDE DEF d
<1>2. Launch \in Requests /\ \A r \in Requests : c.answers[r] \in Nat
    BY Values DEF Editors
<1>3. d.answers[Launch] = c.answers[Launch]
    <2>1. Count(Launch \in S) = 0
        BY DEF Count
    <2> QED BY <1>1, <1>2, <2>1
<1>4. \A r \in Others : r \in Requests
    BY DEF Others
<1> QED BY <1>1, <1>3, <1>4 DEF d

\* Telling the editor that the session is over answers nobody.
LEMMA TerminatedSame ==
    ASSUME NEW c \in Editors
    PROVE  SameEditor(TellTerminated(c), c)
BY TellsSame

LEMMA ResponseAnswers ==
    ASSUME AnswersInv, NEW m,
           \/ OnConditionContinued(m) \/ \E w \in Workers : OnWorkerReply(m, w)
           \/ \E panicked \in BOOLEAN : OnStopClassified(m, panicked)
           \/ OnStackTrace(m) \/ OnLaunched(m) \/ OnConfigured(m) \/ OnResumed(m)
           \/ OnPauseAnswered(m) \/ OnThreads(m)
    PROVE  AnswersInv'
<1>1. /\ TakeMessage(m) /\ m.request \in pending /\ at = "loop"
      /\ pending' = Settled(m) /\ at' = "loop" /\ breakpoints' = breakpoints
    BY DEF OnConditionContinued, OnWorkerReply, OnStopClassified, OnStackTrace,
       OnLaunched, OnConfigured, OnResumed, OnPauseAnswered, OnThreads, TakeResponse,
       TakeMessage
<1>2. /\ Types /\ session \in Flags /\ client \in Editors /\ inspection \in Inspections
      /\ Owed(pending) /\ LaunchOnce
      /\ Launch \in Requests /\ Launch \notin Others /\ NoRequest \notin Others
      /\ \A r \in Requests : client.answers[r] \in Nat
    <2>1. /\ Types /\ session \in Flags /\ client \in Editors /\ inspection \in Inspections
          /\ Owed(pending) /\ LaunchOnce
        BY <1>1 DEF AnswersInv, Types, Sane
    <2>2. Launch \in Requests /\ Launch \notin Others /\ NoRequest \notin Others
        BY Values DEF Others, Requests, NoRequest
    <2>3. \A r \in Requests : client.answers[r] \in Nat
        BY <2>1 DEF Editors
    <2> QED BY <2>1, <2>2, <2>3
<1>3. Types'
    BY <1>2, ResponseTyped
<1>4. ASSUME m.request.client = NoRequest, SameEditor(client', client),
             session'.launchAnswered = session.launchAnswered,
             inspection' = inspection
      PROVE  AnswersInv'
    <2>1. \A r \in Others :
              client'.answers[r] = client.answers[r] + Count(m.request.client = r)
        <3> SUFFICES ASSUME NEW r \in Others
                     PROVE  client'.answers[r]
                                = client.answers[r] + Count(m.request.client = r)
            OBVIOUS
        <3>1. Count(m.request.client = r) = 0 /\ client.answers[r] \in Nat
            BY <1>2, <1>4 DEF Count, Others
        <3> QED BY <1>4, <3>1 DEF SameEditor
    <2>2. LaunchOnce'
        BY <1>2, <1>4 DEF LaunchOnce, SameEditor
    <2> QED BY <1>1, <1>3, <1>4, <2>1, <2>2, ResponseBalances DEF SameEditor
<1>5. ASSUME m.request.client # Launch, NEW o,
             SameEditor(client', Answer(client, {m.request.client}, o)),
             session'.launchAnswered = session.launchAnswered,
             inspection'.waiting = inspection.waiting
      PROVE  AnswersInv'
    <2> DEFINE S == {m.request.client}
               done == Answer(client, S, o)
    <2>0. Launch \notin S /\ SameEditor(client', done)
        BY <1>5
    <2>1. /\ \A r \in Others :
                 done.answers[r] = client.answers[r] + Count(m.request.client = r)
          /\ done.answers[Launch] = client.answers[Launch]
          /\ done.next = client.next /\ done.left = client.left
        <3>1. \A r : Count(r \in S) = Count(m.request.client = r)
            BY DEF Count
        <3> HIDE DEF S
        <3> QED BY <1>2, <2>0, <3>1, OthersAnswered
    <2>2. SameEditor(client', done)
        BY <2>0
    <2> HIDE DEF done
    <2>3. /\ \A r \in Others :
                 client'.answers[r] = client.answers[r] + Count(m.request.client = r)
          /\ client'.next = client.next /\ client'.left = client.left
        BY <2>1, <2>2 DEF SameEditor
    <2>4. LaunchOnce'
        BY <1>2, <1>5, <2>1, <2>2 DEF LaunchOnce, SameEditor
    <2> QED BY <1>1, <1>3, <1>5, <2>3, <2>4, ResponseBalances
<1>6. CASE OnConditionContinued(m)
    <2>1. m.request.client = NoRequest
        BY <1>1, <1>2, <1>6 DEF OnConditionContinued, TakeResponse, Owed
    <2>2. /\ client' = client \/ client' = TellStopped(client, m.request.stop)
          /\ session' = session \/ session' = [session EXCEPT !.stopped = TRUE]
          /\ inspection' = inspection
        BY <1>6 DEF OnConditionContinued
    <2>3. SameEditor(client', client)
        BY <1>2, <2>2, TellsSame DEF SameEditor
    <2>4. session'.launchAnswered = session.launchAnswered
        BY <1>2, <2>2 DEF Flags
    <2> QED BY <1>4, <2>1, <2>2, <2>3, <2>4
<1>7. ASSUME NEW w \in Workers, OnWorkerReply(m, w)
      PROVE  AnswersInv'
    <2>1. m.request.client = NoRequest
        BY <1>1, <1>2, <1>7 DEF OnWorkerReply, TakeResponse, Owed, Workers
    <2> QED BY <1>4, <1>7, <2>1 DEF OnWorkerReply, SameEditor
<1>8. ASSUME NEW panicked \in BOOLEAN, OnStopClassified(m, panicked)
      PROVE  AnswersInv'
    <2>1. m.request.client = NoRequest
        BY <1>1, <1>2, <1>8 DEF OnStopClassified, TakeResponse, Owed
    <2>2. /\ session' = session /\ inspection' = inspection
          /\ \/ client' = client
             \/ client' = TellStopped(client, m.request.stop)
             \/ PublishConditionStop(m.request.stop, client, conditions, workers,
                                     session.revision)
        BY <1>8 DEF OnStopClassified
    <2>3. SameEditor(client', client)
        BY <1>2, <2>2, TellsSame, PublishConditionStopSame DEF SameEditor
    <2> QED BY <1>4, <2>1, <2>2, <2>3
<1>9. CASE OnStackTrace(m)
    <2>1. m.request.client # Launch
        BY <1>1, <1>2, <1>9 DEF OnStackTrace, Owed
    <2> DEFINE done == Answer(client, {m.request.client}, "ok")
               failed == Answer(client, {m.request.client}, "error")
    <2>2. /\ session' = session
          /\ \/ client' = failed /\ inspection' = inspection
             \/ /\ client' = [[done EXCEPT !.data[m.request.client] = m.data]
                                 EXCEPT !.frame = MapFrames(m.request.client)]
                /\ inspection' = [inspection EXCEPT !.frames = MapFrames(m.request.client)]
        BY <1>9 DEF OnStackTrace, AnswerWithData
    <2>3. inspection'.waiting = inspection.waiting
        BY <1>2, <2>2 DEF Inspections
    <2>4. done \in Editors
        BY <1>2, AnswerTyped
    <2> HIDE DEF done, failed
    <2>5. SameEditor(client', done) \/ SameEditor(client', failed)
        BY <2>2, <2>4 DEF SameEditor, Editors
    <2> USE DEF done, failed
    <2> QED BY <1>5, <2>1, <2>2, <2>3, <2>5
<1>10. CASE OnLaunched(m)
    <2> DEFINE answered == IF session.launchAnswered THEN client
                           ELSE Answer(client, {Launch}, IF m.ok THEN "ok" ELSE "error")
               launched == [session EXCEPT !.launchAnswered = TRUE]
    <2>1. m.request.client = Launch
        BY <1>1, <1>2, <1>10 DEF OnLaunched, Owed
    <2>2. /\ inspection' = inspection
          /\ \/ client' = answered /\ session' = launched
             \/ client' = TellTerminated(answered) /\ session' = Finished(launched)
        BY <1>10 DEF OnLaunched
    <2>3. answered \in Editors
        BY <1>2, AnswerTyped
    <2>4. /\ \A r \in Others : answered.answers[r] = client.answers[r]
          /\ answered.answers[Launch] = 1
          /\ answered.next = client.next /\ answered.left = client.left
        <3>1. CASE session.launchAnswered
            BY <1>2, <3>1 DEF LaunchOnce, Count
        <3>2. CASE ~session.launchAnswered
            <4> DEFINE o == IF m.ok THEN "ok" ELSE "error"
                       d == Answer(client, {Launch}, o)
            <4>1. answered = d
                BY <3>2
            <4>2. /\ \A r \in Requests :
                         d.answers[r] = client.answers[r] + Count(r \in {Launch})
                  /\ d.next = client.next /\ d.left = client.left
                BY <1>2, AnswerCounts
            <4> HIDE DEF d, answered
            <4>3. client.answers[Launch] = 0
                BY <1>2, <3>2 DEF LaunchOnce, Count
            <4>4. \A r \in Others : r \in Requests /\ r # Launch
                BY DEF Others
            <4> QED BY <1>2, <4>1, <4>2, <4>3, <4>4 DEF Count
        <3> QED BY <3>1, <3>2
    <2>5. session'.launchAnswered = TRUE
        BY <1>2, <2>2 DEF Flags, Finished
    <2> HIDE DEF answered
    <2>6. SameEditor(client', answered)
        BY <2>2, <2>3, TerminatedSame DEF SameEditor
    <2>7. LaunchOnce'
        BY <2>4, <2>5, <2>6 DEF LaunchOnce, Count, SameEditor
    <2>8. \A r \in Others :
              client'.answers[r] = client.answers[r] + Count(m.request.client = r)
        <3> SUFFICES ASSUME NEW r \in Others
                     PROVE  client'.answers[r]
                                = client.answers[r] + Count(m.request.client = r)
            OBVIOUS
        <3>1. Count(m.request.client = r) = 0 /\ client.answers[r] \in Nat
            BY <1>2, <2>1 DEF Count, Others
        <3> QED BY <2>4, <2>6, <3>1 DEF SameEditor
    <2> QED BY <1>1, <1>3, <2>2, <2>4, <2>6, <2>7, <2>8, ResponseBalances
            DEF SameEditor
<1>11. CASE OnConfigured(m)
    <2>1. m.request.client # Launch
        BY <1>1, <1>2, <1>11 DEF OnConfigured, Owed
    <2> DEFINE failed == Answer(client, {m.request.client}, "error")
    <2>2. /\ inspection' = inspection
          /\ \/ /\ client' = Answer(client, {m.request.client}, "ok")
                /\ session' = session
             \/ client' = TellTerminated(failed) /\ session' = Finished(session)
        BY <1>11 DEF OnConfigured
    <2>3. session'.launchAnswered = session.launchAnswered
        BY <1>2, <2>2 DEF Flags, Finished
    <2>4. SameEditor(TellTerminated(failed), failed)
        <3>1. failed \in Editors
            BY <1>2, AnswerTyped
        <3> QED BY <3>1, TerminatedSame
    <2>5. \E o : SameEditor(client', Answer(client, {m.request.client}, o))
        BY <2>2, <2>4 DEF SameEditor
    <2> QED BY <1>5, <2>1, <2>2, <2>3, <2>5
<1>12. CASE OnResumed(m) \/ OnPauseAnswered(m) \/ OnThreads(m)
    <2>1. m.request.client # Launch
        BY <1>1, <1>2, <1>12 DEF OnResumed, OnPauseAnswered, OnThreads, Owed, Resumes
    <2>2. /\ \/ session' = session
             \/ \E v : session' = [session EXCEPT !.stopped = v]
             \/ \E v : session' = [session EXCEPT !.pauseRevision = v]
          /\ \E o : client' = Answer(client, {m.request.client}, o)
          /\ inspection' = inspection
        BY <1>12 DEF OnResumed, OnPauseAnswered, OnThreads
    <2>3. session'.launchAnswered = session.launchAnswered
        BY <1>2, <2>2 DEF Flags
    <2> QED BY <1>5, <2>1, <2>2, <2>3 DEF SameEditor
<1> QED BY <1>6, <1>7, <1>8, <1>9, <1>10, <1>11, <1>12


LEMMA AnswersAndRaisesAnswers ==
    ASSUME AnswersInv, NEW m, OnSourcesReplaced(m) \/ OnInitialize(m) \/ OnDisconnected(m)
    PROVE  AnswersInv'
<1>1. /\ TakeMessage(m) /\ m.request \in pending /\ at = "loop"
      /\ fromClient' = fromClient
    BY DEF OnSourcesReplaced, OnInitialize, OnDisconnected, TakeResponse, TakeMessage
<1>2. /\ Types /\ session \in Flags /\ client \in Editors
      /\ Owed(pending) /\ LaunchOnce
    BY <1>1 DEF AnswersInv, Types, Sane
<1>3. Types'
    BY <1>2, AnswersAndRaisesTyped
<1>4. ASSUME NEW c \in Editors, Raise(c, Settled(m), workers),
             \A r \in Others : c.answers[r] = client.answers[r] + Count(m.request.client = r),
             c.answers[Launch] = client.answers[Launch],
             c.next = client.next, c.left = client.left
      PROVE  AnswersInv'
    <2> DEFINE ps == Settled(m)
    <2>1. /\ \A r \in Others :
                 Balance(r, ps, breakpoints, inspection.waiting, c)
                 = Balance(r, pending, breakpoints, inspection.waiting, client)
          /\ Sane(ps, breakpoints, inspection.waiting)
        BY <1>1, <1>4, SettledBalances
    <2>2. Raise(c, ps, workers)
        BY <1>4
    <2> HIDE DEF ps
    <2> QED BY <1>1, <1>3, <1>4, <2>1, <2>2, RaiseBalances
<1>5. ASSUME m.request.client # Launch, NEW o \in {"ok", "error"}, NEW d,
             d = Answer(client, {m.request.client}, o)
      PROVE  /\ d \in Editors
             /\ \A r \in Others :
                    d.answers[r] = client.answers[r] + Count(m.request.client = r)
             /\ d.answers[Launch] = client.answers[Launch]
             /\ d.next = client.next /\ d.left = client.left
    <2>1. d \in Editors
        BY <1>2, <1>5, AnswerTyped
    <2> DEFINE S == {m.request.client}
    <2>2. d = Answer(client, S, o) /\ Launch \notin S
        BY <1>5
    <2>3. \A r : Count(r \in S) = Count(m.request.client = r)
        BY DEF Count
    <2> HIDE DEF S
    <2> QED BY <1>2, <2>1, <2>2, <2>3, OthersAnswered
<1>6. CASE OnSourcesReplaced(m)
    <2>1. m.request.client # Launch
        BY <1>1, <1>2, <1>6 DEF OnSourcesReplaced, Owed
    <2>2. CASE Raise(Answer(client, {m.request.client}, "error"), Settled(m), workers)
        <3> DEFINE failed == Answer(client, {m.request.client}, "error")
        <3>1. /\ failed \in Editors
              /\ \A r \in Others :
                     failed.answers[r] = client.answers[r] + Count(m.request.client = r)
              /\ failed.answers[Launch] = client.answers[Launch]
              /\ failed.next = client.next /\ failed.left = client.left
            BY <1>5, <2>1
        <3>2. Raise(failed, Settled(m), workers)
            BY <2>2
        <3> HIDE DEF failed
        <3> QED BY <1>4, <3>1, <3>2
    <2>3. CASE /\ pending' = Settled(m)
               /\ client' = Answer(client, {m.request.client}, "ok")
               /\ UNCHANGED <<session, breakpoints, inspection, workers, toAdapter>>
               /\ EnterDrain
        <3> DEFINE done == Answer(client, {m.request.client}, "ok")
        <3>1. /\ \A r \in Others :
                     done.answers[r] = client.answers[r] + Count(m.request.client = r)
              /\ done.answers[Launch] = client.answers[Launch]
              /\ done.next = client.next /\ done.left = client.left
            BY <1>5, <2>1
        <3>2. client' = done /\ session' = session
            BY <2>3
        <3> HIDE DEF done
        <3>3. LaunchOnce'
            BY <1>2, <3>1, <3>2 DEF LaunchOnce
        <3> QED BY <1>1, <1>3, <2>3, <3>1, <3>2, <3>3, ResponseBalances
    <2> QED BY <1>6, <2>2, <2>3 DEF OnSourcesReplaced
<1>7. CASE OnInitialize(m)
    <2>1. m.request.client = NoRequest
        BY <1>1, <1>2, <1>7 DEF OnInitialize, Owed
    <2>2. \A r \in Others :
              client.answers[r] = client.answers[r] + Count(m.request.client = r)
        <3> SUFFICES ASSUME NEW r \in Others
                     PROVE  client.answers[r]
                                = client.answers[r] + Count(m.request.client = r)
            OBVIOUS
        <3>1. client.answers[r] \in Nat
            BY <1>2 DEF Editors, Others
        <3>2. Count(m.request.client = r) = 0
            BY <2>1 DEF Count, Others, Requests, NoRequest
        <3> QED BY <3>1, <3>2
    <2>3. CASE Raise(client, Settled(m), workers)
        BY <1>2, <1>4, <2>2, <2>3
    <2>4. CASE ~Raise(client, Settled(m), workers)
        <3> DEFINE ps == Settled(m)
                   p == Outgoing(FreshSeq(ps), Launch, "launch", "client", "none",
                                 NoStop, 0, session.revision)
        <3>1. /\ UNCHANGED <<session, breakpoints, inspection, client>> /\ at' = "loop"
              /\ pending' = ps \/ pending' = ps \cup {p}
            BY <1>7, <2>4 DEF OnInitialize, Send
        <3>2. p.client = Launch /\ p.command = "launch" /\ p.use = "client"
            BY DEF Outgoing
        <3>3. /\ \A r \in Others :
                     Balance(r, ps, breakpoints, inspection.waiting, client)
                     = Balance(r, pending, breakpoints, inspection.waiting, client)
              /\ Sane(ps, breakpoints, inspection.waiting)
            BY <1>1, <2>2, SettledBalances
        <3> HIDE DEF p, ps
        <3>4. /\ \A r \in Others : InRouter(ps \cup {p}, r) <=> InRouter(ps, r)
              /\ OneInRouter(ps \cup {p}) /\ Owed(ps \cup {p})
            <4>1. OneInRouter(ps) /\ Owed(ps) /\ Launch \notin Others
                BY <3>3 DEF Sane, Others
            <4> QED BY <3>2, <4>1, RouterGains
        <3>5. /\ \A r \in Others :
                     Balance(r, pending', breakpoints', inspection'.waiting, client')
                     = Balance(r, pending, breakpoints, inspection.waiting, client)
              /\ Sane(pending', breakpoints', inspection'.waiting)
            BY <3>1, <3>3, <3>4 DEF Balance, Count, Sane
        <3>6. SameFlow /\ LaunchOnce'
            BY <1>1, <1>2, <3>1 DEF SameFlow, LaunchOnce
        <3> QED BY <1>1, <1>3, <3>1, <3>5, <3>6, Rebalanced
    <2> QED BY <2>3, <2>4
<1>8. CASE OnDisconnected(m)
    <2> DEFINE o == IF m.ok THEN "ok" ELSE "error"
               done == Answer(client, {m.request.client}, o)
               told == Answer(done, Asked(Settled(m)), "error")
    <2>1. m.request.client # Launch
        BY <1>1, <1>2, <1>8 DEF OnDisconnected, Owed
    <2>2. /\ done \in Editors
          /\ \A r \in Others :
                 done.answers[r] = client.answers[r] + Count(m.request.client = r)
          /\ done.answers[Launch] = client.answers[Launch]
          /\ done.next = client.next /\ done.left = client.left
        <3>1. o \in {"ok", "error"}
            OBVIOUS
        <3> HIDE DEF o
        <3> QED BY <1>5, <2>1, <3>1
    <2>3. CASE Raise(done, Settled(m), workers)
        <3> HIDE DEF done
        <3> QED BY <1>4, <2>2, <2>3
    <2>4. CASE /\ client' = TellTerminated(told) /\ pending' = {}
               /\ session' = Finished(session) /\ at' = "closed"
               /\ UNCHANGED <<breakpoints, conditions, inspection, workers, toAdapter>>
        <3> DEFINE ps == Settled(m)
                   A == Asked(ps)
        <3>1. /\ \A r \in Others :
                     Balance(r, ps, breakpoints, inspection.waiting, done)
                     = Balance(r, pending, breakpoints, inspection.waiting, client)
              /\ Sane(ps, breakpoints, inspection.waiting)
            <4> HIDE DEF done
            <4> QED BY <1>1, <2>2, SettledBalances
        <3>2. told = Answer(done, A, "error")
            OBVIOUS
        <3> HIDE DEF done, told
        <3>3. \A r \in Others : r \in A <=> InRouter(ps, r)
            <4>1. \A r \in Others : r # Launch /\ r > 0
                BY DEF Others, Requests
            <4> QED BY <3>1, <4>1 DEF Asked, InRouter, Sane, Owed
        <3>4. Launch \notin A
            BY <3>1 DEF Asked, Sane, Owed
        <3> HIDE DEF A, ps
        <3>5. /\ told \in Editors
              /\ \A r \in Requests : told.answers[r] = done.answers[r] + Count(r \in A)
              /\ told.next = done.next /\ told.left = done.left
            BY <2>2, <3>2, AnswerTyped, AnswerCounts
        <3>6. SameEditor(client', told)
            BY <2>4, <3>5, TerminatedSame
        <3>7. NoneTwice'
            <4> SUFFICES ASSUME NEW r \in Others PROVE client'.answers[r] <= 1
                BY DEF NoneTwice
            <4>1. client'.answers[r] = done.answers[r] + Count(InRouter(ps, r))
                BY <3>3, <3>5, <3>6 DEF SameEditor, Count, Others
            <4>2. done.answers[r] \in Nat
                BY <2>2 DEF Editors, Others
            <4>3. done.answers[r] + Count(InRouter(ps, r))
                      <= Balance(r, ps, breakpoints, inspection.waiting, done)
                BY <4>2 DEF Balance, Count
            <4>4. Count(Coming(r))
                      + Balance(r, pending, breakpoints, inspection.waiting, client) = 1
                BY <1>1 DEF AnswersInv, Balanced
            <4>5. Balance(r, pending, breakpoints, inspection.waiting, client) \in Nat
                BY <1>2, BalanceTyped
            <4>6. Balance(r, ps, breakpoints, inspection.waiting, done)
                      = Balance(r, pending, breakpoints, inspection.waiting, client)
                BY <3>1
            <4> QED BY <4>1, <4>2, <4>3, <4>4, <4>5, <4>6 DEF Count
        <3>8. LaunchOnce'
            <4>1. Count(Launch \in A) = 0 /\ Launch \in Requests
                  /\ client.answers[Launch] \in Nat
                BY <1>2, <3>4, Values DEF Count, Editors
            <4>2. client'.answers[Launch] = client.answers[Launch]
                BY <2>2, <3>5, <3>6, <4>1 DEF SameEditor
            <4>3. session'.launchAnswered = session.launchAnswered
                BY <1>2, <2>4 DEF Flags, Finished
            <4> QED BY <1>2, <4>2, <4>3 DEF LaunchOnce
        <3>9. SameFlow
            BY <1>1, <2>2, <3>5, <3>6 DEF SameFlow, SameEditor
        <3>10. Inflow'
            BY <3>9, FlowKept DEF AnswersInv
        <3> QED BY <1>3, <2>4, <3>7, <3>8, <3>10 DEF AnswersInv, DrainsAtRest
    <2> QED BY <1>8, <2>3, <2>4 DEF OnDisconnected
<1> QED BY <1>6, <1>7, <1>8


\* A step that leaves every request where it is, or answers the queued reads.
LEMMA StaleBalances ==
    ASSUME AnswersInv, Types', at = "loop", at' = "loop" \/ EnterDrain,
           fromClient' = fromClient, session'.launchAnswered = session.launchAnswered,
           \A r \in Others : InRouter(pending', r) <=> InRouter(pending, r),
           OneInRouter(pending'), Owed(pending'),
           breakpoints'.function = breakpoints.function,
           breakpoints'.panic = breakpoints.panic,
           breakpoints'.deferred = breakpoints.deferred,
           \/ inspection'.waiting = inspection.waiting /\ SameEditor(client', client)
           \/ inspection' = NoInspection /\ SameEditor(client', AnswerStale(client))
    PROVE  AnswersInv'
<1>1. /\ client \in Editors /\ Sane(pending, breakpoints, inspection.waiting)
      /\ LaunchOnce
    BY DEF AnswersInv, Types
<1>2. \A r \in Others : client.answers[r] \in Nat
    BY <1>1 DEF Editors, Others
<1>3. /\ \A r \in Others :
             Count(Reads(inspection'.waiting, r)) + client'.answers[r]
             = Count(Reads(inspection.waiting, r)) + client.answers[r]
      /\ client'.answers[Launch] = client.answers[Launch]
      /\ client'.next = client.next /\ client'.left = client.left
      /\ OneRead(inspection'.waiting) /\ ReadsOwed(inspection'.waiting)
    <2>1. CASE inspection'.waiting = inspection.waiting /\ SameEditor(client', client)
        BY <1>1, <2>1 DEF SameEditor, Sane
    <2>2. CASE inspection' = NoInspection /\ SameEditor(client', AnswerStale(client))
        <3>1. inspection'.waiting = {}
            BY <2>2 DEF NoInspection
        <3>2. /\ \A r \in Others : AnswerStale(client).answers[r]
                     = client.answers[r] + Count(Reads(inspection.waiting, r))
              /\ AnswerStale(client).answers[Launch] = client.answers[Launch]
              /\ AnswerStale(client).next = client.next
              /\ AnswerStale(client).left = client.left
            BY <1>1, StaleCounts DEF Sane
        <3>3. \A r : Count(Reads(inspection'.waiting, r)) = 0
            BY <3>1 DEF Reads, Count
        <3>4. OneRead(inspection'.waiting) /\ ReadsOwed(inspection'.waiting)
            BY <3>1 DEF OneRead, ReadsOwed
        <3>5. ASSUME NEW r \in Others
              PROVE  Count(Reads(inspection'.waiting, r)) + client'.answers[r]
                     = Count(Reads(inspection.waiting, r)) + client.answers[r]
            BY <1>2, <2>2, <3>2, <3>3 DEF SameEditor, Count
        <3> QED BY <2>2, <3>2, <3>4, <3>5 DEF SameEditor
    <2> QED BY <2>1, <2>2
<1>4. ASSUME NEW r \in Others
      PROVE  Balance(r, pending', breakpoints', inspection'.waiting, client')
             = Balance(r, pending, breakpoints, inspection.waiting, client)
    <2>1. client'.answers[r] \in Nat
        BY DEF Types, Editors, Others
    <2>2. Count(Reads(inspection'.waiting, r)) + client'.answers[r]
          = Count(Reads(inspection.waiting, r)) + client.answers[r]
        BY <1>3
    <2> QED BY <1>2, <2>1, <2>2 DEF Balance, Count
<1>5. Sane(pending', breakpoints', inspection'.waiting) /\ LaunchOnce' /\ SameFlow
    BY <1>1, <1>3 DEF Sane, LaunchOnce, SameFlow
<1> QED BY <1>4, <1>5, Rebalanced

\* A step that gives up all breakpoint work and answers the queued reads.
LEMMA CancelBalances ==
    ASSUME AnswersInv, Types', at = "loop", at' = "loop",
           fromClient' = fromClient, session'.launchAnswered = session.launchAnswered,
           pending' = pending, breakpoints' = CancelledWork, inspection' = NoInspection,
           SameEditor(client', AnswerStale(AnswerCancelled(client)))
    PROVE  AnswersInv'
<1> DEFINE c == AnswerCancelled(client)
<1>1. /\ Types /\ client \in Editors /\ LaunchOnce /\ breakpoints \in BreakpointStates
      /\ Sane(pending, breakpoints, inspection.waiting) /\ c \in Editors
    BY CancelsTyped DEF AnswersInv, Types
<1>2. /\ \A r \in Others : c.answers[r]
             = client.answers[r] + Count(breakpoints.function = r)
               + Count(breakpoints.panic = r) + Count(InQueue(breakpoints.deferred, r))
      /\ c.answers[Launch] = client.answers[Launch]
      /\ c.next = client.next /\ c.left = client.left
    BY <1>1, CancelledCounts
<1>3. SameEditor(client', AnswerStale(c))
    OBVIOUS
<1> HIDE DEF c
<1>4. /\ \A r \in Others : AnswerStale(c).answers[r]
             = c.answers[r] + Count(Reads(inspection.waiting, r))
      /\ AnswerStale(c).answers[Launch] = c.answers[Launch]
      /\ AnswerStale(c).next = c.next /\ AnswerStale(c).left = c.left
    BY <1>1, StaleCounts DEF Sane
<1>5. /\ breakpoints'.function = NoRequest /\ breakpoints'.panic = None
      /\ breakpoints'.deferred = <<>> /\ inspection'.waiting = {}
    BY <1>1 DEF CancelledWork, NoInspection, BreakpointStates
<1>6. ASSUME NEW r \in Others
      PROVE  Balance(r, pending', breakpoints', inspection'.waiting, client')
             = Balance(r, pending, breakpoints, inspection.waiting, client)
    <2>1. r # NoRequest /\ r # None
        BY DEF Others, Requests, NoRequest, None
    <2>2. /\ Count(InQueue(breakpoints'.deferred, r)) = 0
          /\ Count(Reads(inspection'.waiting, r)) = 0
          /\ Count(breakpoints'.function = r) = 0 /\ Count(breakpoints'.panic = r) = 0
        BY <1>5, <2>1 DEF InQueue, Reads, Count
    <2>3. client.answers[r] \in Nat
        BY <1>1 DEF Editors, Others
    <2>4. client'.answers[r] = client.answers[r] + Count(breakpoints.function = r)
              + Count(breakpoints.panic = r) + Count(InQueue(breakpoints.deferred, r))
              + Count(Reads(inspection.waiting, r))
        BY <1>2, <1>3, <1>4 DEF SameEditor
    <2> QED BY <2>2, <2>3, <2>4 DEF Balance, Count
<1>7. Sane(pending', breakpoints', inspection'.waiting)
    BY <1>1, <1>5 DEF Sane, OneInQueue, OneRead, ReadsOwed
<1>8. LaunchOnce' /\ SameFlow
    BY <1>1, <1>2, <1>3, <1>4 DEF LaunchOnce, SameFlow, SameEditor
<1> QED BY <1>6, <1>7, <1>8, Rebalanced

LEMMA RaiseAnswers ==
    ASSUME AnswersInv, Types', at = "loop", fromClient' = fromClient,
           NEW ws, Raise(client, pending, ws)
    PROVE  AnswersInv'
<1>1. client \in Editors /\ Sane(pending, breakpoints, inspection.waiting)
    BY DEF AnswersInv, Types
<1> QED BY <1>1, RaiseBalances

LEMMA EventAnswers ==
    ASSUME AnswersInv, NEW m,
           \/ OnInitialized(m) \/ OnStopped(m) \/ OnContinued(m) \/ OnExited(m)
           \/ OnTerminated(m) \/ OnFailed(m)
    PROVE  AnswersInv'
<1>1. at = "loop" /\ fromClient' = fromClient
    BY DEF OnInitialized, OnStopped, OnContinued, OnExited, OnTerminated, OnFailed,
       TakeEvent, TakeMessage
<1>2. /\ Types /\ session \in Flags /\ client \in Editors
      /\ breakpoints \in BreakpointStates
      /\ OneInRouter(pending) /\ Owed(pending)
    BY <1>1 DEF AnswersInv, Types, Sane
<1>3. Types'
    BY <1>2, EventTyped
<1>4. SameEditor(client, client) /\ AnswerStale(client) \in Editors
      /\ AnswerStale(AnswerCancelled(client)) \in Editors
    BY <1>2, CancelsTyped DEF SameEditor
<1>5. ASSUME UNCHANGED <<session, pending, breakpoints, inspection, client>>, at' = "loop"
      PROVE  AnswersInv'
    <2>1. SameEditor(client', client)
        BY <1>5 DEF SameEditor
    <2> QED BY <1>1, <1>2, <1>3, <1>5, <2>1, StaleBalances
<1>6. CASE OnInitialized(m)
    <2>1. session'.launchAnswered = session.launchAnswered
        BY <1>2, <1>6 DEF OnInitialized, Flags
    <2>2. UNCHANGED <<pending, breakpoints, inspection, client>> /\ at' = "loop"
        BY <1>6 DEF OnInitialized
    <2>3. SameEditor(client', client)
        BY <2>2 DEF SameEditor
    <2> QED BY <1>1, <1>2, <1>3, <2>1, <2>2, <2>3, StaleBalances
<1>7. CASE OnStopped(m)
    <2>1. CASE session.ended \/ session.exited \/ session.closing
        BY <1>5, <1>7, <2>1 DEF OnStopped
    <2>2. CASE ~(session.ended \/ session.exited \/ session.closing)
        <3> DEFINE ws == Release(workers, {"inspection", "condition"})
                   cond == [conditions EXCEPT !.active = NoJob, !.suppress = FALSE,
                               !.stepping = @ \/ session.pauseRevision # None]
                   c == AnswerStale(client)
        <3>1. /\ session' = [session EXCEPT !.stopped = TRUE,
                                !.revision = session.revision + 1, !.pauseRevision = None]
              /\ at' = "loop" /\ inspection' = NoInspection
              /\ \/ /\ client' = c /\ pending' = pending
                    /\ breakpoints' = [breakpoints EXCEPT
                                          !.stops = Append(breakpoints.stops, m.stop)]
                 \/ /\ PublishStop(m.stop, c, cond, ws, session.revision + 1)
                    /\ breakpoints' = breakpoints
            BY <1>7, <2>2 DEF OnStopped
        <3>2. session'.launchAnswered = session.launchAnswered
            BY <1>2, <3>1 DEF Flags
        <3>3. c \in Editors
            BY <1>4
        <3> HIDE DEF ws, cond, c
        <3>4. /\ breakpoints'.function = breakpoints.function
              /\ breakpoints'.panic = breakpoints.panic
              /\ breakpoints'.deferred = breakpoints.deferred
            BY <1>2, <3>1 DEF BreakpointStates
        <3>5. /\ SameEditor(client', c)
              /\ \A r \in Others : InRouter(pending', r) <=> InRouter(pending, r)
              /\ OneInRouter(pending') /\ Owed(pending')
            <4>1. CASE client' = c /\ pending' = pending
                BY <1>2, <4>1 DEF SameEditor
            <4>2. CASE PublishStop(m.stop, c, cond, ws, session.revision + 1)
                BY <1>2, <3>3, <4>2, PublishStopSame
            <4> QED BY <3>1, <4>1, <4>2
        <3> USE DEF c
        <3> QED BY <1>1, <1>3, <3>1, <3>2, <3>4, <3>5, StaleBalances
    <2> QED BY <2>1, <2>2
<1>8. CASE OnContinued(m)
    <2>1. CASE session.ended \/ session.exited
        BY <1>5, <1>8, <2>1 DEF OnContinued
    <2>2. CASE ~(session.ended \/ session.exited)
        <3>1. /\ session' = [session EXCEPT !.stopped = FALSE,
                                            !.revision = session.revision + 1]
              /\ \/ client' = AnswerStale(client)
                 \/ client' = TellContinued(AnswerStale(client))
              /\ inspection' = NoInspection
              /\ at' = "loop" /\ UNCHANGED <<pending, breakpoints>>
            BY <1>8, <2>2 DEF OnContinued
        <3>2. session'.launchAnswered = session.launchAnswered
            BY <1>2, <3>1 DEF Flags
        <3>3. SameEditor(client', AnswerStale(client))
            BY <1>4, <3>1, TellsSame DEF SameEditor
        <3> QED BY <1>1, <1>2, <1>3, <3>1, <3>2, <3>3, StaleBalances
    <2> QED BY <2>1, <2>2
<1>9. CASE OnExited(m) \/ OnTerminated(m)
    <2> DEFINE c == AnswerStale(AnswerCancelled(client))
    <2>1. /\ \/ session' = session
             \/ session' = Finished(session)
             \/ session' = [session EXCEPT !.exited = TRUE, !.stopped = FALSE,
                               !.revision = session.revision + 1, !.pauseRevision = None]
          /\ client' = TellExited(c) \/ client' = TellTerminated(c)
          /\ breakpoints' = CancelledWork /\ inspection' = NoInspection
          /\ at' = "loop" /\ pending' = pending
        BY <1>9 DEF OnExited, OnTerminated
    <2>2. session'.launchAnswered = session.launchAnswered
        BY <1>2, <2>1 DEF Flags, Finished
    <2>3. c \in Editors
        BY <1>4
    <2> HIDE DEF c
    <2>4. SameEditor(client', c)
        BY <2>1, <2>3, TellsSame
    <2> USE DEF c
    <2> QED BY <1>1, <1>3, <2>1, <2>2, <2>4, CancelBalances
<1>10. CASE OnFailed(m)
    <2>1. CASE Raise(client, pending, workers)
        BY <1>1, <1>3, <2>1, RaiseAnswers
    <2>2. CASE ~Raise(client, pending, workers)
        <3>1. UNCHANGED <<session, client>> /\ at' = "shutdown"
            BY <1>10, <2>2 DEF OnFailed
        <3>2. SameFlow
            BY <1>1, <3>1 DEF SameFlow
        <3>3. Inflow'
            BY <3>2, FlowKept DEF AnswersInv
        <3> QED BY <1>3, <3>1, <3>3 DEF AnswersInv, DrainsAtRest, NoneTwice, LaunchOnce
    <2> QED BY <2>1, <2>2
<1> QED BY <1>6, <1>7, <1>8, <1>9, <1>10

LEMMA LldbAnswers == AnswersInv /\ OnAdapter => AnswersInv'
BY ResponseAnswers, AnswersAndRaisesAnswers, EventAnswers DEF OnAdapter


-----------------------------------------------------------------------------
(* The workers and what they report.                                         *)

LEMMA IgnoredBalances ==
    ASSUME AnswersInv, Types', at = "loop", at' = "loop" \/ EnterDrain,
           UNCHANGED <<fromClient, session, pending, breakpoints, inspection>>,
           SameEditor(client', client)
    PROVE  AnswersInv'
<1>1. OneInRouter(pending) /\ Owed(pending)
    BY DEF AnswersInv, Sane
<1> QED BY <1>1, StaleBalances

LEMMA ReadAnswers ==
    ASSUME AnswersInv, Types', NEW w \in Workers, OnRead(w)
    PROVE  AnswersInv'
<1>1. /\ at = "loop" /\ at' = "loop" /\ fromClient' = fromClient
      /\ UNCHANGED <<session, breakpoints, inspection, client>>
    BY DEF OnRead, TakeWork
<1>2. OneInRouter(pending) /\ Owed(pending) /\ SameEditor(client', client)
    BY <1>1 DEF AnswersInv, Sane, SameEditor
<1>3. /\ \A r \in Others : InRouter(pending', r) <=> InRouter(pending, r)
      /\ OneInRouter(pending') /\ Owed(pending')
    <2>1. CASE Admits(w)
        <3> DEFINE p == Outgoing(FreshSeq(pending), NoRequest, "work", w,
                                 workers[w].job.kind, workers[w].job.stop,
                                 workers[w].job.cause, session.revision)
        <3>1. pending' = pending \cup {p} /\ OwnRequest(p)
            BY <2>1 DEF OnRead, Send, OwnRequest, Outgoing
        <3> HIDE DEF p
        <3> QED BY <1>2, <3>1, OwnSent
    <2>2. CASE ~Admits(w)
        BY <1>2, <2>2 DEF OnRead
    <2> QED BY <2>1, <2>2
<1> QED BY <1>1, <1>2, <1>3, StaleBalances

LEMMA InspectDoneAnswers ==
    ASSUME AnswersInv, Types', OnInspectDone
    PROVE  AnswersInv'
<1> DEFINE job == workers["inspection"].job
           data == workers["inspection"].data
           done == Answer(client, {job.cause}, "ok")
           failed == Answer(client, {job.cause}, "error")
<1>1. /\ at = "loop" /\ at' = "loop" /\ fromClient' = fromClient
      /\ UNCHANGED <<session, pending, breakpoints>>
    BY DEF OnInspectDone, TakeWork
<1>2. /\ Types /\ client \in Editors /\ inspection \in Inspections
      /\ Sane(pending, breakpoints, inspection.waiting) /\ LaunchOnce
    BY <1>1 DEF AnswersInv, Types
<1>3. CASE job \notin inspection.waiting
    <2>1. UNCHANGED <<inspection, client>>
        BY <1>3 DEF OnInspectDone
    <2> QED BY <1>1, <2>1, IgnoredBalances DEF SameEditor
<1>4. CASE job \in inspection.waiting
    <2>1. /\ inspection' = [inspection EXCEPT !.waiting = inspection.waiting \ {job}]
          /\ client' = failed \/ client' = [done EXCEPT !.data[job.cause] = data]
        BY <1>4 DEF OnInspectDone, AnswerWithData
    <2>2. job.cause \in Others /\ Launch \notin {job.cause}
        BY <1>2, <1>4 DEF Sane, ReadsOwed, Others
    <2>3. done \in Editors
        BY <1>2, AnswerTyped
    <2>4. \E o : SameEditor(client', Answer(client, {job.cause}, o))
        <3>1. SameEditor(client', failed) \/ SameEditor(client', done)
            <4> HIDE DEF done, failed
            <4> QED BY <2>1, <2>3 DEF SameEditor, Editors
        <3> QED BY <3>1
    <2> DEFINE S == {job.cause}
    <2>5. PICK o : SameEditor(client', Answer(client, S, o))
        BY <2>4
    <2>6. \A r : Count(r \in S) = Count(job.cause = r)
        BY DEF Count
    <2>7. Launch \notin S
        BY <2>2
    <2> HIDE DEF S
    <2>8. /\ \A r \in Others : client'.answers[r] = client.answers[r] + Count(job.cause = r)
          /\ client'.answers[Launch] = client.answers[Launch]
          /\ client'.next = client.next /\ client'.left = client.left
        BY <1>2, <2>5, <2>6, <2>7, OthersAnswered DEF SameEditor
    <2>9. /\ \A r : Count(Reads(inspection.waiting, r))
                    = Count(Reads(inspection'.waiting, r)) + Count(job.cause = r)
          /\ OneRead(inspection'.waiting) /\ ReadsOwed(inspection'.waiting)
        <3> HIDE DEF job
        <3>1. inspection'.waiting = inspection.waiting \ {job}
            BY <1>2, <2>1 DEF Inspections
        <3>2. OneRead(inspection.waiting) /\ ReadsOwed(inspection.waiting)
            BY <1>2 DEF Sane
        <3>3. /\ \A r : Count(Reads(inspection.waiting, r))
                 = Count(Reads(inspection.waiting \ {job}, r)) + Count(job.cause = r)
              /\ OneRead(inspection.waiting \ {job}) /\ ReadsOwed(inspection.waiting \ {job})
            BY <1>4, <3>2, ReadsLose
        <3> QED BY <3>1, <3>3
    <2> HIDE DEF job
    <2>10. ASSUME NEW r \in Others
           PROVE  Balance(r, pending', breakpoints', inspection'.waiting, client')
                  = Balance(r, pending, breakpoints, inspection.waiting, client)
        <3>1. client.answers[r] \in Nat
            BY <1>2 DEF Editors, Others
        <3> QED BY <1>1, <2>8, <2>9, <3>1 DEF Balance, Count
    <2>11. Sane(pending', breakpoints', inspection'.waiting) /\ LaunchOnce' /\ SameFlow
        BY <1>1, <1>2, <2>8, <2>9 DEF Sane, LaunchOnce, SameFlow
    <2> QED BY <1>1, <2>10, <2>11, Rebalanced
<1> QED BY <1>3, <1>4

LEMMA DoneAnswers ==
    ASSUME AnswersInv, Types', NEW w \in Workers, IgnoreDone(w) \/ RaiseDone(w)
    PROVE  AnswersInv'
<1>1. at = "loop" /\ fromClient' = fromClient
    BY DEF IgnoreDone, RaiseDone, TakeWork
<1>2. CASE IgnoreDone(w)
    <2>1. at' = "loop" /\ UNCHANGED <<session, pending, breakpoints, inspection, client>>
        BY <1>2 DEF IgnoreDone
    <2> QED BY <1>1, <2>1, IgnoredBalances DEF SameEditor
<1>3. CASE RaiseDone(w)
    BY <1>1, <1>3, RaiseAnswers DEF RaiseDone
<1> QED BY <1>2, <1>3

LEMMA FunctionDoneAnswers ==
    ASSUME AnswersInv, Types', OnFunctionDone
    PROVE  AnswersInv'
<1>1. CASE IgnoreDone("function") \/ RaiseDone("function")
    BY <1>1, DoneAnswers, Values
<1>2. CASE ~(IgnoreDone("function") \/ RaiseDone("function"))
    <2> DEFINE f == breakpoints.function
               S == {f}
    <2>1. /\ f # NoRequest /\ EnterDrain /\ at = "loop"
          /\ breakpoints' = [breakpoints EXCEPT !.function = NoRequest, !.requested = "none"]
          /\ client' = Answer(client, S, "ok")
          /\ UNCHANGED <<session, pending, inspection, fromClient>>
        BY <1>2 DEF OnFunctionDone, TakeWork
    <2>2. /\ Types /\ client \in Editors /\ breakpoints \in BreakpointStates
          /\ Sane(pending, breakpoints, inspection.waiting) /\ LaunchOnce
        BY <2>1 DEF AnswersInv, Types
    <2>3. /\ Launch \notin S
          /\ \A r : Count(r \in S) = Count(breakpoints.function = r)
        BY <2>1, <2>2 DEF BreakpointStates, Others, Count
    <2> HIDE DEF f, S
    <2>4. /\ \A r \in Others :
                 client'.answers[r] = client.answers[r] + Count(breakpoints.function = r)
          /\ client'.answers[Launch] = client.answers[Launch]
          /\ client'.next = client.next /\ client'.left = client.left
        BY <2>1, <2>2, <2>3, OthersAnswered
    <2>5. /\ breakpoints'.function = NoRequest /\ breakpoints'.panic = breakpoints.panic
          /\ breakpoints'.deferred = breakpoints.deferred
        BY <2>1, <2>2 DEF BreakpointStates
    <2>6. ASSUME NEW r \in Others
          PROVE  Balance(r, pending', breakpoints', inspection'.waiting, client')
                 = Balance(r, pending, breakpoints, inspection.waiting, client)
        <3>1. client.answers[r] \in Nat
            BY <2>2 DEF Editors, Others
        <3>2. Count(breakpoints'.function = r) = 0
            BY <2>5 DEF Count, Others, Requests, NoRequest
        <3> QED BY <2>1, <2>4, <2>5, <3>1, <3>2 DEF Balance, Count
    <2>7. Sane(pending', breakpoints', inspection'.waiting) /\ LaunchOnce' /\ SameFlow
        BY <2>1, <2>2, <2>4, <2>5 DEF Sane, LaunchOnce, SameFlow
    <2> QED BY <2>1, <2>6, <2>7, Rebalanced
<1> QED BY <1>1, <1>2

LEMMA PanicDoneAnswers ==
    ASSUME AnswersInv, Types', OnPanicDone
    PROVE  AnswersInv'
<1>1. CASE IgnoreDone("panic") \/ RaiseDone("panic")
    BY <1>1, DoneAnswers, Values
<1>2. CASE ~(IgnoreDone("panic") \/ RaiseDone("panic"))
    <2> DEFINE S == {breakpoints.panic} \cap Requests
    <2>1. /\ EnterDrain /\ at = "loop"
          /\ breakpoints' = [breakpoints EXCEPT !.panic = None, !.panicConfigured = TRUE,
                                !.panicInstalled = workers["panic"].job.kind # "none"]
          /\ client' = Answer(client, S, "ok")
          /\ UNCHANGED <<session, pending, inspection, fromClient>>
        BY <1>2 DEF OnPanicDone, TakeWork
    <2>2. /\ Types /\ client \in Editors /\ breakpoints \in BreakpointStates
          /\ Sane(pending, breakpoints, inspection.waiting) /\ LaunchOnce
        BY <2>1 DEF AnswersInv, Types
    <2>3. /\ Launch \notin S
          /\ \A r \in Others : Count(r \in S) = Count(breakpoints.panic = r)
        <3>1. breakpoints.panic \in Others \cup {0, None} /\ Launch # 0 /\ Launch # None
            BY <2>2 DEF BreakpointStates, Launch, None
        <3> QED BY <3>1 DEF Others, Count
    <2> HIDE DEF S
    <2>4. /\ \A r \in Others :
                 client'.answers[r] = client.answers[r] + Count(breakpoints.panic = r)
          /\ client'.answers[Launch] = client.answers[Launch]
          /\ client'.next = client.next /\ client'.left = client.left
        BY <2>1, <2>2, <2>3, OthersAnswered
    <2>5. /\ breakpoints'.panic = None /\ breakpoints'.function = breakpoints.function
          /\ breakpoints'.deferred = breakpoints.deferred
        BY <2>1, <2>2 DEF BreakpointStates
    <2>6. ASSUME NEW r \in Others
          PROVE  Balance(r, pending', breakpoints', inspection'.waiting, client')
                 = Balance(r, pending, breakpoints, inspection.waiting, client)
        <3>1. client.answers[r] \in Nat
            BY <2>2 DEF Editors, Others
        <3>2. Count(breakpoints'.panic = r) = 0
            BY <2>5 DEF Count, Others, Requests, None
        <3> QED BY <2>1, <2>4, <2>5, <3>1, <3>2 DEF Balance, Count
    <2>7. Sane(pending', breakpoints', inspection'.waiting) /\ LaunchOnce' /\ SameFlow
        BY <2>1, <2>2, <2>4, <2>5 DEF Sane, LaunchOnce, SameFlow
    <2> QED BY <2>1, <2>6, <2>7, Rebalanced
<1> QED BY <1>1, <1>2

LEMMA ConditionDoneAnswers ==
    ASSUME AnswersInv, Types', OnConditionDone
    PROVE  AnswersInv'
<1>1. CASE IgnoreDone("condition")
    BY <1>1, DoneAnswers, Values
<1>2. CASE ~IgnoreDone("condition")
    <2> DEFINE stop == conditions.active.stop
               p == Outgoing(FreshSeq(pending), NoRequest, "continue",
                             "conditionContinue", "none", stop, 0, session.revision + 1)
    <2>1. /\ EnterDrain /\ at = "loop" /\ UNCHANGED <<breakpoints, fromClient>>
          /\ \/ /\ session' = [session EXCEPT !.stopped = FALSE,
                                              !.revision = session.revision + 1]
                /\ client' = AnswerStale(client) /\ inspection' = NoInspection
                /\ pending' = pending \cup {p}
             \/ /\ client' = TellStopped(client, stop)
                /\ UNCHANGED <<session, inspection, pending>>
        BY <1>2 DEF OnConditionDone, TakeWork, Send
    <2>2. /\ Types /\ session \in Flags /\ client \in Editors
          /\ OneInRouter(pending) /\ Owed(pending)
        BY <2>1 DEF AnswersInv, Types, Sane
    <2>3. OwnRequest(p)
        BY DEF OwnRequest, Outgoing
    <2>4. session'.launchAnswered = session.launchAnswered
        BY <2>1, <2>2 DEF Flags
    <2> HIDE DEF p, stop
    <2>5. /\ \A r \in Others : InRouter(pending', r) <=> InRouter(pending, r)
          /\ OneInRouter(pending') /\ Owed(pending')
        <3>1. CASE pending' = pending \cup {p}
            BY <2>2, <2>3, <3>1, OwnSent
        <3>2. CASE pending' = pending
            BY <2>2, <3>2
        <3> QED BY <2>1, <3>1, <3>2
    <2>6. \/ inspection'.waiting = inspection.waiting /\ SameEditor(client', client)
          \/ inspection' = NoInspection /\ SameEditor(client', AnswerStale(client))
        BY <2>1, <2>2, TellsSame DEF SameEditor
    <2> QED BY <2>1, <2>4, <2>5, <2>6, StaleBalances
<1> QED BY <1>1, <1>2

LEMMA WorkAnswers == AnswersInv /\ OnWork => AnswersInv'
<1> SUFFICES ASSUME AnswersInv, OnWork PROVE AnswersInv'
    OBVIOUS
<1>1. Types'
    BY WorkTyped DEF AnswersInv
<1> QED BY <1>1, ReadAnswers, InspectDoneAnswers, FunctionDoneAnswers,
           PanicDoneAnswers, ConditionDoneAnswers DEF OnWork

-----------------------------------------------------------------------------
(* The loop's end, the editor, and everything that passes no request on.     *)

LEMMA LoopEndAnswers ==
    ASSUME AnswersInv, Timeout \/ Shutdown
    PROVE  AnswersInv'
<1>1. Types /\ Types'
    BY TimeoutTyped, ShutdownTyped DEF AnswersInv
<1>2. CASE Raise(client, pending, workers)
    <2>1. Timeout
        BY <1>2 DEF Raise, Shutdown
    <2> QED BY <1>1, <1>2, <2>1, RaiseAnswers DEF Timeout
<1>3. CASE ~Raise(client, pending, workers)
    <2>1. /\ at' \in {"shutdown", "closed", "over"} /\ fromClient' = fromClient
          /\ client' = client \/ client' = TellTerminated(client)
          /\ session' = session \/ session' = Finished(session)
        BY <1>3 DEF Timeout, Shutdown
    <2>2. SameEditor(client', client)
        BY <1>1, <2>1, TerminatedSame DEF Types, SameEditor
    <2>3. session'.launchAnswered = session.launchAnswered
        BY <1>1, <2>1 DEF Types, Flags, Finished
    <2>4. SameFlow
        BY <2>1, <2>2 DEF SameFlow, SameEditor
    <2>5. Inflow'
        BY <2>4, FlowKept DEF AnswersInv
    <2> QED BY <1>1, <2>1, <2>2, <2>3, <2>5
            DEF AnswersInv, DrainsAtRest, NoneTwice, LaunchOnce, SameEditor
<1> QED BY <1>2, <1>3


\* What is on its way to the loop grows at its end.
LEMMA EditorAnswers ==
    ASSUME AnswersInv, ClientSends \/ ClientLeaves
    PROVE  AnswersInv'
<1>1. Types /\ Types' /\ client \in Editors /\ client.next \in Nat
      /\ fromClient \in Seq(Asks \cup Eofs)
    BY ClientSendsTyped, ClientLeavesTyped DEF AnswersInv, Types, Editors
<1>2. /\ UNCHANGED <<at, session, pending, breakpoints, conditions, inspection>>
      /\ ~client.left
    BY DEF ClientSends, ClientLeaves
<1>3. /\ client'.answers = client.answers
      /\ \/ client'.next = client.next + 1 /\ client'.left = client.left
         \/ client'.next = client.next /\ client'.left = TRUE
    BY <1>1 DEF ClientSends, ClientLeaves, Editors
<1>4. PICK x : /\ fromClient' = Append(fromClient, x) /\ x.seq = client.next
               /\ \/ x.command = "eof" /\ client'.left = TRUE /\ client'.next = client.next
                  \/ x.command # "eof" /\ client'.next = client.next + 1
    <2>1. CASE ClientSends
        <3>1. PICK command \in Commands : \E kind \in KindsOf(command) :
                  fromClient' = Append(fromClient, Request(client.next, command, kind))
            BY <2>1 DEF ClientSends
        <3>2. PICK kind \in KindsOf(command) :
                  fromClient' = Append(fromClient, Request(client.next, command, kind))
            BY <3>1
        <3>3. command # "eof"
            BY LiveAssumption DEF AllCommands
        <3>4. client'.next = client.next + 1
            BY <1>1, <2>1 DEF ClientSends, Editors
        <3> QED BY <3>2, <3>3, <3>4 DEF Request
    <2>2. CASE ClientLeaves
        <3>1. fromClient' = Append(fromClient, Request(client.next, "eof", "none"))
            BY <2>2 DEF ClientLeaves
        <3>2. client'.left = TRUE /\ client'.next = client.next
            BY <1>1, <2>2 DEF ClientLeaves, Editors
        <3> QED BY <3>1, <3>2 DEF Request
    <2> QED BY <2>1, <2>2
<1> DEFINE n == Len(fromClient)
<1>5. /\ n \in Nat /\ Len(fromClient') = n + 1 /\ fromClient'[n + 1] = x
      /\ \A i \in 1 .. n : fromClient'[i] = fromClient[i]
      /\ \A i : i \in 1 .. n + 1 <=> i \in 1 .. n \/ i = n + 1
    <2>1. n \in Nat
        BY <1>1
    <2>2. Len(fromClient') = n + 1 /\ fromClient'[n + 1] = x
          /\ \A i \in 1 .. n : fromClient'[i] = fromClient[i]
        BY <1>1, <1>4
    <2>3. \A i : i \in 1 .. n + 1 <=> i \in 1 .. n \/ i = n + 1
        <3> HIDE DEF n
        <3> QED BY <2>1
    <2> QED BY <2>1, <2>2, <2>3
\* The editor has not left, so that all it sent has a smaller number.
<1>6. \A i \in 1 .. n : /\ fromClient[i].seq \in Nat /\ fromClient[i].command # "eof"
                        /\ fromClient[i].seq < client.next
    <2>1. \A y \in Asks \cup Eofs : y.seq \in Nat
        BY LiveAssumption DEF Asks, Eofs, Requests
    <2>2. \A i \in 1 .. n : fromClient[i] \in Asks \cup Eofs
        BY <1>1
    <2> QED BY <1>2, <2>1, <2>2 DEF AnswersInv, Inflow
<1>7. /\ \A i, j \in 1 .. n : i < j => fromClient[i].seq < fromClient[j].seq
    BY DEF AnswersInv, Inflow
<1> HIDE DEF n
<1>8. Inflow'
    <2>1. ASSUME NEW i \in 1 .. n + 1, NEW j \in 1 .. n + 1, i < j
          PROVE  fromClient'[i].seq < fromClient'[j].seq
        <3>1. i \in 1 .. n
            BY <1>5, <2>1
        <3>2. CASE j \in 1 .. n
            BY <1>5, <1>7, <2>1, <3>1, <3>2
        <3>3. CASE j = n + 1
            BY <1>4, <1>5, <1>6, <3>1, <3>3
        <3> QED BY <1>5, <3>2, <3>3
    <2>2. ASSUME NEW i \in 1 .. n + 1
          PROVE  IF fromClient'[i].command = "eof"
                 THEN client'.left /\ fromClient'[i].seq = client'.next
                 ELSE fromClient'[i].seq < client'.next
        <3>1. CASE i \in 1 .. n
            <4>1. fromClient'[i] = fromClient[i]
                BY <1>5, <3>1
            <4>2. client'.next \in {client.next, client.next + 1}
                BY <1>3
            <4> QED BY <1>1, <1>6, <3>1, <4>1, <4>2
        <3>2. CASE i = n + 1
            BY <1>1, <1>4, <1>5, <3>2
        <3> QED BY <1>5, <3>1, <3>2
    <2> QED BY <1>5, <2>1, <2>2 DEF Inflow
<1>9. \A r \in Others : Coming(r)' <=> Coming(r)
    <2> SUFFICES ASSUME NEW r \in Others PROVE Coming(r)' <=> Coming(r)
        OBVIOUS
    <2>1. r \in Nat
        BY LiveAssumption DEF Others, Requests
    <2>2. Coming(r)' <=> \/ r >= client'.next \/ r = client.next
                         \/ \E i \in 1 .. n : fromClient[i].seq = r
        <3>1. Coming(r)' <=> \/ r >= client'.next
                             \/ \E i \in 1 .. n + 1 : fromClient'[i].seq = r
            BY <1>5 DEF Coming
        <3> QED BY <1>4, <1>5, <3>1
    <2>3. Coming(r) <=> \/ r >= client.next
                        \/ \E i \in 1 .. n : fromClient[i].seq = r
        BY DEF Coming, n
    <2>4. (r >= client'.next \/ r = client.next) <=> r >= client.next
        BY <1>1, <1>3, <2>1
    <2> QED BY <2>2, <2>3, <2>4
<1>10. \A r \in Others :
           Count(Coming(r)') + Balance(r, pending', breakpoints', inspection'.waiting, client')
           = Count(Coming(r)) + Balance(r, pending, breakpoints, inspection.waiting, client)
    <2> SUFFICES ASSUME NEW r \in Others
                 PROVE  /\ Count(Coming(r)') = Count(Coming(r))
                        /\ Balance(r, pending', breakpoints', inspection'.waiting, client')
                           = Balance(r, pending, breakpoints, inspection.waiting, client)
        OBVIOUS
    <2>1. Count(Coming(r)') = Count(Coming(r))
        BY <1>9 DEF Count
    <2>2. Balance(r, pending', breakpoints', inspection'.waiting, client')
          = Balance(r, pending, breakpoints, inspection.waiting, client)
        BY <1>2, <1>3 DEF Balance
    <2> QED BY <2>1, <2>2
<1>11. at' \in {"loop", "drain"} =>
           Balanced' /\ Sane(pending', breakpoints', inspection'.waiting)
    <2> SUFFICES ASSUME at' \in {"loop", "drain"}
                 PROVE  Balanced' /\ Sane(pending', breakpoints', inspection'.waiting)
        OBVIOUS
    <2>1. Balanced /\ Sane(pending, breakpoints, inspection.waiting)
        BY <1>2 DEF AnswersInv
    <2>2. \A r \in Others :
              Count(Coming(r)')
              + Balance(r, pending', breakpoints', inspection'.waiting, client') = 1
        BY <1>10, <2>1 DEF Balanced
    <2>3. Balanced'
        BY <2>2 DEF Balanced, Balance
    <2> QED BY <1>2, <2>1, <2>3
<1>12. DrainsAtRest' /\ NoneTwice' /\ LaunchOnce'
    BY <1>2, <1>3 DEF AnswersInv, DrainsAtRest, WorkPending, NoneTwice, LaunchOnce
<1> QED BY <1>1, <1>8, <1>11, <1>12 DEF AnswersInv, Sane

LEMMA ElsewhereAnswers ==
    ASSUME AnswersInv, Types',
           UNCHANGED <<at, session, pending, breakpoints, conditions, inspection, client,
                       fromClient>>
    PROVE  AnswersInv'
<1>1. SameFlow
    BY DEF SameFlow
<1>2. Inflow' /\ \A r : Coming(r)' <=> Coming(r)
    BY <1>1, FlowKept DEF AnswersInv
<1>3. \A r \in Others : Count(Coming(r)') = Count(Coming(r))
    BY <1>2 DEF Count
<1>4. Balanced => Balanced'
    BY <1>3 DEF Balanced, Balance
<1>5. DrainsAtRest' /\ NoneTwice' /\ LaunchOnce'
    BY DEF AnswersInv, DrainsAtRest, WorkPending, NoneTwice, LaunchOnce
<1> QED BY <1>2, <1>4, <1>5 DEF AnswersInv, Sane

LEMMA WorldAnswers ==
    ASSUME AnswersInv,
           \/ \E w \in Workers : Worker(w)
           \/ Adapter \/ AdapterAnswers \/ TargetStops \/ TargetExits \/ Crash
           \/ UNCHANGED vars
    PROVE  AnswersInv'
<1>1. UNCHANGED <<at, session, pending, breakpoints, conditions, inspection, client,
                  fromClient>>
    <2>1. CASE \E w \in Workers : Worker(w)
        BY ZenonT(60), <2>1 DEF Worker, WorkerStart, WorkerFinish, WorkerTimeout, StepWorker
    <2>2. CASE Adapter
        BY <2>2 DEF Adapter, AdapterLaunches, AdapterRefuses, Installs, Inspects,
           Continues, Halts, Leaves, Handle
    <2>3. CASE AdapterAnswers \/ TargetStops \/ TargetExits \/ Crash
        BY <2>3 DEF AdapterAnswers, TargetStops, TargetExits, Crash, TargetMoves
    <2>4. CASE UNCHANGED vars
        BY <2>4 DEF vars
    <2> QED BY <2>1, <2>2, <2>3, <2>4
<1>2. Types'
    BY TypesInductive DEF AnswersInv, Next
<1> QED BY <1>1, <1>2, ElsewhereAnswers

LEMMA InitAnswers == Init => AnswersInv
<1> SUFFICES ASSUME Init PROVE AnswersInv
    OBVIOUS
<1>1. Types
    BY InitTypes
<1>2. /\ at = "loop" /\ fromClient = <<>> /\ client.next = Launch + 1
      /\ breakpoints.function = NoRequest /\ breakpoints.panic = None
      /\ breakpoints.deferred = <<>> /\ inspection.waiting = {}
    BY DEF Init
<1>3. \A r \in Requests :
          client.answers[r] = IF StartRunning /\ r = Launch THEN 1 ELSE 0
    BY DEF Init
<1>4. \A p \in pending : p.client = NoRequest /\ p.command = "initialize"
    BY DEF Init, Outgoing
<1>5. \A p, q \in pending : p = q
    BY DEF Init
<1>6. session.launchAnswered = StartRunning
    BY LiveAssumption DEF Init, FlagsAtLaunch
<1>7. Inflow
    BY <1>2 DEF Inflow
<1>8. DrainsAtRest
    BY <1>2 DEF DrainsAtRest
<1>9. Sane(pending, breakpoints, inspection.waiting)
    <2>1. NoRequest # Launch
        BY DEF NoRequest, Launch
    <2> QED BY <1>2, <1>4, <1>5, <2>1
            DEF Sane, OneInRouter, Owed, OneInQueue, OneRead, ReadsOwed
<1>10. LaunchOnce
    BY <1>3, <1>6, Values, LiveAssumption DEF LaunchOnce, Count
<1>11. ASSUME NEW r \in Others
       PROVE  /\ client.answers[r] = 0
              /\ Count(Coming(r))
                 + Balance(r, pending, breakpoints, inspection.waiting, client) = 1
    <2>1. /\ r \in Requests /\ r # Launch /\ r # NoRequest /\ r # None /\ r >= Launch + 1
        BY LiveAssumption DEF Others, Requests, NoRequest, None, Launch
    <2>2. client.answers[r] = 0
        BY <1>3, <2>1
    <2>3. /\ Coming(r) /\ ~InRouter(pending, r) /\ ~InQueue(breakpoints.deferred, r)
          /\ ~Reads(inspection.waiting, r)
        BY <1>2, <1>4, <2>1 DEF Coming, InRouter, InQueue, Reads
    <2> QED BY <1>2, <2>1, <2>2, <2>3 DEF Balance, Count
<1>12. Balanced /\ NoneTwice
    BY <1>11 DEF Balanced, NoneTwice
<1> QED BY <1>1, <1>7, <1>8, <1>9, <1>10, <1>12 DEF AnswersInv

LEMMA AnswersHold == Spec => []AnswersInv
<1>1. AnswersInv /\ [Next]_vars => AnswersInv'
    <2> SUFFICES ASSUME AnswersInv, [Next]_vars PROVE AnswersInv'
        OBVIOUS
    <2> QED BY ClientAnswers, LldbAnswers, WorkAnswers, DrainStopAnswers,
               DrainRequestAnswers, LoopEndAnswers, EditorAnswers, WorldAnswers DEF Next
<1> QED BY InitAnswers, <1>1, PTL DEF Spec


-----------------------------------------------------------------------------
(* What the editor may rely on.                                              *)

LEMMA AtMostOne ==
    ASSUME NEW S, \A x, y \in S : x = y
    PROVE  Cardinality(S) = Count(S # {})
<1>1. CASE S = {}
    BY <1>1, FS_EmptySet DEF Count
<1>2. CASE S # {}
    <2>1. PICK x : x \in S
        BY <1>2
    <2>2. S = {x}
        BY <2>1
    <2> QED BY <1>2, <2>2, FS_Singleton DEF Count
<1> QED BY <1>1, <1>2

\* The holders that Accounted counts are those of the balance.
LEMMA OwnersCounted ==
    ASSUME NEW r \in Others, Sane(pending, breakpoints, inspection.waiting),
           breakpoints.deferred \in Seq(Asks)
    PROVE  Owners(r) = Count(InRouter(pending, r)) + Count(InQueue(breakpoints.deferred, r))
                       + Count(Reads(inspection.waiting, r))
                       + Count(breakpoints.function = r) + Count(breakpoints.panic = r)
<1> DEFINE ps == {p \in pending : p.client = r}
           qs == {i \in DOMAIN breakpoints.deferred : breakpoints.deferred[i].seq = r}
           js == {j \in inspection.waiting : j.cause = r}
<1>1. Cardinality(ps) = Count(InRouter(pending, r))
    <2>1. \A p, q \in ps : p = q
        BY DEF Sane, OneInRouter
    <2>2. ps # {} <=> InRouter(pending, r)
        BY DEF InRouter
    <2> HIDE DEF ps
    <2> QED BY <2>1, <2>2, AtMostOne DEF Count
<1>2. Cardinality(js) = Count(Reads(inspection.waiting, r))
    <2>1. \A j, k \in js : j = k
        BY DEF Sane, OneRead
    <2>2. js # {} <=> Reads(inspection.waiting, r)
        BY DEF Reads
    <2> HIDE DEF js
    <2> QED BY <2>1, <2>2, AtMostOne DEF Count
<1>3. DOMAIN breakpoints.deferred = 1 .. Len(breakpoints.deferred)
    OBVIOUS
<1>4. Cardinality(qs) = Count(InQueue(breakpoints.deferred, r))
    <2>1. \A i, j \in qs : i = j
        BY <1>3 DEF Sane, OneInQueue
    <2>2. qs # {} <=> InQueue(breakpoints.deferred, r)
        BY <1>3 DEF InQueue
    <2> HIDE DEF qs
    <2> QED BY <2>1, <2>2, AtMostOne DEF Count
<1> QED BY <1>1, <1>2, <1>4 DEF Owners, Count

\* A request the loop has taken is answered, or exactly one part of the session
\* still owes its answer, and launch is answered once: deferring, draining,
\* forwarding to lldb-dap, reading in a worker and every way to give up pass each
\* request on or answer it, never both and never neither.
THEOREM RequestsAccounted == Spec => []Accounted
<1>1. AnswersInv => Accounted
    <2> SUFFICES ASSUME AnswersInv, at \in {"loop", "drain"}
                 PROVE  /\ \A r \in Requests \ {Launch} :
                              Taken(r) => client.answers[r] + Owners(r) = 1
                        /\ client.answers[Launch]
                              = IF session.launchAnswered THEN 1 ELSE 0
        BY DEF Accounted
    <2>1. Balanced /\ Sane(pending, breakpoints, inspection.waiting) /\ LaunchOnce
          /\ client \in Editors /\ client.next \in Nat
          /\ breakpoints.deferred \in Seq(Asks) /\ fromClient \in Seq(Asks \cup Eofs)
        BY DEF AnswersInv, Types, Editors, BreakpointStates
    <2>2. ASSUME NEW r \in Others, Taken(r)
          PROVE  client.answers[r] + Owners(r) = 1
        <3>1. ~Coming(r)
            <4>1. DOMAIN fromClient = 1 .. Len(fromClient) /\ r \in Nat
                BY <2>1, LiveAssumption DEF Others, Requests
            <4> QED BY <2>1, <2>2, <4>1 DEF Taken, Coming
        <3>2. client.answers[r] \in Nat
            BY <2>1 DEF Editors, Others
        <3>3. Balance(r, pending, breakpoints, inspection.waiting, client) = 1
            <4>1. Balance(r, pending, breakpoints, inspection.waiting, client) \in Nat
                BY <2>1, BalanceTyped
            <4> QED BY <2>1, <3>1, <4>1 DEF Balanced, Count
        <3>4. Owners(r) = Count(InRouter(pending, r)) + Count(InQueue(breakpoints.deferred, r))
                          + Count(Reads(inspection.waiting, r))
                          + Count(breakpoints.function = r) + Count(breakpoints.panic = r)
            BY <2>1, OwnersCounted
        <3> QED BY <3>2, <3>3, <3>4 DEF Balance, Count
    <2> QED BY <2>1, <2>2 DEF LaunchOnce, Count, Others
<1> QED BY <1>1, AnswersHold, PTL

\* No request is answered twice: neither by the handlers that answer one request
\* nor by the paths that answer everybody left (a failure, disconnect, the end of
\* the target), whichever of them meet.
THEOREM NoSecondAnswer == Spec => []AnsweredOnce
<1>1. AnswersInv => AnsweredOnce
    <2> SUFFICES ASSUME AnswersInv, NEW r \in Requests PROVE client.answers[r] <= 1
        BY DEF AnsweredOnce
    <2>1. CASE r = Launch
        BY <2>1 DEF AnswersInv, LaunchOnce, Count
    <2>2. CASE r # Launch
        BY <2>2 DEF AnswersInv, NoneTwice, Others
    <2> QED BY <2>1, <2>2
<1> QED BY <1>1, AnswersHold, PTL


=============================================================================
