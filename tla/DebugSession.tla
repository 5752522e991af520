---------------------------- MODULE DebugSession ----------------------------
(***************************************************************************)
(* The application session of the REPL frontend (src/debugger): desired     *)
(* breakpoints, the user-visible phase, the stable stop with its stack and  *)
(* frame selection, over a DebugBackend known only by its contract.         *)
(*                                                                         *)
(* The REPL awaits each command, so one operation is in progress at a time; *)
(* `doing` says which one and what it awaits.  An operation that calls the  *)
(* backend is one action up to the call and one action per answer.          *)
(***************************************************************************)
EXTENDS Integers, Sequences, FiniteSets

CONSTANTS
    MaxPoints,      \* breakpoints the user adds
    MaxRuns,        \* launches
    MaxStops,       \* stops in one execution
    MaxFrames,      \* depth of a stack the backend may report
    Window,         \* frames in the initial window (20 in the code)
    Conditions,     \* breakpoint conditions, one of them Unconditional
    Unconditional

ASSUME SessionAssumption ==
    /\ MaxPoints \in Nat /\ MaxRuns \in Nat /\ MaxStops \in Nat
    /\ MaxFrames \in Nat /\ Window \in Nat \ {0}
    /\ Unconditional \in Conditions

VARIABLES
    project,     \* whether project_sources is not empty; given at the start
    phase,       \* DebugSessionState
    execution,   \* DebugApplicationState.execution_number
    stopNumber,  \* DebugApplicationState.stop_number
    stop,        \* the stable stop, or NoStop
    points,      \* desired breakpoints, source and function
    nextId,      \* next_breakpoint_id
    results,     \* IDs with a synchronization result of this stop
    doing,       \* the operation in progress
    installed,   \* breakpoints the backend confirmed for the live execution
    refused      \* IDs whose addition the backend refused; no code variable

vars == <<project, phase, execution, stopNumber, stop, points, nextId, results,
          doing, installed, refused>>

-----------------------------------------------------------------------------
(* Data.                                                                    *)

Phases == {"Ready", "Running", "Stopped", "Exited", "Failed"}

\* Project frames have a source of the project; user frames are MoonBit code of
\* a library; hidden frames are runtime, native or unknown.
FrameKinds == {"project", "user", "hidden"}

\* A stack window from frame 1 (0 in the code).  `complete` is the backend's
\* assertion that there is no frame beyond it.
Stacks == [frames : Seq(FrameKinds), complete : BOOLEAN]
NoStack == [frames |-> <<>>, complete |-> FALSE]

\* The stacks of at most n frames: what TLC lets the backend answer.
StacksUpTo(n) ==
    [frames : UNION {[1 .. k -> FrameKinds] : k \in 0 .. n}, complete : BOOLEAN]

Points == [id : Nat, kind : {"source", "function"}, enabled : BOOLEAN,
           condition : Conditions]

NoFrame == 0
StableStops == [epoch : Nat \X Nat, panic : BOOLEAN, stack : Stacks, frame : Nat,
                chosen : BOOLEAN]
NoStop == [epoch |-> <<0, 0>>, panic |-> FALSE, stack |-> NoStack,
           frame |-> NoFrame, chosen |-> FALSE]

\* launch and resume await an outcome; arrive and settle the first and the
\* further stack windows of a stop.
Looks == {"select", "caller", "complete"}
Ops == {"idle", "launch", "resume", "arrive", "settle", "read", "sync"} \cup Looks

\* goal: the frame to select; panic, stack: the stop being settled;
\* want, before: the configuration sent to the backend and the one to return to;
\* adds: the breakpoint an addition sends.
Doing(op) == [op |-> op, goal |-> 0, panic |-> FALSE, stack |-> NoStack,
              want |-> {}, before |-> {}, adds |-> {}]
Idle == Doing("idle")

Operations ==
    [op : Ops, goal : Nat, panic : BOOLEAN, stack : Stacks,
     want : SUBSET Points, before : SUBSET Points, adds : SUBSET Points]

Init ==
    /\ project \in BOOLEAN
    /\ phase = "Ready"
    /\ execution = 0
    /\ stopNumber = 0
    /\ stop = NoStop
    /\ points = {}
    /\ nextId = 1
    /\ results = {}
    /\ doing = Idle
    /\ installed = {}
    /\ refused = {}

Enabled(ps) == {p \in ps : p.enabled}
Ids(ps) == {p.id : p \in ps}

AtPrompt == doing = Idle
Stopped == phase = "Stopped"

-----------------------------------------------------------------------------
(* The stack.                                                               *)

Loaded(s) == DOMAIN s.frames

\* Mutant: the end of the loaded range counts as loaded.
IsLoadedInclusive(i, s) == i \in 1 .. Len(s.frames) + 1

IsLoaded(i, s) == i \in Loaded(s)

Visible(s) == {i \in Loaded(s) : s.frames[i] # "hidden"}

\* Frames with a source file of the project; none are known without a project.
ProjectFrames(s) ==
    {i \in Loaded(s) : project /\ s.frames[i] = "project"}

IsFirst(i, S) == i \in S /\ \A j \in S : i <= j
IsLast(i, S) == i \in S /\ \A j \in S : j <= i

\* default_selection: the nearest visible frame; without one, the first frame of
\* a complete stack.
IsDefault(i, s) ==
    IF Visible(s) # {} THEN IsFirst(i, Visible(s))
    ELSE IF s.complete /\ s.frames # <<>> THEN i = 1
    ELSE i = NoFrame

\* panic_project_frame
IsPanicFrame(i, s) ==
    IF ProjectFrames(s) # {} THEN IsFirst(i, ProjectFrames(s))
    ELSE i = NoFrame

\* A panic looks for a project frame, any other stop for a frame to show.
SelectsFrom(i, s, panic) ==
    IF panic THEN IsPanicFrame(i, s) ELSE IsDefault(i, s)

\* accept_outcome extends the stack until it found its frame, or all is loaded.
SettledBy(s, panic) ==
    \/ s.complete
    \/ panic /\ (~project \/ ProjectFrames(s) # {})
    \/ ~panic /\ Visible(s) # {}

\* Mutant: only the new window is looked at, not what was loaded before.
ExtendsByWindow(s, t) == t.frames # <<>> \/ t.complete

\* validate_extension: loaded frames stay, and there is progress.
Extends(s, t) ==
    /\ Len(s.frames) <= Len(t.frames)
    /\ \A i \in Loaded(s) : t.frames[i] = s.frames[i]
    /\ Len(s.frames) < Len(t.frames) \/ t.complete

-----------------------------------------------------------------------------
(* Phase changes of DebugApplicationState.                                   *)

\* transition_without_stop, which ends the operation in progress.
Leave(next) ==
    /\ phase' = next
    /\ stop' = NoStop
    /\ doing' = Idle

\* Mutant: the failure is raised without leaving the execution.
BackendFailsInPlace ==
    /\ Leave(phase)
    /\ UNCHANGED <<execution, stopNumber, points, nextId, results, installed,
                   refused>>

\* backend_failed: a failure the backend reports leaves the session usable, any
\* other error does not.
BackendFails ==
    /\ \E next \in {"Ready", "Failed"} : Leave(next)
    /\ UNCHANGED <<execution, stopNumber, points, nextId, results, installed,
                   refused>>

\* An answer the session itself finds invalid.
BackendMisbehaves ==
    /\ Leave("Ready")
    /\ UNCHANGED <<execution, stopNumber, points, nextId, results, installed,
                   refused>>

-----------------------------------------------------------------------------
(* Running.                                                                 *)

\* run: also from a stop, whose execution the backend replaces.
Run ==
    /\ AtPrompt /\ phase \in {"Ready", "Stopped"} /\ execution < MaxRuns
    /\ phase' = "Running"
    /\ execution' = execution + 1
    /\ stopNumber' = 0
    /\ stop' = NoStop
    /\ results' = {}
    /\ doing' = Doing("launch")
    /\ UNCHANGED <<points, nextId, installed, refused>>

\* Mutant: a resumed program counts its stops from the start.
ResumeFromZero ==
    /\ AtPrompt /\ Stopped
    /\ phase' = "Running"
    /\ stopNumber' = 0
    /\ stop' = NoStop
    /\ results' = {}
    /\ doing' = Doing("resume")
    /\ UNCHANGED <<execution, points, nextId, installed, refused>>

\* continue, next, step, finish
Resume ==
    /\ AtPrompt /\ Stopped
    /\ phase' = "Running"
    /\ stop' = NoStop
    /\ results' = {}
    /\ doing' = Doing("resume")
    /\ UNCHANGED <<execution, stopNumber, points, nextId, installed, refused>>

\* A launch installs the enabled breakpoints before the program runs.
Installation ==
    IF doing.op = "launch"
    THEN installed' = Enabled(points) /\ refused' = {}
    ELSE UNCHANGED <<installed, refused>>

\* The outcome is a stop, whose stack must be read before it is accepted.
OutcomeStopped ==
    /\ doing.op \in {"launch", "resume"} /\ stopNumber < MaxStops
    /\ \E panic \in BOOLEAN :
          doing' = [Doing("arrive") EXCEPT !.panic = panic]
    /\ Installation
    /\ UNCHANGED <<phase, execution, stopNumber, stop, points, nextId, results>>

\* accept_exit: the session is ready for another run.
OutcomeExited ==
    /\ doing.op \in {"launch", "resume"}
    /\ Leave("Ready")
    /\ Installation
    /\ UNCHANGED <<execution, stopNumber, points, nextId, results>>

OutcomeFails == doing.op \in {"launch", "resume"} /\ BackendFails

-----------------------------------------------------------------------------
(* Settling a stop: the initial window, extensions, then accept_stopped.     *)

SettleInitially(s) ==
    /\ doing.op = "arrive"
    /\ Len(s.frames) <= Window
    /\ doing' = [doing EXCEPT !.op = "settle", !.stack = s]
    /\ UNCHANGED <<phase, execution, stopNumber, stop, points, nextId, results,
                   installed, refused>>

SettleFurther(s) ==
    /\ doing.op = "settle"
    /\ ~SettledBy(doing.stack, doing.panic)
    /\ Extends(doing.stack, s)
    /\ doing' = [doing EXCEPT !.stack = s]
    /\ UNCHANGED <<phase, execution, stopNumber, stop, points, nextId, results,
                   installed, refused>>

\* accept_stopped: a new epoch, with the frame the user is shown.
AcceptStopped ==
    /\ doing.op = "settle"
    /\ SettledBy(doing.stack, doing.panic)
    /\ \E i \in Loaded(doing.stack) \cup {NoFrame} :
          /\ SelectsFrom(i, doing.stack, doing.panic)
          /\ stop' = [epoch |-> <<execution, stopNumber + 1>>,
                      panic |-> doing.panic, stack |-> doing.stack,
                      frame |-> i, chosen |-> FALSE]
    /\ stopNumber' = stopNumber + 1
    /\ phase' = "Stopped"
    /\ doing' = Idle
    /\ UNCHANGED <<execution, points, nextId, results, installed, refused>>

\* A window that is too large, of another thread or not a prefix extension.
SettleFails ==
    /\ \/ doing.op = "arrive"
       \/ doing.op = "settle" /\ ~SettledBy(doing.stack, doing.panic)
    /\ BackendFails

-----------------------------------------------------------------------------
(* Looking at the stop.                                                     *)

\* select_frame, select_visible_caller_frame, complete_stack_snapshot
Look ==
    /\ AtPrompt /\ Stopped
    /\ \/ \E i \in 1 .. MaxFrames + 1 :
             doing' = [Doing("select") EXCEPT !.goal = i]
       \/ stop.frame # NoFrame /\ doing' = Doing("caller")
       \/ doing' = Doing("complete")
    /\ UNCHANGED <<phase, execution, stopNumber, stop, points, nextId, results,
                   installed, refused>>

Callers == {i \in Visible(stop.stack) : i > stop.frame}
Callees == {i \in Visible(stop.stack) : i < stop.frame}

\* The loaded frames answer the operation.
LookDone ==
    \/ doing.op = "select" /\ IsLoaded(doing.goal, stop.stack)
    \/ doing.op = "caller" /\ Callers # {}
    \/ doing.op \in Looks /\ stop.stack.complete

Choose(i) == stop' = [stop EXCEPT !.frame = i, !.chosen = TRUE]

\* The frame asked for, or none when the complete stack does not have it.
FinishLook ==
    /\ LookDone
    /\ doing' = Idle
    /\ IF doing.op = "select" /\ IsLoaded(doing.goal, stop.stack)
       THEN Choose(doing.goal)
       ELSE IF doing.op = "caller" /\ Callers # {}
       THEN \E i \in Callers : IsFirst(i, Callers) /\ Choose(i)
       ELSE UNCHANGED stop
    /\ UNCHANGED <<phase, execution, stopNumber, points, nextId, results,
                   installed, refused>>

\* Mutant: a selection is made as soon as there is a frame for it.
ReselectsAlways == stop.frame = NoFrame

\* update_stack: a panic without a project frame stays without a selection.
Reselects == stop.frame = NoFrame /\ ~stop.panic

LoadMore(s) ==
    /\ doing.op \in Looks /\ ~LookDone
    /\ Extends(stop.stack, s)
    /\ \E i \in Loaded(s) \cup {NoFrame} :
          /\ IF Reselects
             THEN IsDefault(i, s) ELSE i = stop.frame
          /\ stop' = [stop EXCEPT !.stack = s, !.frame = i]
    /\ UNCHANGED <<phase, execution, stopNumber, points, nextId, results, doing,
                   installed, refused>>

LookFails ==
    /\ doing.op \in Looks /\ ~LookDone
    /\ BackendFails

\* select_visible_callee_frame needs no more frames.
SelectCallee ==
    /\ AtPrompt /\ Stopped /\ stop.frame # NoFrame
    /\ \E i \in Callees : IsLast(i, Callees) /\ Choose(i)
    /\ UNCHANGED <<phase, execution, stopNumber, points, nextId, results, doing,
                   installed, refused>>

\* find_variable, local_variables
Read ==
    /\ AtPrompt /\ Stopped /\ stop.frame # NoFrame
    /\ doing' = Doing("read")
    /\ UNCHANGED <<phase, execution, stopNumber, stop, points, nextId, results,
                   installed, refused>>

ReadDone ==
    /\ doing.op = "read"
    /\ \/ /\ doing' = Idle
          /\ UNCHANGED <<phase, execution, stopNumber, stop, points, nextId,
                         results, installed, refused>>
       \/ BackendFails

-----------------------------------------------------------------------------
(* Breakpoints.                                                             *)

Manageable == AtPrompt /\ phase \in {"Ready", "Stopped"}

\* Outside a stop the configuration is only kept for the next launch; at a stop
\* it is `shown` while the backend is asked for `want`, and `before` comes back
\* if the backend refuses.
Reconfigure(want, shown, before, adds) ==
    /\ IF Stopped
       THEN /\ points' = shown
            /\ doing' = [op |-> "sync", goal |-> 0, panic |-> FALSE,
                         stack |-> NoStack, want |-> want, before |-> before,
                         adds |-> adds]
       ELSE points' = want /\ UNCHANGED doing
    /\ UNCHANGED <<phase, execution, stopNumber, stop, results, installed,
                   refused>>

\* Mutant: the ID of the last breakpoint is free again once it is deleted.
FreeId == IF points = {} THEN 1 ELSE 1 + CHOOSE i \in Ids(points) : IsLast(i, Ids(points))

\* Source and function breakpoints take their IDs from one counter.
FreshId == nextId

\* add_source_breakpoint, add_function_breakpoint: kept even if refused.
Add ==
    /\ Manageable /\ nextId <= MaxPoints
    /\ nextId' = nextId + 1
    /\ \E kind \in {"source", "function"}, c \in Conditions :
          LET p == [id |-> FreshId, kind |-> kind, enabled |-> TRUE,
                    condition |-> c]
          IN  Reconfigure(points \cup {p}, points \cup {p}, points \cup {p}, {p})

Replace(p, q) == (points \ {p}) \cup {q}

\* Mutant: a refused enabling is not taken back.
EnableForGood(p) ==
    LET want == Replace(p, [p EXCEPT !.enabled = TRUE]) IN
    /\ Manageable /\ ~p.enabled
    /\ Reconfigure(want, want, want, {})
    /\ UNCHANGED nextId

\* manage_breakpoint: nothing to do if the flag has its value already.
Enable(p) ==
    LET want == Replace(p, [p EXCEPT !.enabled = TRUE]) IN
    /\ Manageable /\ ~p.enabled
    /\ Reconfigure(want, want, points, {})
    /\ UNCHANGED nextId

Disable(p) ==
    /\ Manageable /\ p.enabled
    /\ Reconfigure(Replace(p, [p EXCEPT !.enabled = FALSE]), points, points, {})
    /\ UNCHANGED nextId

Delete(p) ==
    /\ Manageable
    /\ Reconfigure(points \ {p}, points, points, {})
    /\ UNCHANGED nextId

\* set_condition
SetCondition(p) ==
    /\ Manageable
    /\ \E c \in Conditions :
          Reconfigure(Replace(p, [p EXCEPT !.condition = c]), points, points, {})
    /\ UNCHANGED nextId

\* synchronize_breakpoints returned one valid snapshot per enabled breakpoint:
\* only now is the configuration committed.
SyncConfirmed ==
    /\ doing.op = "sync"
    /\ points' = doing.want
    /\ installed' = Enabled(doing.want)
    /\ refused' = {}
    /\ results' = results \cup Ids(Enabled(doing.want))
    /\ doing' = Idle
    /\ UNCHANGED <<phase, execution, stopNumber, stop, nextId>>

\* A refusal changed nothing in the backend.
SyncRejected ==
    /\ doing.op = "sync"
    /\ points' = doing.before
    /\ refused' = refused \cup Ids(doing.adds)
    /\ doing' = Idle
    /\ UNCHANGED <<phase, execution, stopNumber, stop, nextId, results,
                   installed>>

\* Any other result is unknown or partial: the execution is abandoned and the
\* configuration kept for the next one.
SyncUncertain == doing.op = "sync" /\ BackendMisbehaves

-----------------------------------------------------------------------------
\* disconnect and close, whatever the backend says.
Quit ==
    /\ AtPrompt /\ phase # "Exited"
    /\ Leave("Exited")
    /\ UNCHANGED <<execution, stopNumber, points, nextId, results, installed,
                   refused>>

BackendAnswers ==
    \/ SettleFails \/ AcceptStopped
    \/ \E s \in StacksUpTo(MaxFrames) :
          SettleInitially(s) \/ SettleFurther(s) \/ LoadMore(s)
    \/ FinishLook \/ LookFails \/ ReadDone
    \/ SyncConfirmed \/ SyncRejected \/ SyncUncertain

UserActs ==
    \/ Run \/ Resume \/ Look \/ SelectCallee \/ Read \/ Add
    \/ \E p \in points : Enable(p) \/ Disable(p) \/ Delete(p) \/ SetCondition(p)
    \/ Quit

ProgramRuns == OutcomeStopped \/ OutcomeExited \/ OutcomeFails

Next == (UserActs \/ ProgramRuns \/ BackendAnswers) /\ UNCHANGED project

Spec == Init /\ [][Next]_vars

\* The backend answers; the program need not stop and the user need not act.
FairSpec == Spec /\ WF_vars(BackendAnswers /\ UNCHANGED project)

-----------------------------------------------------------------------------
(* Properties.                                                               *)

\* Types; a selected frame is a loaded frame of the stop (select_frame's guards
\* and the windows it loads), so the frame shown can always be looked up.
TypeOK ==
    /\ project \in BOOLEAN
    /\ phase \in Phases
    /\ execution \in Nat /\ stopNumber \in Nat /\ nextId \in Nat
    /\ stop \in StableStops
    /\ stop.frame \in Loaded(stop.stack) \cup {NoFrame}
    /\ points \subseteq Points /\ installed \subseteq Points
    /\ results \subseteq Nat /\ refused \subseteq Nat
    /\ doing \in Operations

\* Whatever failed, the prompt comes back to a session that is not "Running",
\* in which no command but quitting is allowed; and there is a stable stop
\* exactly in "Stopped" (every guard of session.mbt tests one for the other).
PromptIsUsable ==
    /\ AtPrompt => phase # "Running"
    /\ Stopped <=> stop # NoStop
    /\ Stopped => stop.epoch = <<execution, stopNumber>>

\* A frame the user did not choose stays the one the whole loaded stack
\* dictates, however many windows were loaded since it was selected: the nearest
\* visible frame, for a panic the nearest project frame or none
\* (update_stack's comment, state.mbt:180-181).
SelectionIsDictated ==
    Stopped /\ ~stop.chosen => SelectsFrom(stop.frame, stop.stack, stop.panic)

\* The desired breakpoints the backend does not refuse to add.
Live(ps) == {p \in Enabled(ps) : p.id \notin refused}

\* At the prompt of a stopped program the backend has exactly the enabled
\* breakpoints, but for additions it refused: no success, refusal or lost answer
\* leaves the list the user sees and the program's breakpoints apart.
AgreesWithBackend == Stopped /\ AtPrompt => installed = Live(points)

\* `breakpoints` shows an enabled breakpoint with a result of this stop as a
\* current installation: it is one, also after refusals and deletions.
ListedIsInstalled ==
    Stopped /\ AtPrompt =>
        \A p \in Enabled(points) : p.id \in results => p \in installed

Later(e, f) == e[1] > f[1] \/ (e[1] = f[1] /\ e[2] > f[2])

\* Every stop gets an epoch later than that of every stop before it, over
\* resumes, failures and new executions, so nothing read at one stop can be
\* taken for another's.
StopEpochsAdvance ==
    [][/\ ~Stopped /\ Stopped' => Later(stop'.epoch, <<execution, stopNumber>>)
       /\ \/ <<execution, stopNumber>>' = <<execution, stopNumber>>
          \/ Later(<<execution, stopNumber>>', <<execution, stopNumber>>)]_vars

\* Settling a stop, looking for a frame, reading and synchronizing end: every
\* loop over stack windows makes progress or fails.
OperationsFinish ==
    doing.op \in Looks \cup {"arrive", "settle", "read", "sync"} ~> AtPrompt

=============================================================================
