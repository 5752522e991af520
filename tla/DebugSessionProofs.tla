------------------------- MODULE DebugSessionProofs -------------------------
(***************************************************************************)
(* Theorems about DebugSession for every number of breakpoints, launches,   *)
(* stops and frames.  IInv is inductive; the properties of the model follow *)
(* from it.                                                                 *)
(***************************************************************************)
EXTENDS DebugSession, SequenceTheorems, TLAPS

\* Which phase an operation in progress belongs to.
OperationMatchesPhase ==
    /\ phase = "Running" <=> doing.op \in {"launch", "resume", "arrive", "settle"}
    /\ doing.op \in Looks \cup {"read", "sync"} => Stopped

\* A stable stop exists exactly at a stop and carries the current epoch, which is
\* never that of NoStop.
StopMatchesPhase ==
    /\ ~Stopped => stop = NoStop
    /\ Stopped => stop.epoch = <<execution, stopNumber>> /\ stopNumber # 0

\* A panic whose stack is not complete was settled by a project frame, or there
\* is no project to look for: more windows cannot bring the first one.
PanicIsSettled ==
    Stopped /\ stop.panic /\ ~stop.stack.complete /\ project =>
        ProjectFrames(stop.stack) # {}

\* Every ID in use was handed out.
IdsHandedOut ==
    /\ \A p \in points : p.id < nextId
    /\ \A i \in results : i < nextId
    /\ doing.op = "sync" => \A p \in doing.want \cup doing.before : p.id < nextId

\* A refused breakpoint has no result, nor has one that may still be refused.
RefusedHaveNoResult ==
    /\ results \cap refused = {}
    /\ doing.op = "sync" => results \cap Ids(doing.adds) = {}

\* While an execution is under way the backend has the live breakpoints; during a
\* synchronization, those of the configuration that comes back when it is
\* refused, without the one being added.
BackendHasLive ==
    /\ (phase = "Running" /\ doing.op # "launch") \/ (Stopped /\ doing.op # "sync") =>
          installed = Live(points)
    /\ doing.op = "sync" =>
          installed = {p \in Live(doing.before) : p.id \notin Ids(doing.adds)}

IInv ==
    /\ TypeOK
    /\ OperationMatchesPhase
    /\ StopMatchesPhase
    /\ PanicIsSettled
    /\ SelectionIsDictated
    /\ IdsHandedOut
    /\ RefusedHaveNoResult
    /\ BackendHasLive

-----------------------------------------------------------------------------
(* Stacks.                                                                   *)

\* What the backend may answer is a stack.
LEMMA AnswersAreStacks ==
    ASSUME NEW n \in Nat, NEW s \in StacksUpTo(n)
    PROVE  s \in Stacks
<1>1. PICK k \in 0 .. n : s.frames \in [1 .. k -> FrameKinds]
  BY DEF StacksUpTo
<1>2. s.frames \in Seq(FrameKinds)
  BY <1>1, IsASeq
<1> QED
  BY <1>2 DEF StacksUpTo, Stacks

\* The loaded frames are numbered from one, so NoFrame is none of them.
LEMMA LoadedRange ==
    ASSUME NEW s \in Stacks
    PROVE  /\ Loaded(s) = 1 .. Len(s.frames)
           /\ Len(s.frames) \in Nat
           /\ NoFrame \notin Loaded(s)
           /\ Loaded(s) \subseteq Nat
<1>1. s.frames \in Seq(FrameKinds)
  BY DEF Stacks
<1> QED
  BY <1>1, LenProperties DEF Loaded, NoFrame

LEMMA NoStackIsStack == NoStack \in Stacks
<1>1. <<>> \in Seq(FrameKinds)
  BY EmptySeq
<1> QED
  BY <1>1 DEF NoStack, Stacks

\* An extension keeps the loaded frames, their kinds and their order.
LEMMA ExtensionKeepsFrames ==
    ASSUME NEW s \in Stacks, NEW t \in Stacks, Extends(s, t)
    PROVE  /\ Loaded(s) \subseteq Loaded(t)
           /\ \A i \in Loaded(t) : \A j \in Loaded(s) : i <= j => i \in Loaded(s)
           /\ Visible(s) = Visible(t) \cap Loaded(s)
           /\ ProjectFrames(s) = ProjectFrames(t) \cap Loaded(s)
<1>1. Loaded(s) = 1 .. Len(s.frames) /\ Loaded(t) = 1 .. Len(t.frames)
  BY LoadedRange
<1>2. Len(s.frames) \in Nat /\ Len(t.frames) \in Nat
  BY LoadedRange
<1>3. Loaded(s) \subseteq Loaded(t)
  BY <1>1, <1>2 DEF Extends
<1>4. \A i \in Loaded(t) : \A j \in Loaded(s) : i <= j => i \in Loaded(s)
  BY <1>1, <1>2
<1>5. \A i \in Loaded(s) : t.frames[i] = s.frames[i]
  BY DEF Extends
<1> QED
  BY <1>3, <1>4, <1>5 DEF Visible, ProjectFrames

\* The nearest frame of a kind stays the nearest when more frames are loaded.
LEMMA FirstStaysFirst ==
    ASSUME NEW s \in Stacks, NEW t \in Stacks, Extends(s, t),
           NEW S, NEW T, T \subseteq Loaded(t), S = T \cap Loaded(s),
           NEW i, IsFirst(i, S)
    PROVE  T # {} /\ IsFirst(i, T)
<1>1. i \in Loaded(s) /\ i \in T
  BY DEF IsFirst
<1>2. ASSUME NEW j \in T PROVE i <= j
  <2>1. CASE j \in Loaded(s)
    BY <2>1 DEF IsFirst
  <2>2. CASE j \notin Loaded(s)
    <3>1. Loaded(s) = 1 .. Len(s.frames) /\ Loaded(t) = 1 .. Len(t.frames)
      BY LoadedRange
    <3>2. Len(s.frames) \in Nat /\ Len(t.frames) \in Nat
      BY LoadedRange
    <3> QED
      BY <1>1, <2>2, <3>1, <3>2
  <2> QED
    BY <2>1, <2>2
<1> QED
  BY <1>1, <1>2 DEF IsFirst

-----------------------------------------------------------------------------
(* Typing.                                                                   *)

\* Starting an operation.
LEMMA DoingTyped ==
    ASSUME NEW op \in Ops
    PROVE  Doing(op) \in Operations /\ Doing(op).op = op
BY NoStackIsStack DEF Doing, Operations

LEMMA IdleTyped == Idle \in Operations
BY DoingTyped DEF Idle, Ops

LEMMA NoStopTyped == NoStop \in StableStops /\ NoStop.frame = NoFrame
BY NoStackIsStack DEF NoStop, StableStops, NoFrame

\* Init satisfies the type invariant.
LEMMA InitTyped == Init => TypeOK
BY IdleTyped, NoStopTyped DEF Init, TypeOK, Phases

\* What the transitions without a stop leave is typed.
LEMMA LeaveTyped ==
    ASSUME TypeOK, NEW next \in Phases, Leave(next),
           UNCHANGED <<project, execution, stopNumber, points, nextId, results,
                       installed, refused>>
    PROVE  TypeOK'
BY IdleTyped, NoStopTyped DEF TypeOK, Leave

LEMMA FailureTyped ==
    ASSUME TypeOK, UNCHANGED project, BackendFails
    PROVE  TypeOK'
<1>1. PICK next \in {"Ready", "Failed"} : Leave(next)
  BY DEF BackendFails
<1> QED
  BY <1>1, LeaveTyped DEF BackendFails, Phases

\* A command that sends a configuration, or keeps it for the next launch.
LEMMA ReconfigureTyped ==
    ASSUME TypeOK, NEW want \in SUBSET Points, NEW shown \in SUBSET Points,
           NEW before \in SUBSET Points, NEW adds \in SUBSET Points,
           Reconfigure(want, shown, before, adds), nextId' \in Nat,
           UNCHANGED project
    PROVE  TypeOK'
<1>1. points' \in SUBSET Points
  BY DEF Reconfigure
<1>2. doing' \in Operations
  <2>1. CASE Stopped
    <3>1. doing' = [op |-> "sync", goal |-> 0, panic |-> FALSE, stack |-> NoStack,
                    want |-> want, before |-> before, adds |-> adds]
      BY <2>1 DEF Reconfigure
    <3>2. "sync" \in Ops
      BY DEF Ops
    <3> QED
      BY <3>1, <3>2, NoStackIsStack DEF Operations
  <2>2. CASE ~Stopped
    BY <2>2 DEF Reconfigure, TypeOK
  <2> QED
    BY <2>1, <2>2
<1> QED
  BY <1>1, <1>2 DEF TypeOK, Reconfigure

\* A change of the stop's selection or stack that keeps the frame loaded.
LEMMA StopTyped ==
    ASSUME TypeOK, NEW s \in Stacks, NEW i \in Loaded(s) \cup {NoFrame},
           NEW b \in BOOLEAN,
           stop' = [epoch |-> stop.epoch, panic |-> stop.panic, stack |-> s,
                    frame |-> i, chosen |-> b],
           doing' = doing \/ doing' = Idle,
           UNCHANGED <<project, phase, execution, stopNumber, points, nextId,
                       results, installed, refused>>
    PROVE  TypeOK'
<1>1. i \in Nat
  BY LoadedRange DEF NoFrame
<1>2. /\ stop' \in StableStops
      /\ stop'.frame \in Loaded(stop'.stack) \cup {NoFrame}
  BY <1>1 DEF TypeOK, StableStops
<1>3. doing' \in Operations
  BY IdleTyped DEF TypeOK
<1> QED
  BY <1>2, <1>3 DEF TypeOK

\* Choosing a loaded frame.
LEMMA ChoiceTyped ==
    ASSUME TypeOK, NEW i \in Loaded(stop.stack), Choose(i),
           doing' = doing \/ doing' = Idle,
           UNCHANGED <<project, phase, execution, stopNumber, points, nextId,
                       results, installed, refused>>
    PROVE  TypeOK'
<1>1. stop.stack \in Stacks
  BY DEF TypeOK, StableStops
<1>2. stop' = [epoch |-> stop.epoch, panic |-> stop.panic, stack |-> stop.stack,
               frame |-> i, chosen |-> TRUE]
  BY DEF Choose, TypeOK, StableStops
<1> QED
  BY <1>1, <1>2, StopTyped

\* Every step of the user, the program and the backend keeps the types.
LEMMA UserStepTyped ==
    ASSUME TypeOK, UNCHANGED project, UserActs
    PROVE  TypeOK'
<1> USE DEF Phases, Ops, Looks
<1>1. CASE Run
  BY <1>1, NoStopTyped, DoingTyped DEF Run, TypeOK
<1>2. CASE Resume
  BY <1>2, NoStopTyped, DoingTyped DEF Resume, TypeOK
<1>3. CASE Look
  <2>1. ASSUME NEW i \in 1 .. MaxFrames + 1
        PROVE  [Doing("select") EXCEPT !.goal = i] \in Operations
    BY DoingTyped, SessionAssumption DEF Operations
  <2>2. doing' \in Operations
    BY <1>3, <2>1, DoingTyped DEF Look
  <2> QED
    BY <1>3, <2>2 DEF Look, TypeOK
<1>4. CASE SelectCallee
  <2>1. PICK i \in Callees : Choose(i)
    BY <1>4 DEF SelectCallee
  <2>2. i \in Loaded(stop.stack)
    BY DEF Callees, Visible
  <2> QED
    BY <1>4, <2>1, <2>2, ChoiceTyped DEF SelectCallee
<1>5. CASE Read
  BY <1>5, DoingTyped DEF Read, TypeOK
<1>6. CASE Add
  <2>1. PICK kind \in {"source", "function"}, c \in Conditions :
           LET p == [id |-> FreshId, kind |-> kind, enabled |-> TRUE,
                     condition |-> c]
           IN  Reconfigure(points \cup {p}, points \cup {p}, points \cup {p}, {p})
    BY <1>6 DEF Add
  <2> DEFINE p == [id |-> FreshId, kind |-> kind, enabled |-> TRUE, condition |-> c]
  <2>2. p \in Points
    BY DEF FreshId, TypeOK, Points
  <2>3. points \cup {p} \in SUBSET Points /\ {p} \in SUBSET Points
    BY <2>2 DEF TypeOK
  <2>4. nextId' \in Nat
    BY <1>6 DEF Add, TypeOK
  <2> QED
    BY <2>1, <2>3, <2>4, ReconfigureTyped
<1>7. ASSUME NEW p \in points, Enable(p) \/ Disable(p) \/ Delete(p) \/ SetCondition(p)
      PROVE  TypeOK'
  <2>1. p \in Points /\ points \in SUBSET Points /\ nextId' \in Nat
    BY <1>7 DEF TypeOK, Enable, Disable, Delete, SetCondition
  <2>2. \A q \in Points : Replace(p, q) \in SUBSET Points
    BY <2>1 DEF Replace
  <2>3. CASE Enable(p)
    <3>1. [p EXCEPT !.enabled = TRUE] \in Points
      BY <2>1 DEF Points
    <3> QED
      BY <2>1, <2>2, <2>3, <3>1, ReconfigureTyped DEF Enable
  <2>4. CASE Disable(p)
    <3>1. [p EXCEPT !.enabled = FALSE] \in Points
      BY <2>1 DEF Points
    <3> QED
      BY <2>1, <2>2, <2>4, <3>1, ReconfigureTyped DEF Disable
  <2>5. CASE Delete(p)
    BY <2>1, <2>5, ReconfigureTyped DEF Delete
  <2>6. CASE SetCondition(p)
    <3>1. \A c \in Conditions : [p EXCEPT !.condition = c] \in Points
      BY <2>1 DEF Points
    <3>2. PICK c \in Conditions :
             Reconfigure(Replace(p, [p EXCEPT !.condition = c]), points, points, {})
      BY <2>6 DEF SetCondition
    <3> QED
      BY <2>1, <2>2, <3>1, <3>2, ReconfigureTyped
  <2> QED
    BY <1>7, <2>3, <2>4, <2>5, <2>6
<1>8. CASE Quit
  BY <1>8, LeaveTyped DEF Quit
<1> QED
  BY <1>1, <1>2, <1>3, <1>4, <1>5, <1>6, <1>7, <1>8 DEF UserActs

LEMMA ProgramStepTyped ==
    ASSUME TypeOK, UNCHANGED project, ProgramRuns
    PROVE  TypeOK'
<1>1. CASE OutcomeFails
  BY <1>1, FailureTyped DEF OutcomeFails
<1>2. Installation => installed' \in SUBSET Points /\ refused' \in SUBSET Nat
  BY DEF Installation, TypeOK, Enabled
<1>3. CASE OutcomeStopped
  <2>1. Doing("arrive") \in Operations
    BY DoingTyped DEF Ops
  <2>2. \A panic \in BOOLEAN : [Doing("arrive") EXCEPT !.panic = panic] \in Operations
    BY <2>1 DEF Operations
  <2> QED
    BY <1>2, <1>3, <2>2 DEF OutcomeStopped, TypeOK
<1>4. CASE OutcomeExited
  BY <1>2, <1>4, IdleTyped, NoStopTyped DEF OutcomeExited, Leave, TypeOK, Phases
<1> QED
  BY <1>1, <1>3, <1>4 DEF ProgramRuns

LEMMA BackendStepTyped ==
    ASSUME TypeOK, UNCHANGED project, BackendAnswers
    PROVE  TypeOK'
<1> USE DEF Ops, Looks
<1>1. CASE SettleFails
  BY <1>1, FailureTyped DEF SettleFails
<1>2. CASE AcceptStopped
  <2>1. PICK i \in Loaded(doing.stack) \cup {NoFrame} :
           stop' = [epoch |-> <<execution, stopNumber + 1>>, panic |-> doing.panic,
                    stack |-> doing.stack, frame |-> i, chosen |-> FALSE]
    BY <1>2 DEF AcceptStopped
  <2>2. doing.stack \in Stacks /\ doing.panic \in BOOLEAN
    BY DEF TypeOK, Operations
  <2>3. i \in Nat
    BY <2>2, LoadedRange DEF NoFrame
  <2>4. stop' \in StableStops /\ stop'.frame \in Loaded(stop'.stack) \cup {NoFrame}
    BY <2>1, <2>2, <2>3 DEF StableStops, TypeOK
  <2> QED
    BY <1>2, <2>4, IdleTyped DEF AcceptStopped, TypeOK, Phases
<1>3. ASSUME NEW s \in StacksUpTo(MaxFrames),
             SettleInitially(s) \/ SettleFurther(s) \/ LoadMore(s)
      PROVE  TypeOK'
  <2>1. s \in Stacks
    BY AnswersAreStacks, SessionAssumption
  <2>2. CASE SettleInitially(s)
    <3>1. [doing EXCEPT !.op = "settle", !.stack = s] \in Operations
      BY <2>1 DEF TypeOK, Operations
    <3> QED
      BY <2>2, <3>1 DEF SettleInitially, TypeOK
  <2>3. CASE SettleFurther(s)
    <3>1. [doing EXCEPT !.stack = s] \in Operations
      BY <2>1 DEF TypeOK, Operations
    <3> QED
      BY <2>3, <3>1 DEF SettleFurther, TypeOK
  <2>4. CASE LoadMore(s)
    <3>1. PICK i \in Loaded(s) \cup {NoFrame} :
             stop' = [stop EXCEPT !.stack = s, !.frame = i]
      BY <2>4 DEF LoadMore
    <3>2. stop' = [epoch |-> stop.epoch, panic |-> stop.panic, stack |-> s,
                   frame |-> i, chosen |-> stop.chosen]
      BY <3>1 DEF TypeOK, StableStops
    <3>3. stop.chosen \in BOOLEAN
      BY DEF TypeOK, StableStops
    <3> QED
      BY <2>1, <2>4, <3>2, <3>3, StopTyped DEF LoadMore
  <2> QED
    BY <1>3, <2>2, <2>3, <2>4
<1>4. CASE FinishLook
  <2>1. CASE UNCHANGED stop
    BY <1>4, <2>1, IdleTyped DEF FinishLook, TypeOK
  <2>2. CASE ~UNCHANGED stop
    <3>1. PICK i \in Loaded(stop.stack) : Choose(i)
      BY <1>4, <2>2 DEF FinishLook, IsLoaded, Callers, Visible
    <3> QED
      BY <1>4, <3>1, ChoiceTyped DEF FinishLook
  <2> QED
    BY <2>1, <2>2
<1>5. CASE LookFails
  BY <1>5, FailureTyped DEF LookFails
<1>6. CASE ReadDone
  <2>1. CASE BackendFails
    BY <2>1, FailureTyped
  <2>2. CASE ~BackendFails
    BY <1>6, <2>2, IdleTyped DEF ReadDone, TypeOK
  <2> QED
    BY <2>1, <2>2
<1>7. CASE SyncConfirmed
  <2>1. doing.want \in SUBSET Points
    BY DEF TypeOK, Operations
  <2>2. Enabled(doing.want) \in SUBSET Points /\ Ids(Enabled(doing.want)) \in SUBSET Nat
    BY <2>1 DEF Enabled, Ids, Points
  <2> QED
    BY <1>7, <2>1, <2>2, IdleTyped DEF SyncConfirmed, TypeOK
<1>8. CASE SyncRejected
  <2>1. doing.before \in SUBSET Points /\ Ids(doing.adds) \in SUBSET Nat
    BY DEF TypeOK, Operations, Ids, Points
  <2> QED
    BY <1>8, <2>1, IdleTyped DEF SyncRejected, TypeOK
<1>9. CASE SyncUncertain
  BY <1>9, LeaveTyped DEF SyncUncertain, BackendMisbehaves, Phases
<1> QED
  BY <1>1, <1>2, <1>3, <1>4, <1>5, <1>6, <1>7, <1>8, <1>9 DEF BackendAnswers

\* Every step keeps the types.
LEMMA TypesInductive ==
    ASSUME TypeOK, [Next]_vars
    PROVE  TypeOK'
<1>1. CASE UNCHANGED vars
  BY <1>1 DEF vars, TypeOK
<1>2. CASE Next
  BY <1>2, UserStepTyped, ProgramStepTyped, BackendStepTyped DEF Next
<1> QED
  BY <1>1, <1>2

\* The session's state is well-typed in every behaviour, and the frame shown at a
\* stop is one of its loaded frames (select_frame, update_stack, accept_stopped).
THEOREM TypeCorrect == Spec => []TypeOK
BY InitTyped, TypesInductive, PTL DEF Spec

-----------------------------------------------------------------------------
(* The phase, the stable stop and the operation in progress.                 *)

\* Ending a stop or an operation outside "Running" and "Stopped".
LEMMA LeaveMatches ==
    ASSUME NEW next \in {"Ready", "Failed", "Exited"}, Leave(next)
    PROVE  OperationMatchesPhase' /\ StopMatchesPhase'
BY DEF Leave, Idle, Doing, OperationMatchesPhase, StopMatchesPhase, Stopped, Looks

LEMMA FailureMatches ==
    ASSUME BackendFails
    PROVE  OperationMatchesPhase' /\ StopMatchesPhase'
BY LeaveMatches DEF BackendFails

\* A step at a stop that changes neither the phase nor the epoch.
LEMMA LookingMatches ==
    ASSUME StopMatchesPhase, Stopped,
           UNCHANGED <<phase, execution, stopNumber>>, stop'.epoch = stop.epoch,
           doing'.op \in Looks \cup {"idle", "read", "sync"}
    PROVE  OperationMatchesPhase' /\ StopMatchesPhase'
BY DEF OperationMatchesPhase, StopMatchesPhase, Stopped, Looks

\* A breakpoint command, at a stop or before a launch.
LEMMA ReconfigureMatches ==
    ASSUME NEW want, NEW shown, NEW before, NEW adds,
           OperationMatchesPhase, StopMatchesPhase,
           Reconfigure(want, shown, before, adds)
    PROVE  OperationMatchesPhase' /\ StopMatchesPhase'
<1>1. CASE Stopped
  <2>1. doing'.op = "sync"
    BY <1>1 DEF Reconfigure
  <2> QED
    BY <1>1, <2>1, LookingMatches DEF Reconfigure
<1>2. CASE ~Stopped
  BY <1>2 DEF Reconfigure, OperationMatchesPhase, StopMatchesPhase, Stopped
<1> QED
  BY <1>1, <1>2

\* Every operation runs in its phase, and a stop lives exactly as long as
\* "Stopped".
LEMMA PhasesInductive ==
    ASSUME TypeOK, OperationMatchesPhase, StopMatchesPhase, [Next]_vars
    PROVE  OperationMatchesPhase' /\ StopMatchesPhase'
<1> USE DEF Looks
<1>a. \A op \in Ops : Doing(op).op = op
  BY DoingTyped
<1>b. Idle.op = "idle"
  BY DEF Idle, Doing
<1>c. \A i : [Doing("select") EXCEPT !.goal = i].op = "select"
  BY DEF Doing
<1>d. \A panic : [Doing("arrive") EXCEPT !.panic = panic].op = "arrive"
  BY DEF Doing
<1>e. doing \in Operations /\ stop \in StableStops
  BY DEF TypeOK
<1>1. CASE UNCHANGED vars
  BY <1>1 DEF vars, OperationMatchesPhase, StopMatchesPhase, Stopped
<1>2. CASE Run
  BY <1>2, <1>a DEF Run, OperationMatchesPhase, StopMatchesPhase, Stopped, Ops
<1>3. CASE Resume
  BY <1>3, <1>a DEF Resume, OperationMatchesPhase, StopMatchesPhase, Stopped, Ops
<1>4. CASE Look
  <2>1. doing'.op \in Looks
    BY <1>4, <1>a, <1>c DEF Look, Ops
  <2> QED
    BY <1>4, <2>1, LookingMatches DEF Look
<1>5. CASE SelectCallee
  <2>1. stop'.epoch = stop.epoch
    BY <1>5, <1>e DEF SelectCallee, Choose, StableStops
  <2> QED
    BY <1>5, <1>b, <2>1, LookingMatches DEF SelectCallee, AtPrompt
<1>6. CASE Read
  BY <1>6, <1>a, LookingMatches DEF Read, Ops
<1>7. CASE Add
  BY <1>7, ReconfigureMatches DEF Add
<1>8. ASSUME NEW p \in points, Enable(p) \/ Disable(p) \/ Delete(p) \/ SetCondition(p)
      PROVE  OperationMatchesPhase' /\ StopMatchesPhase'
  BY <1>8, ReconfigureMatches DEF Enable, Disable, Delete, SetCondition
<1>9. CASE Quit
  BY <1>9, LeaveMatches DEF Quit
<1>10. CASE OutcomeStopped
  BY <1>10, <1>d DEF OutcomeStopped, OperationMatchesPhase, StopMatchesPhase, Stopped
<1>11. CASE OutcomeExited
  BY <1>11, LeaveMatches DEF OutcomeExited
<1>12. CASE OutcomeFails \/ SettleFails \/ LookFails
  BY <1>12, FailureMatches DEF OutcomeFails, SettleFails, LookFails
<1>13. CASE AcceptStopped
  <2>1. stop'.epoch = <<execution, stopNumber + 1>>
    BY <1>13 DEF AcceptStopped
  <2>2. stopNumber + 1 # 0
    BY DEF TypeOK
  <2> QED
    BY <1>13, <1>b, <2>1, <2>2
       DEF AcceptStopped, OperationMatchesPhase, StopMatchesPhase, Stopped
<1>14. ASSUME NEW s, SettleInitially(s) \/ SettleFurther(s)
       PROVE  OperationMatchesPhase' /\ StopMatchesPhase'
  <2>1. doing'.op = "settle"
    BY <1>14, <1>e DEF SettleInitially, SettleFurther, Operations
  <2> QED
    BY <1>14, <2>1 DEF SettleInitially, SettleFurther, OperationMatchesPhase,
                       StopMatchesPhase, Stopped
<1>15. ASSUME NEW s, LoadMore(s)
       PROVE  OperationMatchesPhase' /\ StopMatchesPhase'
  <2>1. stop'.epoch = stop.epoch
    BY <1>15, <1>e DEF LoadMore, StableStops
  <2> QED
    BY <1>15, <2>1, LookingMatches DEF LoadMore, OperationMatchesPhase
<1>16. CASE FinishLook
  <2>1. doing.op \in Looks
    BY <1>16 DEF FinishLook, LookDone
  <2>2. stop'.epoch = stop.epoch
    BY <1>16, <1>e DEF FinishLook, Choose, StableStops
  <2> QED
    BY <1>16, <1>b, <2>1, <2>2, LookingMatches DEF FinishLook, OperationMatchesPhase
<1>17. CASE ReadDone
  <2>1. CASE BackendFails
    BY <2>1, FailureMatches
  <2>2. CASE ~BackendFails
    BY <1>17, <1>b, <2>2, LookingMatches DEF ReadDone, OperationMatchesPhase
  <2> QED
    BY <2>1, <2>2
<1>18. CASE SyncConfirmed \/ SyncRejected
  BY <1>18, <1>b, LookingMatches DEF SyncConfirmed, SyncRejected, OperationMatchesPhase
<1>19. CASE SyncUncertain
  BY <1>19, LeaveMatches DEF SyncUncertain, BackendMisbehaves
<1> QED
  BY <1>1, <1>2, <1>3, <1>4, <1>5, <1>6, <1>7, <1>8, <1>9, <1>10, <1>11, <1>12,
     <1>13, <1>14, <1>15, <1>16, <1>17, <1>18, <1>19
     DEF Next, UserActs, ProgramRuns, BackendAnswers

-----------------------------------------------------------------------------
(* The frame selection.                                                      *)

\* What a step may do to the stable stop.
LEMMA StopSteps ==
    ASSUME [Next]_vars
    PROVE  /\ project' = project
           /\ \/ ~Stopped'
              \/ UNCHANGED <<phase, stop>>
              \/ AcceptStopped
              \/ \E s \in StacksUpTo(MaxFrames) : LoadMore(s)
              \/ UNCHANGED phase /\ \E i : Choose(i)
<1> USE DEF Stopped
<1>1. CASE UNCHANGED vars
  BY <1>1 DEF vars
<1>2. CASE UserActs /\ UNCHANGED project
  <2>1. \A want, shown, before, adds :
           Reconfigure(want, shown, before, adds) => UNCHANGED <<phase, stop>>
    BY DEF Reconfigure
  <2>2. ASSUME NEW p \in points, Enable(p) \/ Disable(p) \/ Delete(p) \/ SetCondition(p)
        PROVE  UNCHANGED <<phase, stop>>
    BY <2>1, <2>2 DEF Enable, Disable, Delete, SetCondition
  <2>3. Add => UNCHANGED <<phase, stop>>
    BY <2>1 DEF Add
  <2> QED
    BY <1>2, <2>2, <2>3
       DEF UserActs, Run, Resume, Look, SelectCallee, Read, Quit, Leave
<1>3. BackendFails => ~Stopped'
  BY DEF BackendFails, Leave
<1>4. CASE ProgramRuns /\ UNCHANGED project
  BY <1>3, <1>4 DEF ProgramRuns, OutcomeStopped, OutcomeExited, OutcomeFails, Leave
<1>5. CASE BackendAnswers /\ UNCHANGED project
  <2>1. FinishLook => UNCHANGED phase /\ (UNCHANGED stop \/ \E i : Choose(i))
    BY DEF FinishLook
  <2>2. ASSUME NEW s \in StacksUpTo(MaxFrames), SettleInitially(s) \/ SettleFurther(s)
        PROVE  UNCHANGED <<phase, stop>>
    BY <2>2 DEF SettleInitially, SettleFurther
  <2>3. SyncConfirmed \/ SyncRejected => UNCHANGED <<phase, stop>>
    BY DEF SyncConfirmed, SyncRejected
  <2>4. SyncUncertain => ~Stopped'
    BY DEF SyncUncertain, BackendMisbehaves, Leave
  <2>5. ReadDone => UNCHANGED <<phase, stop>> \/ ~Stopped'
    BY <1>3 DEF ReadDone
  <2>6. SettleFails \/ LookFails => ~Stopped'
    BY <1>3 DEF SettleFails, LookFails
  <2> QED
    BY <1>5, <2>1, <2>2, <2>3, <2>4, <2>5, <2>6 DEF BackendAnswers
<1> QED
  BY <1>1, <1>2, <1>4, <1>5 DEF Next

\* A frame dictated by a stack stays dictated when more of the stack is known,
\* unless none was selected and one may now be.
LEMMA ExtensionKeepsSelection ==
    ASSUME NEW s \in Stacks, NEW t \in Stacks, Extends(s, t), ~s.complete,
           NEW panic \in BOOLEAN, NEW i, SelectsFrom(i, s, panic),
           i # NoFrame \/ (panic /\ (project => ProjectFrames(s) # {}))
    PROVE  SelectsFrom(i, t, panic)
<1>1. /\ Visible(s) = Visible(t) \cap Loaded(s)
      /\ ProjectFrames(s) = ProjectFrames(t) \cap Loaded(s)
  BY ExtensionKeepsFrames
<1>2. Visible(t) \subseteq Loaded(t) /\ ProjectFrames(t) \subseteq Loaded(t)
  BY DEF Visible, ProjectFrames
<1>3. CASE ~panic
  <2>1. Visible(s) # {} /\ IsFirst(i, Visible(s))
    BY <1>3 DEF SelectsFrom, IsDefault
  <2>2. Visible(t) # {} /\ IsFirst(i, Visible(t))
    BY <1>1, <1>2, <2>1, FirstStaysFirst
  <2> QED
    BY <1>3, <2>2 DEF SelectsFrom, IsDefault
<1>4. CASE panic /\ ProjectFrames(s) # {}
  <2>1. IsFirst(i, ProjectFrames(s))
    BY <1>4 DEF SelectsFrom, IsPanicFrame
  <2>2. ProjectFrames(t) # {} /\ IsFirst(i, ProjectFrames(t))
    BY <1>1, <1>2, <2>1, FirstStaysFirst
  <2> QED
    BY <1>4, <2>2 DEF SelectsFrom, IsPanicFrame
<1>5. CASE panic /\ ProjectFrames(s) = {}
  <2>1. i = NoFrame
    BY <1>5 DEF SelectsFrom, IsPanicFrame
  <2>2. ProjectFrames(t) = {}
    BY <1>5, <2>1 DEF ProjectFrames
  <2> QED
    BY <1>5, <2>1, <2>2 DEF SelectsFrom, IsPanicFrame
<1> QED
  BY <1>3, <1>4, <1>5

\* Loading frames at a stop.
LEMMA LoadingKeepsSelection ==
    ASSUME TypeOK, OperationMatchesPhase, PanicIsSettled, SelectionIsDictated,
           NEW s \in StacksUpTo(MaxFrames), LoadMore(s), project' = project
    PROVE  PanicIsSettled' /\ SelectionIsDictated'
<1>1. s \in Stacks /\ stop.stack \in Stacks /\ stop.panic \in BOOLEAN
  BY AnswersAreStacks, SessionAssumption DEF TypeOK, StableStops
<1>2. Extends(stop.stack, s) /\ ~stop.stack.complete /\ Stopped
  BY DEF LoadMore, LookDone, OperationMatchesPhase
<1>3. PICK i \in Loaded(s) \cup {NoFrame} :
         /\ IF Reselects THEN IsDefault(i, s) ELSE i = stop.frame
         /\ stop' = [stop EXCEPT !.stack = s, !.frame = i]
  BY DEF LoadMore
<1>4. /\ stop'.stack = s /\ stop'.frame = i
      /\ stop'.panic = stop.panic /\ stop'.chosen = stop.chosen
  BY <1>3 DEF TypeOK, StableStops
<1>5. phase' = phase
  BY DEF LoadMore
<1>6. PanicIsSettled'
  <2>1. ProjectFrames(stop.stack) # {} => ProjectFrames(s) # {}
    BY <1>1, <1>2, ExtensionKeepsFrames
  <2> QED
    BY <1>2, <1>4, <1>5, <2>1 DEF PanicIsSettled, Stopped, ProjectFrames, Loaded
<1>7. SelectionIsDictated'
  <2>1. CASE stop.chosen
    BY <1>4, <2>1 DEF SelectionIsDictated
  <2>2. CASE ~stop.chosen
    <3>1. SelectsFrom(i, s, stop.panic)
      <4>1. CASE Reselects
        BY <1>3, <4>1 DEF Reselects, SelectsFrom
      <4>2. CASE ~Reselects
        <5>1. i = stop.frame
          BY <1>3, <4>2
        <5>2. SelectsFrom(i, stop.stack, stop.panic)
          BY <1>2, <2>2, <5>1 DEF SelectionIsDictated
        <5>3. i # NoFrame \/ (stop.panic /\ (project => ProjectFrames(stop.stack) # {}))
          BY <1>2, <4>2, <5>1 DEF Reselects, PanicIsSettled
        <5> QED
          BY <1>1, <1>2, <5>2, <5>3, ExtensionKeepsSelection
      <4> QED
        BY <4>1, <4>2
    <3> QED
      BY <1>4, <3>1 DEF SelectionIsDictated, SelectsFrom, IsPanicFrame, IsDefault,
                        ProjectFrames, Visible, Loaded, IsFirst, NoFrame
  <2> QED
    BY <2>1, <2>2
<1> QED
  BY <1>6, <1>7

\* A new stop is shown with the frame its settled stack dictates.
LEMMA AcceptingSelects ==
    ASSUME TypeOK, AcceptStopped, project' = project
    PROVE  PanicIsSettled' /\ SelectionIsDictated'
<1>1. PICK i \in Loaded(doing.stack) \cup {NoFrame} :
         /\ SelectsFrom(i, doing.stack, doing.panic)
         /\ stop' = [epoch |-> <<execution, stopNumber + 1>>, panic |-> doing.panic,
                     stack |-> doing.stack, frame |-> i, chosen |-> FALSE]
  BY DEF AcceptStopped
<1>2. SettledBy(doing.stack, doing.panic)
  BY DEF AcceptStopped
<1>3. PanicIsSettled'
  BY <1>1, <1>2 DEF PanicIsSettled, SettledBy, ProjectFrames, Loaded
<1>4. SelectionIsDictated'
  BY <1>1 DEF SelectionIsDictated, SelectsFrom, IsPanicFrame, IsDefault,
              ProjectFrames, Visible, Loaded, IsFirst, NoFrame
<1> QED
  BY <1>3, <1>4

\* A frame nobody chose is the one the loaded stack dictates.
LEMMA SelectionInductive ==
    ASSUME TypeOK, OperationMatchesPhase, PanicIsSettled, SelectionIsDictated,
           [Next]_vars
    PROVE  PanicIsSettled' /\ SelectionIsDictated'
<1> USE StopSteps
<1>1. CASE ~Stopped'
  BY <1>1 DEF PanicIsSettled, SelectionIsDictated
<1>2. CASE UNCHANGED <<phase, stop>>
  BY <1>2 DEF PanicIsSettled, SelectionIsDictated, Stopped, SelectsFrom,
              IsPanicFrame, IsDefault, ProjectFrames, Visible, Loaded, IsFirst, NoFrame
<1>3. CASE AcceptStopped
  BY <1>3, AcceptingSelects
<1>4. CASE \E s \in StacksUpTo(MaxFrames) : LoadMore(s)
  BY <1>4, LoadingKeepsSelection
<1>5. CASE UNCHANGED phase /\ \E i : Choose(i)
  <2>1. stop'.stack = stop.stack /\ stop'.panic = stop.panic /\ stop'.chosen
    BY <1>5 DEF Choose, TypeOK, StableStops
  <2> QED
    BY <1>5, <2>1 DEF PanicIsSettled, SelectionIsDictated, Stopped, ProjectFrames,
                      Loaded
<1> QED
  BY <1>1, <1>2, <1>3, <1>4, <1>5

-----------------------------------------------------------------------------
(* Breakpoints.                                                              *)

BreakpointInv == IdsHandedOut /\ RefusedHaveNoResult /\ BackendHasLive

\* With the execution gone there is nothing to agree with.
LEMMA LeavingKeepsBreakpoints ==
    ASSUME BreakpointInv, NEW next \in {"Ready", "Failed", "Exited"}, Leave(next),
           UNCHANGED <<points, nextId, results, refused>>
    PROVE  BreakpointInv'
BY DEF BreakpointInv, IdsHandedOut, RefusedHaveNoResult, BackendHasLive, Leave,
       Idle, Doing, Stopped

\* Steps of one execution that leave breakpoints alone.
LEMMA OthersKeepBreakpoints ==
    ASSUME BreakpointInv, doing.op \notin {"sync", "launch"},
           doing'.op \notin {"sync", "launch"},
           phase \in {"Running", "Stopped"}, phase' \in {"Running", "Stopped"},
           results' \subseteq results,
           UNCHANGED <<points, nextId, installed, refused>>
    PROVE  BreakpointInv'
BY DEF BreakpointInv, IdsHandedOut, RefusedHaveNoResult, BackendHasLive, Live,
       Enabled, Stopped

\* A command: before a launch the configuration is kept, at a stop it is sent.
LEMMA ReconfigureKeepsBreakpoints ==
    ASSUME TypeOK, BreakpointInv, doing = Idle, phase \in {"Ready", "Stopped"},
           NEW want, NEW shown, NEW before, NEW adds,
           Reconfigure(want, shown, before, adds),
           nextId' \in Nat, nextId <= nextId',
           \A p \in want \cup shown \cup before : p.id < nextId',
           \A i \in Ids(adds) : i = nextId,
           {p \in Live(before) : p.id \notin Ids(adds)} = Live(points)
    PROVE  BreakpointInv'
<1>1. IdsHandedOut /\ RefusedHaveNoResult /\ BackendHasLive
  BY DEF BreakpointInv
<1>2. nextId \in Nat /\ results \subseteq Nat
  BY DEF TypeOK
<1>3. \A i \in results : i < nextId /\ i < nextId'
  BY <1>1, <1>2 DEF IdsHandedOut
<1>4. CASE Stopped
  <2>1. /\ doing'.op = "sync" /\ doing'.want = want /\ doing'.before = before
        /\ doing'.adds = adds /\ points' = shown
    BY <1>4 DEF Reconfigure
  <2>2. UNCHANGED <<phase, results, installed, refused>>
    BY DEF Reconfigure
  <2>3. installed = Live(points)
    BY <1>1, <1>4 DEF BackendHasLive, Idle, Doing
  <2>4. IdsHandedOut'
    BY <1>3, <2>1, <2>2 DEF IdsHandedOut
  <2>5. RefusedHaveNoResult'
    <3>1. Ids(adds)' = Ids(adds)
      BY DEF Ids
    <3>2. results \cap Ids(adds) = {}
      BY <1>2, <1>3
    <3> QED
      BY <1>1, <2>1, <2>2, <3>2 DEF RefusedHaveNoResult, Ids
  <2>6. BackendHasLive'
    BY <1>4, <2>1, <2>2, <2>3 DEF BackendHasLive, Stopped, Live, Enabled, Ids
  <2> QED
    BY <2>4, <2>5, <2>6 DEF BreakpointInv
<1>5. CASE ~Stopped
  <2>1. points' = want /\ UNCHANGED <<doing, phase, results, installed, refused>>
    BY <1>5 DEF Reconfigure
  <2>2. phase = "Ready" /\ doing.op = "idle"
    BY <1>5 DEF Stopped, Idle, Doing
  <2> QED
    BY <1>1, <1>3, <2>1, <2>2 DEF BreakpointInv, IdsHandedOut, RefusedHaveNoResult,
                                  BackendHasLive, Stopped
<1> QED
  BY <1>4, <1>5

\* Adding a breakpoint: its ID is new.
LEMMA AddingKeepsBreakpoints ==
    ASSUME TypeOK, BreakpointInv, Add
    PROVE  BreakpointInv'
<1>1. PICK kind \in {"source", "function"}, c \in Conditions :
         LET p == [id |-> FreshId, kind |-> kind, enabled |-> TRUE, condition |-> c]
         IN  Reconfigure(points \cup {p}, points \cup {p}, points \cup {p}, {p})
  BY DEF Add
<1> DEFINE p == [id |-> FreshId, kind |-> kind, enabled |-> TRUE, condition |-> c]
<1>2. p.id = nextId
  BY DEF FreshId
<1>3. nextId \in Nat /\ nextId' = nextId + 1 /\ \A q \in points : q.id < nextId
  BY DEF TypeOK, Add, BreakpointInv, IdsHandedOut
<1>4. \A q \in points : q.id \in Nat
  BY DEF TypeOK, Points
<1>5. \A q \in points \cup {p} : q.id < nextId'
  BY <1>2, <1>3, <1>4
<1>6. Ids({p}) = {nextId}
  BY <1>2 DEF Ids
<1>7. {q \in Live(points \cup {p}) : q.id \notin Ids({p})} = Live(points)
  BY <1>2, <1>3, <1>4, <1>6 DEF Live, Enabled
<1>8. Reconfigure(points \cup {p}, points \cup {p}, points \cup {p}, {p})
  BY <1>1
<1>9. doing = Idle /\ phase \in {"Ready", "Stopped"}
  BY DEF Add, Manageable, AtPrompt
<1>10. nextId' \in Nat /\ nextId <= nextId'
  BY <1>3
<1> HIDE DEF p
<1> QED
  BY <1>5, <1>6, <1>7, <1>8, <1>9, <1>10, ReconfigureKeepsBreakpoints

\* The other commands change breakpoints that have an ID.
LEMMA ManagingKeepsBreakpoints ==
    ASSUME TypeOK, BreakpointInv, NEW p \in points,
           Enable(p) \/ Disable(p) \/ Delete(p) \/ SetCondition(p)
    PROVE  BreakpointInv'
<1>1. nextId \in Nat /\ nextId' = nextId /\ \A q \in points : q.id < nextId
  BY DEF TypeOK, BreakpointInv, IdsHandedOut, Enable, Disable, Delete, SetCondition
<1>2. doing = Idle /\ phase \in {"Ready", "Stopped"}
  BY DEF Enable, Disable, Delete, SetCondition, Manageable, AtPrompt
<1>3. p \in Points
  BY DEF TypeOK
<1>4. \A q : q.id = p.id => \A r \in Replace(p, q) : r.id < nextId
  BY <1>1 DEF Replace
<1>5. {q \in Live(points) : q.id \notin Ids({})} = Live(points)
  BY DEF Ids
<1>6. \A i \in Ids({}) : i = nextId
  BY DEF Ids
<1>7. ASSUME NEW want, NEW shown, Reconfigure(want, shown, points, {}),
             \A q \in want \cup shown : q.id < nextId
      PROVE  BreakpointInv'
  BY <1>1, <1>2, <1>5, <1>6, <1>7, ReconfigureKeepsBreakpoints
<1>8. CASE Enable(p)
  <2>1. [p EXCEPT !.enabled = TRUE].id = p.id
    BY <1>3 DEF Points
  <2> QED
    BY <1>4, <1>7, <1>8, <2>1 DEF Enable
<1>9. CASE Disable(p)
  <2>1. [p EXCEPT !.enabled = FALSE].id = p.id
    BY <1>3 DEF Points
  <2> QED
    BY <1>1, <1>4, <1>7, <1>9, <2>1 DEF Disable
<1>10. CASE Delete(p)
  BY <1>1, <1>7, <1>10 DEF Delete
<1>11. CASE SetCondition(p)
  <2>1. \A c : [p EXCEPT !.condition = c].id = p.id
    BY <1>3 DEF Points
  <2> QED
    BY <1>1, <1>4, <1>7, <1>11, <2>1 DEF SetCondition
<1> QED
  BY <1>8, <1>9, <1>10, <1>11

\* What the backend answers to a configuration.
LEMMA SyncKeepsBreakpoints ==
    ASSUME TypeOK, OperationMatchesPhase, BreakpointInv,
           SyncConfirmed \/ SyncRejected \/ SyncUncertain
    PROVE  BreakpointInv'
<1>1. doing.op = "sync" /\ IdsHandedOut /\ RefusedHaveNoResult /\ BackendHasLive
  BY DEF SyncConfirmed, SyncRejected, SyncUncertain, BreakpointInv
<1>2. Idle.op = "idle"
  BY DEF Idle, Doing
<1>3. CASE SyncConfirmed
  <2>1. Enabled(doing.want) = {p \in Enabled(doing.want) : p.id \notin {}}
    OBVIOUS
  <2>2. BackendHasLive'
    BY <1>2, <1>3, <2>1 DEF SyncConfirmed, BackendHasLive, Live, Enabled
  <2>3. \A i \in Ids(Enabled(doing.want)) : i < nextId
    BY <1>1 DEF Ids, Enabled, IdsHandedOut
  <2>4. IdsHandedOut'
    BY <1>1, <1>2, <1>3, <2>3 DEF SyncConfirmed, IdsHandedOut
  <2>5. RefusedHaveNoResult'
    BY <1>2, <1>3 DEF SyncConfirmed, RefusedHaveNoResult
  <2> QED
    BY <2>2, <2>4, <2>5 DEF BreakpointInv
<1>4. CASE SyncRejected
  <2>1. Live(points)' = {p \in Live(doing.before) : p.id \notin Ids(doing.adds)}
    BY <1>4 DEF SyncRejected, Live, Enabled
  <2>2. BackendHasLive'
    BY <1>1, <1>2, <1>4, <2>1 DEF SyncRejected, BackendHasLive
  <2>3. IdsHandedOut'
    BY <1>1, <1>2, <1>4 DEF SyncRejected, IdsHandedOut
  <2>4. RefusedHaveNoResult'
    BY <1>1, <1>2, <1>4 DEF SyncRejected, RefusedHaveNoResult
  <2> QED
    BY <2>2, <2>3, <2>4 DEF BreakpointInv
<1>5. CASE SyncUncertain
  BY <1>5, LeavingKeepsBreakpoints DEF SyncUncertain, BackendMisbehaves
<1> QED
  BY <1>3, <1>4, <1>5

\* IDs are never reused, and the backend has the live breakpoints.
LEMMA BreakpointsInductive ==
    ASSUME TypeOK, OperationMatchesPhase, BreakpointInv, [Next]_vars
    PROVE  BreakpointInv'
<1>a. \A op \in Ops : Doing(op).op = op
  BY DoingTyped
<1>b. Idle.op = "idle"
  BY DEF Idle, Doing
<1>c. \A i : [Doing("select") EXCEPT !.goal = i].op = "select"
  BY DEF Doing
<1>d. \A panic : [Doing("arrive") EXCEPT !.panic = panic].op = "arrive"
  BY DEF Doing
<1>e. doing \in Operations
  BY DEF TypeOK
<1>f. BackendFails => BreakpointInv'
  BY LeavingKeepsBreakpoints DEF BackendFails
<1>g. doing.op \in Looks \cup {"read", "sync"} => Stopped
  BY DEF OperationMatchesPhase
<1> USE DEF Looks, Stopped
<1>1. CASE UNCHANGED vars
  BY <1>1 DEF vars, BreakpointInv, IdsHandedOut, RefusedHaveNoResult,
              BackendHasLive, Live, Enabled, Ids
<1>2. CASE Run
  <2>1. doing'.op = "launch" /\ phase' = "Running" /\ results' = {}
    BY <1>2, <1>a DEF Run, Ops
  <2> QED
    BY <1>2, <2>1 DEF Run, BreakpointInv, IdsHandedOut, RefusedHaveNoResult,
                      BackendHasLive
<1>3. CASE Resume
  BY <1>3, <1>a, <1>b, OthersKeepBreakpoints DEF Resume, AtPrompt, Ops
<1>4. CASE Look
  <2>1. doing'.op \in Looks
    BY <1>4, <1>a, <1>c DEF Look, Ops
  <2> QED
    BY <1>4, <1>b, <2>1, OthersKeepBreakpoints DEF Look, AtPrompt
<1>5. CASE SelectCallee
  BY <1>5, <1>b, OthersKeepBreakpoints DEF SelectCallee, AtPrompt
<1>6. CASE Read
  BY <1>6, <1>a, <1>b, OthersKeepBreakpoints DEF Read, AtPrompt, Ops
<1>7. CASE Quit
  BY <1>7, LeavingKeepsBreakpoints DEF Quit
<1>8. CASE OutcomeStopped
  <2>1. doing'.op = "arrive" /\ phase' = "Running"
    BY <1>8, <1>d DEF OutcomeStopped, OperationMatchesPhase
  <2>2. CASE doing.op = "launch"
    <3>1. installed' = Enabled(points) /\ refused' = {}
      BY <1>8, <2>2 DEF OutcomeStopped, Installation
    <3>2. UNCHANGED <<points, nextId, results>>
      BY <1>8 DEF OutcomeStopped
    <3> QED
      BY <2>1, <3>1, <3>2 DEF BreakpointInv, IdsHandedOut, RefusedHaveNoResult,
                              BackendHasLive, Live, Enabled
  <2>3. CASE doing.op = "resume"
    BY <1>8, <2>1, <2>3, OthersKeepBreakpoints DEF OutcomeStopped, Installation
  <2> QED
    BY <1>8, <2>2, <2>3 DEF OutcomeStopped
<1>9. CASE OutcomeExited
  <2>1. refused' \subseteq refused
    BY <1>9 DEF OutcomeExited, Installation
  <2>2. phase' = "Ready" /\ doing'.op = "idle"
    BY <1>9, <1>b DEF OutcomeExited, Leave
  <2> QED
    BY <1>9, <2>1, <2>2 DEF OutcomeExited, BreakpointInv, IdsHandedOut,
                            RefusedHaveNoResult, BackendHasLive
<1>10. CASE OutcomeFails \/ SettleFails \/ LookFails
  BY <1>10, <1>f DEF OutcomeFails, SettleFails, LookFails
<1>11. CASE AcceptStopped
  BY <1>11, <1>b, OthersKeepBreakpoints DEF AcceptStopped, OperationMatchesPhase
<1>12. ASSUME NEW s, SettleInitially(s) \/ SettleFurther(s)
       PROVE  BreakpointInv'
  <2>1. doing'.op = "settle"
    BY <1>12, <1>e DEF SettleInitially, SettleFurther, Operations
  <2> QED
    BY <1>12, <2>1, OthersKeepBreakpoints
       DEF SettleInitially, SettleFurther, OperationMatchesPhase
<1>13. ASSUME NEW s, LoadMore(s)
       PROVE  BreakpointInv'
  BY <1>13, <1>g, OthersKeepBreakpoints DEF LoadMore
<1>14. CASE FinishLook
  <2>1. doing.op \in Looks
    BY <1>14 DEF FinishLook, LookDone
  <2> QED
    BY <1>14, <1>b, <1>g, <2>1, OthersKeepBreakpoints DEF FinishLook
<1>15. CASE ReadDone
  <2>1. CASE ~BackendFails
    BY <1>15, <1>b, <1>g, <2>1, OthersKeepBreakpoints DEF ReadDone
  <2> QED
    BY <1>f, <2>1
<1> QED
  BY <1>1, <1>2, <1>3, <1>4, <1>5, <1>6, <1>7, <1>8, <1>9, <1>10, <1>11, <1>12,
     <1>13, <1>14, <1>15, AddingKeepsBreakpoints, ManagingKeepsBreakpoints,
     SyncKeepsBreakpoints
     DEF Next, UserActs, ProgramRuns, BackendAnswers

-----------------------------------------------------------------------------
(* The invariant and what follows from it.                                   *)

LEMMA Inductive == IInv /\ [Next]_vars => IInv'
<1>1. ASSUME IInv, [Next]_vars
      PROVE  IInv'
  <2> USE DEF IInv
  <2>1. TypeOK'
    BY <1>1, TypesInductive
  <2>2. OperationMatchesPhase' /\ StopMatchesPhase'
    BY <1>1, PhasesInductive
  <2>3. PanicIsSettled' /\ SelectionIsDictated'
    BY <1>1, SelectionInductive
  <2>4. BreakpointInv'
    BY <1>1, BreakpointsInductive DEF BreakpointInv
  <2> QED
    BY <2>1, <2>2, <2>3, <2>4 DEF BreakpointInv
<1> QED
  BY <1>1

LEMMA Initial == Init => IInv
<1>1. Init => TypeOK
  BY InitTyped
<1>2. Init => OperationMatchesPhase /\ StopMatchesPhase
  BY DEF Init, OperationMatchesPhase, StopMatchesPhase, Stopped, Idle, Doing, Looks
<1>3. Init => PanicIsSettled /\ SelectionIsDictated
  BY DEF Init, PanicIsSettled, SelectionIsDictated, Stopped
<1>4. Init => IdsHandedOut /\ RefusedHaveNoResult /\ BackendHasLive
  BY DEF Init, IdsHandedOut, RefusedHaveNoResult, BackendHasLive, Stopped, Idle, Doing
<1> QED
  BY <1>1, <1>2, <1>3, <1>4 DEF IInv

\* IInv holds throughout.
THEOREM Invariant == Spec => []IInv
BY Initial, Inductive, PTL DEF Spec

\* The prompt always comes back to a session that can be used, with a stable stop
\* exactly in "Stopped" (DebugApplicationState and backend_failed).
THEOREM PromptAlwaysUsable == Spec => []PromptIsUsable
<1>1. IInv => PromptIsUsable
  <2> SUFFICES ASSUME IInv PROVE PromptIsUsable
    OBVIOUS
  <2>1. AtPrompt => phase # "Running"
    BY DEF IInv, OperationMatchesPhase, AtPrompt, Idle, Doing
  <2>2. Stopped => stop # NoStop
    <3>1. NoStop.epoch = <<0, 0>>
      BY DEF NoStop
    <3> QED
      BY <3>1 DEF IInv, StopMatchesPhase
  <2> QED
    BY <2>1, <2>2 DEF IInv, StopMatchesPhase, PromptIsUsable
<1> QED
  BY <1>1, Invariant, PTL

\* For stacks of any depth, loaded in any windows, the selection nobody chose is
\* the one the loaded stack dictates (accept_outcome, update_stack).
THEOREM SelectionAlwaysDictated == Spec => []SelectionIsDictated
<1>1. IInv => SelectionIsDictated
  BY DEF IInv
<1> QED
  BY <1>1, Invariant, PTL

\* For any number of breakpoints and any sequence of successes, refusals and lost
\* answers, the list and the backend agree (synchronize_breakpoints and its callers).
THEOREM AlwaysAgreesWithBackend == Spec => []AgreesWithBackend
<1>1. IInv => AgreesWithBackend
  BY DEF IInv, BackendHasLive, AgreesWithBackend, AtPrompt, Idle, Doing
<1> QED
  BY <1>1, Invariant, PTL

\* A breakpoint listed as a current installation is installed (breakpoints).
THEOREM ListedAlwaysInstalled == Spec => []ListedIsInstalled
<1>1. IInv => ListedIsInstalled
  <2> SUFFICES ASSUME IInv, Stopped, AtPrompt,
                      NEW p \in Enabled(points), p.id \in results
               PROVE  p \in installed
    BY DEF ListedIsInstalled
  <2>1. installed = Live(points)
    BY DEF IInv, BackendHasLive, AtPrompt, Idle, Doing
  <2>2. p.id \notin refused
    BY DEF IInv, RefusedHaveNoResult
  <2> QED
    BY <2>1, <2>2 DEF Live
<1> QED
  BY <1>1, Invariant, PTL

\* Stop epochs only grow, so none is ever used twice (begin_execution,
\* accept_stopped).
THEOREM StopEpochsAlwaysAdvance == Spec => StopEpochsAdvance
<1> DEFINE Advance ==
      /\ ~Stopped /\ Stopped' => Later(stop'.epoch, <<execution, stopNumber>>)
      /\ \/ <<execution, stopNumber>>' = <<execution, stopNumber>>
         \/ Later(<<execution, stopNumber>>', <<execution, stopNumber>>)
<1>1. ASSUME IInv, [Next]_vars
      PROVE  [Advance]_vars
  <2>0. execution \in Nat /\ stopNumber \in Nat
    BY <1>1 DEF IInv, TypeOK
  <2>1. CASE UNCHANGED vars
    BY <2>1
  <2>2. CASE AcceptStopped
    <3>1. /\ stop'.epoch = <<execution, stopNumber + 1>>
          /\ execution' = execution /\ stopNumber' = stopNumber + 1
      BY <2>2 DEF AcceptStopped
    <3> QED
      BY <2>0, <3>1 DEF Later
  <2>3. CASE Run
    <3>1. execution' = execution + 1 /\ ~Stopped'
      BY <2>3 DEF Run, Stopped
    <3> QED
      BY <2>0, <3>1 DEF Later
  <2>4. CASE Next /\ ~AcceptStopped /\ ~Run
    <3>1. UNCHANGED <<execution, stopNumber>>
      BY <2>4 DEF Next, UserActs, ProgramRuns, BackendAnswers, Resume, Look,
                  SelectCallee, Read, Add, Enable, Disable, Delete, SetCondition,
                  Reconfigure, Quit, OutcomeStopped, OutcomeExited, OutcomeFails,
                  BackendFails, BackendMisbehaves, SettleFails, SettleInitially,
                  SettleFurther, LoadMore, FinishLook, LookFails, ReadDone,
                  SyncConfirmed, SyncRejected, SyncUncertain
    <3>2. ~(~Stopped /\ Stopped')
      BY <1>1, <2>4, StopSteps DEF LoadMore, Stopped
    <3> QED
      BY <3>1, <3>2
  <2> QED
    BY <1>1, <2>1, <2>2, <2>3, <2>4
<1> QED
  BY <1>1, Invariant, PTL DEF StopEpochsAdvance, Spec

=============================================================================
