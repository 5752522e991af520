---------------------- MODULE ConnectionSessionProofs ----------------------
(***************************************************************************)
(* What a build leaves behind, for any inbox, any output and any number of *)
(* frames: nothing when a disconnect is answered, and no message that      *)
(* LiveSession would find; and what becomes of the editor's frames: all     *)
(* are passed on in order, and each request is answered once.              *)
(***************************************************************************)
EXTENDS ConnectionSession, FiniteSetTheorems, SequenceTheorems, TLAPS

-----------------------------------------------------------------------------
(* Types.                                                                   *)

LEMMA FrameTypes ==
    /\ Eof \in Frames
    /\ \A n \in Requests, c \in AllCommands : Frame(n, c) \in Frames
    /\ \A f \in Frames : f # Eof => f.seq \in Requests
    /\ \A f \in Frames : f.command # "eof" => f # Eof
BY DEF Frames, Frame, Eof

LEMMA MessageTypes ==
    /\ Output \in Messages
    /\ \A ok \in BOOLEAN : Prepared(ok) \in Messages
    /\ \A f \in Frames : Client(f) \in Messages
BY FrameTypes DEF Messages, Output, Prepared, Client

\* Answers and `terminated` keep the editor's record.
LEMMA AnswerTypes ==
    ASSUME editor \in Editors, NEW S
    PROVE  Answer(S) \in Editors /\ AnswerAndTerminate(S) \in Editors
<1>1. [r \in Requests |-> IF r \in S THEN editor.answers[r] + 1
                          ELSE editor.answers[r]] \in [Requests -> Nat]
    BY DEF Editors
<1>2. Answer(S) \in Editors
    BY <1>1 DEF Answer, Editors
<1>3. AnswerAndTerminate(S) \in Editors
    <2>1. \A e \in Editors : e.terminated \in Nat /\ e.terminated + 1 \in Nat
        BY DEF Editors
    <2>2. \A e \in Editors, n \in Nat : [e EXCEPT !.terminated = n] \in Editors
        BY DEF Editors
    <2> QED BY <1>2, <2>1, <2>2 DEF AnswerAndTerminate
<1> QED BY <1>2, <1>3

LEMMA HeadAndTail ==
    ASSUME NEW T, NEW s \in Seq(T), s # <<>>
    PROVE  /\ Head(s) \in T /\ Tail(s) \in Seq(T) /\ Len(Tail(s)) = Len(s) - 1
           /\ Len(s) > 0
OBVIOUS

LEMMA NewBuildTyped ==
    /\ NoBuild \in Builds
    /\ [NoBuild EXCEPT !.task = "opening", !.left = MaxOutput] \in Builds
<1>1. NoBuild \in Builds
    BY ConnectionAssumption DEF NoBuild, Builds, MoonRuns
<1>2. MaxOutput \in 0 .. MaxOutput
    BY ConnectionAssumption
<1>3. \A b \in Builds : [b EXCEPT !.task = "opening", !.left = MaxOutput] \in Builds
    BY <1>2 DEF Builds
<1> QED BY <1>1, <1>3

LEMMA InitTyped == Init => TypeOK
<1> SUFFICES ASSUME Init PROVE TypeOK
    OBVIOUS
<1>1. build \in Builds
    BY NewBuildTyped DEF Init
<1>2. session \in Sessions
    BY DEF Init, Sessions
<1>3. editor \in Editors
    BY DEF Init, Editors
<1>4. reader \in Readers /\ ((reader.pc = "putting") <=> (Len(reader.held) = 1))
    BY DEF Init, Readers
<1> QED BY <1>1, <1>2, <1>3, <1>4, ConnectionAssumption DEF TypeOK, Init

LEMMA ServeTyped == TypeOK /\ Serve => TypeOK'
<1> SUFFICES ASSUME TypeOK, NEW f \in {Head(fromClient) : i \in DOMAIN fromClient},
                    Serves(f),
                    \/ Initialize(f) \/ TestLaunch(f) \/ ConfigurationDone(f)
                    \/ Launch(f) \/ Disconnect(f) \/ Reply(f) \/ StopServing(f)
             PROVE  TypeOK'
    BY DEF Serve
<1>1. f \in Frames
    BY HeadAndTail DEF Serves, TypeOK
<1>2. /\ fromClient' \in Seq(Frames) /\ taken' \in Seq(Frames)
      /\ passed' \in Seq(Frames) /\ inbox' \in Seq(Messages) /\ Len(inbox') <= Capacity
    BY <1>1, HeadAndTail DEF Serves, TypeOK
<1>3. f.command \notin {"eof", "unreadable", "broken"} => f.seq \in Requests
    BY <1>1, FrameTypes
<1> USE <1>2 DEF TypeOK
<1>4. CASE Initialize(f)
    BY <1>4, AnswerTypes DEF Initialize, KeepServing, Sessions
<1>5. CASE TestLaunch(f)
    BY <1>5, <1>3 DEF TestLaunch, KeepServing, Sessions
<1>6. CASE ConfigurationDone(f)
    BY <1>6, AnswerTypes DEF ConfigurationDone, KeepServing, Sessions
<1>7. CASE Launch(f)
    <2>1. build' \in Builds
        BY <1>7, NewBuildTyped DEF Launch
    <2>2. session' \in Sessions
        BY <1>7, <1>3 DEF Launch, Sessions
    <2> QED BY <1>7, <2>1, <2>2 DEF Launch, Readers
<1>8. CASE Disconnect(f)
    BY <1>8, AnswerTypes DEF Disconnect, Sessions
<1>9. CASE Reply(f)
    BY <1>9, AnswerTypes DEF Reply, KeepServing
<1>10. CASE StopServing(f)
    BY <1>10 DEF StopServing
<1> QED BY <1>4, <1>5, <1>6, <1>7, <1>8, <1>9, <1>10

LEMMA PutTyped ==
    ASSUME TypeOK, NEW m \in Messages, Put(m)
    PROVE  inbox' \in Seq(Messages) /\ Len(inbox') <= Capacity
BY ConnectionAssumption DEF Put, HasRoom, TypeOK

LEMMA ReaderTyped == TypeOK /\ (ReaderReads \/ ReaderPuts) => TypeOK'
<1> SUFFICES ASSUME TypeOK, ReaderReads \/ ReaderPuts PROVE TypeOK'
    OBVIOUS
<1>1. CASE ReaderReads
    <2>1. Head(fromClient) \in Frames /\ fromClient' \in Seq(Frames)
        BY <1>1, HeadAndTail DEF ReaderReads, TypeOK
    <2>2. reader' \in Readers /\ reader'.pc = "putting" /\ Len(reader'.held) = 1
        BY <1>1, <2>1 DEF ReaderReads, Readers
    <2> QED BY <1>1, <2>1, <2>2 DEF ReaderReads, TypeOK
<1>2. CASE ReaderPuts
    <2>1. reader.held \in Seq(Frames) /\ Len(reader.held) = 1
        BY <1>2 DEF ReaderPuts, TypeOK, Readers
    <2>2. Client(reader.held[1]) \in Messages
        BY <2>1, MessageTypes
    <2>3. inbox' \in Seq(Messages) /\ Len(inbox') <= Capacity
        BY <1>2, <2>2, PutTyped DEF ReaderPuts, Deliver
    <2>4. reader' \in Readers /\ reader'.pc # "putting" /\ Len(reader'.held) = 0
        BY <1>2 DEF ReaderPuts, Readers
    <2> QED BY <1>2, <2>3, <2>4 DEF ReaderPuts, TypeOK
<1> QED BY <1>1, <1>2

\* What the steps of a build assign.
LEMMA BuildUpdates ==
    /\ \A b \in Builds, t \in {"opening", "starting", "waiting", "reporting", "done"} :
          [b EXCEPT !.task = t] \in Builds
    /\ \A b \in Builds, p \in {"none", "running", "exited"} :
          [b EXCEPT !.process = p] \in Builds
    /\ \A b \in Builds, o \in BOOLEAN : [b EXCEPT !.ok = o] \in Builds
    /\ \A b \in Builds, o \in {"no", "run", "all"} : [b EXCEPT !.stop = o] \in Builds
    /\ \A b \in Builds, s \in Streams, x \in {"open", "putting", "closed"} :
          [b EXCEPT !.streams[s] = x] \in Builds
BY DEF Builds

LEMMA BuildTyped == TypeOK /\ (BuildStep \/ CancelStep) => TypeOK'
<1> SUFFICES ASSUME TypeOK, BuildStep \/ CancelStep PROVE TypeOK'
    OBVIOUS
<1>1. build \in Builds /\ inbox \in Seq(Messages) /\ Len(inbox) <= Capacity
    BY DEF TypeOK
<1>2. SUFFICES /\ build' \in Builds
               /\ inbox' = inbox \/ \E m \in Messages : Put(m)
      <2>1. inbox' \in Seq(Messages) /\ Len(inbox') <= Capacity
          BY <1>1, <1>2, PutTyped
      <2> QED BY <1>2, <2>1 DEF TypeOK, BuildStep, CancelStep, BuildSteps, OpenPackage, StartMoon,
                 Decide, Read, PutChunk, StreamEnds, Overflow, MoonExits, StreamCancelled,
                 Kill, MoonReturns, Report, BuildCancelled
<1>3. CASE StartMoon
    BY <1>1, <1>3, MessageTypes DEF StartMoon, BuildSteps, Builds
<1>14. CASE OpenPackage
    BY <1>1, <1>14, MessageTypes, BuildUpdates DEF OpenPackage, BuildSteps
<1>4. CASE \E ok \in BOOLEAN : Decide(ok)
    BY <1>1, <1>4, MessageTypes DEF Decide, BuildSteps, Builds
<1>5. CASE \E s \in Streams : Read(s)
    <2>1. PICK s \in Streams : Read(s)
        BY <1>5
    <2>2. [build EXCEPT !.streams[s] = "putting"] \in Builds
        BY <1>1, BuildUpdates
    <2>3. build.left - 1 \in 0 .. MaxOutput
        BY <1>1, <2>1, ConnectionAssumption DEF Read, Builds
    <2>4. \A b \in Builds, n \in 0 .. MaxOutput : [b EXCEPT !.left = n] \in Builds
        BY DEF Builds
    <2>5. build' = [[build EXCEPT !.streams[s] = "putting"]
                       EXCEPT !.left = build.left - 1]
        BY <1>1, <2>1 DEF Read, BuildSteps, Builds
    <2>6. build' \in Builds
        BY <2>2, <2>3, <2>4, <2>5
    <2> QED BY <2>1, <2>6 DEF Read
<1>6. CASE \E s \in Streams : PutChunk(s)
    BY ZenonT(60), <1>1, <1>6, MessageTypes, BuildUpdates DEF PutChunk, BuildSteps
<1>7. CASE \E s \in Streams : StreamEnds(s) \/ StreamCancelled(s)
    BY <1>1, <1>7, BuildUpdates DEF StreamEnds, StreamCancelled, BuildSteps
<1>8. CASE Overflow
    BY <1>1, <1>8 DEF Overflow, BuildSteps, Builds
<1>9. CASE MoonExits
    BY <1>1, <1>9 DEF MoonExits, BuildSteps, Builds
<1>10. CASE Kill
    BY <1>1, <1>10 DEF Kill, BuildSteps, Builds
<1>11. CASE MoonReturns
    <2>1. \A b \in Builds, t \in {"starting", "reporting"}, n \in Nat :
              [b EXCEPT !.task = t, !.moons = n, !.stop = "no", !.process = "none"]
                 \in Builds
        BY DEF Builds
    <2>2. build.moons + 1 \in Nat
        BY <1>1 DEF Builds
    <2> QED BY <1>1, <1>11, <2>1, <2>2 DEF MoonReturns, BuildSteps
<1>12. CASE Report
    BY <1>1, <1>12, MessageTypes DEF Report, BuildSteps, Builds
<1>13. CASE BuildCancelled
    BY <1>1, <1>13, BuildUpdates DEF BuildCancelled, BuildSteps
<1> QED BY <1>3, <1>4, <1>5, <1>6, <1>7, <1>8, <1>9, <1>10, <1>11, <1>12, <1>13,
          <1>14 DEF BuildStep, CancelStep

LEMMA WaitTyped == TypeOK /\ Wait => TypeOK'
<1> SUFFICES ASSUME TypeOK, NEW m \in {Head(inbox) : i \in DOMAIN inbox}, Waits(m),
                    \/ ForwardOutput(m) \/ HandOver(m) \/ PreparationFails(m)
                    \/ EditorGone(m) \/ DisconnectBuild(m) \/ RefuseDuringBuild(m)
             PROVE  TypeOK'
    BY DEF Wait
<1>1. m \in Messages /\ inbox' \in Seq(Messages) /\ Len(inbox') <= Capacity
    BY HeadAndTail, ConnectionAssumption DEF Waits, TypeOK
<1>2. m.frame \in Frames
    BY <1>1 DEF Messages
<1>3. /\ taken' \in Seq(Frames) /\ fromClient' \in Seq(Frames)
      /\ passed' \in Seq(Frames)
      /\ reader' \in Readers /\ ((reader'.pc = "putting") <=> (Len(reader'.held) = 1))
    BY <1>2 DEF Waits, TypeOK
<1>4. CancelBuild => build' \in Builds
    BY BuildUpdates DEF CancelBuild, TypeOK
<1> USE <1>1, <1>3 DEF TypeOK
<1>5. CASE ForwardOutput(m)
    BY <1>5 DEF ForwardOutput
<1>6. CASE HandOver(m)
    BY <1>4, <1>6, AnswerTypes DEF HandOver, LeaveGroup, GivesUp
<1>7. CASE PreparationFails(m)
    BY <1>4, <1>7, AnswerTypes DEF PreparationFails, LeaveGroup, GivesUp
<1>8. CASE EditorGone(m)
    BY <1>4, <1>8 DEF EditorGone, LeaveGroup
<1>9. CASE DisconnectBuild(m)
    <2>1. m.frame.seq \in Requests
        BY <1>2, <1>9, FrameTypes DEF DisconnectBuild
    <2>2. session' \in Sessions
        BY <1>9, <2>1 DEF DisconnectBuild, Sessions
    <2> QED BY <1>4, <1>9, <2>2 DEF DisconnectBuild
<1>10. CASE RefuseDuringBuild(m)
    BY <1>10, AnswerTypes DEF RefuseDuringBuild
<1> QED BY <1>5, <1>6, <1>7, <1>8, <1>9, <1>10

LEMMA EndTyped ==
    TypeOK /\ (ServeTimeout \/ BuildStops \/ Ends \/ LiveTakes \/ LiveEnds) => TypeOK'
<1> SUFFICES ASSUME TypeOK,
                    ServeTimeout \/ BuildStops \/ Ends \/ LiveTakes \/ LiveEnds
             PROVE  TypeOK'
    OBVIOUS
<1>1. CASE ServeTimeout
    BY <1>1 DEF ServeTimeout, TypeOK
<1>2. CASE BuildStops
    BY <1>2, AnswerTypes DEF BuildStops, TypeOK
<1>3. CASE Ends
    BY <1>3 DEF Ends, TypeOK, Readers
<1>4. CASE LiveTakes
    <2>1. Head(inbox) \in Messages /\ inbox' \in Seq(Messages) /\ Len(inbox') <= Capacity
        BY <1>4, HeadAndTail, ConnectionAssumption DEF LiveTakes, TypeOK
    <2>2. Head(inbox).frame \in Frames
        BY <2>1 DEF Messages
    <2>3. passed' \in Seq(Frames)
        <3>1. CASE Head(inbox).type = "client"
            <4>1. passed' = Append(passed, Head(inbox).frame)
                BY <1>4, <3>1 DEF LiveTakes
            <4>2. passed \in Seq(Frames)
                BY DEF TypeOK
            <4> QED BY <2>2, <4>1, <4>2
        <3>2. CASE Head(inbox).type # "client"
            BY <1>4, <3>2 DEF LiveTakes, TypeOK
        <3> QED BY <3>1, <3>2
    <2>4. at' \in {"live", "failed"}
        BY <1>4 DEF LiveTakes
    <2> QED BY <1>4, <2>1, <2>3, <2>4 DEF LiveTakes, TypeOK
<1>5. CASE LiveEnds
    BY <1>5 DEF LiveEnds, TypeOK
<1> QED BY <1>1, <1>2, <1>3, <1>4, <1>5

LEMMA EditorTyped == TypeOK /\ (EditorSends \/ EditorLeaves) => TypeOK'
<1> SUFFICES ASSUME TypeOK, NEW f, EditorWrites(f), f \in Frames PROVE TypeOK'
    <2>1. EditorLeaves => Eof \in Frames /\ EditorWrites(Eof)
        BY FrameTypes DEF EditorLeaves
    <2>2. ASSUME TypeOK, EditorSends
          PROVE  \E f \in Frames : EditorWrites(f)
        <3>1. Len(editor.sent) + 1 \in Requests
            BY <2>2, ConnectionAssumption DEF EditorSends, TypeOK, Editors, Requests
        <3> QED BY <2>2, <3>1, FrameTypes, ConnectionAssumption DEF EditorSends
    <2> QED BY <2>1, <2>2
<1>1. \A e \in Editors, q \in Seq(Frames), l \in BOOLEAN :
          [e EXCEPT !.sent = q, !.left = l] \in Editors
    BY DEF Editors
<1>2. Append(editor.sent, f) \in Seq(Frames)
    BY DEF TypeOK, Editors
<1>3. editor' \in Editors
    BY <1>1, <1>2 DEF EditorWrites, TypeOK
<1> QED BY <1>3 DEF EditorWrites, TypeOK

LEMMA NextTyped == TypeOK /\ [Next]_vars => TypeOK'
<1>1. TypeOK /\ UNCHANGED vars => TypeOK'
    BY DEF TypeOK, vars
<1> QED BY <1>1, ServeTyped, ReaderTyped, BuildTyped, WaitTyped, EndTyped, EditorTyped
        DEF Next

\* Every variable keeps its type and the inbox its capacity, in every execution.
THEOREM TypeCorrect == Spec => []TypeOK
BY InitTyped, NextTyped, PTL DEF Spec

-----------------------------------------------------------------------------
(* The invariant.                                                            *)

\* Processes and streams belong to a run of moon, which the preparation waits
\* for; there is a preparation only between a launch and its outcome.
BuildIsOwned ==
    /\ build.task # "waiting" =>
          /\ build.process # "running"
          /\ \A s \in Streams : build.streams[s] = "closed"
    /\ at \in {"serve", "live", "over"} => build.task = "done"

\* Before a launch nothing is in the inbox, and nobody leaves but by `leaving`.
NothingEarly ==
    /\ at = "serve" => inbox = <<>>
    /\ at \in {"serve", "building", "live"} => session.leaving = None

\* The outcome is the last message of a preparation.
OutcomeIsLast ==
    \A i \in DOMAIN inbox : inbox[i].type = "prepared" =>
        /\ build.task = "done"
        /\ \A j \in DOMAIN inbox : j > i => inbox[j].type = "client"

IInv == TypeOK /\ BuildIsOwned /\ NothingEarly /\ OutcomeIsLast /\ LiveStartsClean

LEMMA InitInv == Init => IInv
<1> SUFFICES ASSUME Init PROVE IInv
    OBVIOUS
<1>1. build = NoBuild
    BY DEF Init
<1> QED BY <1>1, InitTyped DEF Init, NoBuild, IInv, BuildIsOwned, NothingEarly,
           OutcomeIsLast, LiveStartsClean

LEMMA ServeKeeps == IInv /\ Serve => IInv'
<1> SUFFICES ASSUME IInv, NEW f, Serves(f), TypeOK',
                    \/ Initialize(f) \/ TestLaunch(f) \/ ConfigurationDone(f)
                    \/ Launch(f) \/ Disconnect(f) \/ Reply(f) \/ StopServing(f)
             PROVE  IInv'
    BY ServeTyped DEF Serve, IInv
<1>1. /\ at = "serve" /\ inbox = <<>> /\ inbox' = <<>> /\ session.leaving = None
      /\ build.task = "done" /\ build.process # "running"
      /\ \A s \in Streams : build.streams[s] = "closed"
    BY DEF Serves, IInv, BuildIsOwned, NothingEarly
<1>2. session'.leaving = None
    BY <1>1 DEF Initialize, TestLaunch, ConfigurationDone, Launch, Disconnect, Reply,
                StopServing, IInv, TypeOK, Sessions
<1>3. OutcomeIsLast' /\ LiveStartsClean'
    BY <1>1 DEF OutcomeIsLast, LiveStartsClean, Initialize, TestLaunch,
                ConfigurationDone, Launch, Disconnect, Reply, StopServing, KeepServing
<1>4. NothingEarly'
    BY <1>1, <1>2 DEF NothingEarly
<1>5. BuildIsOwned'
    <2>1. CASE Launch(f)
        <3>1. /\ build'.process = "none" /\ at' = "building"
              /\ \A s \in Streams : build'.streams[s] = "closed"
            BY <2>1 DEF Launch, NoBuild
        <3> QED BY <3>1 DEF BuildIsOwned
    <2>2. CASE ~Launch(f)
        BY <1>1, <2>2 DEF BuildIsOwned, Initialize, TestLaunch, ConfigurationDone,
                          Disconnect, Reply, StopServing, KeepServing
    <2> QED BY <2>1, <2>2
<1> QED BY <1>3, <1>4, <1>5 DEF IInv

\* A message put last, where it may be.
LEMMA PutKeeps ==
    ASSUME IInv, NEW m \in Messages, Put(m),
           \/ m.type = "client"
           \/ build.task # "done" /\ (m.type = "prepared" => build'.task = "done"),
           build.task = "done" => build'.task = "done",
           at = "live" => m.type = "client"
    PROVE  /\ OutcomeIsLast'
           /\ at = "live" => \A i \in DOMAIN inbox' : inbox'[i].type = "client"
<1>1. /\ inbox \in Seq(Messages) /\ inbox' = Append(inbox, m)
      /\ Len(inbox') = Len(inbox) + 1
      /\ DOMAIN inbox' = 1 .. Len(inbox) + 1 /\ DOMAIN inbox = 1 .. Len(inbox)
      /\ \A i \in 1 .. Len(inbox) : inbox'[i] = inbox[i]
      /\ inbox'[Len(inbox) + 1] = m /\ Len(inbox) \in Nat
    BY DEF Put, IInv, TypeOK
<1>2. OutcomeIsLast'
    BY <1>1 DEF OutcomeIsLast, IInv
<1>3. at = "live" => \A i \in DOMAIN inbox' : inbox'[i].type = "client"
    BY <1>1 DEF IInv, LiveStartsClean
<1> QED BY <1>2, <1>3

LEMMA ReaderKeeps == IInv /\ (ReaderReads \/ ReaderPuts) => IInv'
<1> SUFFICES ASSUME IInv, ReaderReads \/ ReaderPuts, TypeOK' PROVE IInv'
    BY ReaderTyped DEF IInv
<1>1. CASE ReaderReads
    BY <1>1 DEF ReaderReads, IInv, BuildIsOwned, NothingEarly, OutcomeIsLast,
                LiveStartsClean
<1>2. CASE ReaderPuts
    <2>1. reader.held[1] \in Frames
        BY <1>2 DEF ReaderPuts, IInv, TypeOK, Readers
    <2>2. Client(reader.held[1]) \in Messages /\ Client(reader.held[1]).type = "client"
        BY <2>1, MessageTypes DEF Client
    <2>3. OutcomeIsLast' /\ LiveStartsClean'
        BY <1>2, <2>2, PutKeeps DEF ReaderPuts, Deliver, LiveStartsClean, IInv
    <2>4. BuildIsOwned' /\ NothingEarly'
        BY <1>2 DEF ReaderPuts, Running, IInv, BuildIsOwned, NothingEarly
    <2> QED BY <2>3, <2>4 DEF IInv
<1> QED BY <1>1, <1>2

\* A step of a preparation that is not done: what it leaves running it waits for,
\* and what it puts is output, or the outcome with its last step.
LEMMA BuildEffect ==
    ASSUME IInv, TypeOK', UNCHANGED <<at, session>>, NothingEarly',
           build.task # "done",
           build'.task # "waiting" =>
               /\ build'.process # "running"
               /\ \A s \in Streams : build'.streams[s] = "closed",
           \/ inbox' = inbox
           \/ Put(Output)
           \/ build'.task = "done" /\ \E ok \in BOOLEAN : Put(Prepared(ok))
    PROVE  IInv'
<1>1. at \notin {"serve", "live", "over"}
    BY DEF IInv, BuildIsOwned
<1>2. BuildIsOwned' /\ LiveStartsClean'
    BY <1>1 DEF BuildIsOwned, LiveStartsClean
<1>3. OutcomeIsLast'
    <2>1. CASE inbox' = inbox
        BY <2>1 DEF IInv, OutcomeIsLast
    <2>2. CASE Put(Output)
        BY <1>1, <2>2, MessageTypes, PutKeeps DEF Output
    <2>3. CASE build'.task = "done" /\ \E ok \in BOOLEAN : Put(Prepared(ok))
        BY <1>1, <2>3, MessageTypes, PutKeeps DEF Prepared
    <2> QED BY <2>1, <2>2, <2>3
<1> QED BY <1>2, <1>3 DEF IInv

\* Where a build works: never in serve, and in live its preparation is done.
LEMMA BuildKeeps == IInv /\ (BuildStep \/ CancelStep) => IInv'
<1> SUFFICES ASSUME IInv, BuildStep \/ CancelStep, TypeOK' PROVE IInv'
    BY BuildTyped DEF IInv
<1>1. build \in Builds /\ build' \in Builds /\ UNCHANGED <<at, session>> /\ Running
    BY DEF IInv, TypeOK, BuildStep, CancelStep, BuildSteps, OpenPackage, StartMoon, Decide, Read,
           PutChunk, StreamEnds, Overflow, MoonExits, StreamCancelled, Kill, MoonReturns,
           Report, BuildCancelled
<1>2. NothingEarly'
    BY <1>1 DEF Running, IInv, NothingEarly
<1>3. build.task # "waiting" =>
          /\ build.process # "running"
          /\ \A s \in Streams : build.streams[s] = "closed"
    BY DEF IInv, BuildIsOwned
<1>4. CASE \/ \E s \in Streams : Read(s) \/ PutChunk(s) \/ StreamEnds(s) \/ StreamCancelled(s)
           \/ Overflow \/ MoonExits \/ Kill
    <2>1. build.task = "waiting"
        <3>1. CASE Overflow
            BY <1>3, <3>1 DEF Overflow, Streams
        <3>2. CASE ~Overflow
            BY <1>3, <1>4, <3>2 DEF Read, PutChunk, StreamEnds, StreamCancelled, MoonExits,
                                    Kill, Cancels
        <3> QED BY <3>1, <3>2
    <2>2. build'.task = "waiting"
        BY <1>1, <1>4, <2>1 DEF Read, PutChunk, StreamEnds, StreamCancelled, Overflow,
                                MoonExits, Kill, BuildSteps, Builds
    <2>3. inbox' = inbox \/ Put(Output)
        BY <1>4 DEF Read, PutChunk, StreamEnds, StreamCancelled, Overflow, MoonExits, Kill
    <2> QED BY <1>2, <2>1, <2>2, <2>3, BuildEffect, <1>1
<1>5. CASE StartMoon
    <2>1. build.task = "starting" /\ build'.task = "waiting" /\ Put(Output)
        BY <1>1, <1>5 DEF StartMoon, BuildSteps, Builds
    <2> QED BY <1>1, <1>2, <2>1, BuildEffect
<1>10. CASE OpenPackage
    <2>1. /\ build.task = "opening" /\ build'.task = "starting" /\ Put(Output)
          /\ build'.process = build.process /\ build'.streams = build.streams
        BY <1>1, <1>10 DEF OpenPackage, BuildSteps, Builds
    <2> QED BY <1>1, <1>2, <1>3, <2>1, BuildEffect
<1>6. CASE \E ok \in BOOLEAN : Decide(ok)
    <2>1. /\ build.task \in {"opening", "starting"} /\ build'.task = "reporting"
          /\ inbox' = inbox \/ Put(Output)
          /\ build'.process = build.process /\ build'.streams = build.streams
        BY <1>1, <1>6 DEF Decide, BuildSteps, Builds
    <2> QED BY <1>1, <1>2, <1>3, <2>1, BuildEffect
<1>7. CASE MoonReturns
    <2>1. /\ build.task = "waiting" /\ build'.task \in {"starting", "reporting"}
          /\ inbox' = inbox /\ build'.process = "none"
          /\ build'.streams = build.streams /\ MoonDone
        BY <1>1, <1>7 DEF MoonReturns, BuildSteps, Builds
    <2> QED BY <1>1, <1>2, <2>1, BuildEffect DEF MoonDone
<1>8. CASE Report
    <2>1. /\ build.task = "reporting" /\ build'.task = "done"
          /\ build'.process = build.process /\ build'.streams = build.streams
          /\ \E ok \in BOOLEAN : Put(Prepared(ok))
        BY <1>1, <1>8 DEF Report, BuildSteps, Builds
    <2> QED BY <1>1, <1>2, <1>3, <2>1, BuildEffect
<1>9. CASE BuildCancelled
    <2>1. /\ build.task # "done" /\ build'.task = "done" /\ inbox' = inbox
          /\ build'.process = build.process /\ build'.streams = build.streams
          /\ build.task = "waiting" => MoonDone
        BY <1>1, <1>9 DEF BuildCancelled, Unwound, BuildSteps, Builds
    <2> QED BY <1>1, <1>2, <1>3, <2>1, BuildEffect DEF MoonDone
<1> QED BY <1>4, <1>5, <1>6, <1>7, <1>8, <1>9, <1>10 DEF BuildStep, CancelStep

\* The head of the inbox is taken.
LEMMA TakeKeeps ==
    ASSUME IInv, inbox # <<>>, inbox' = Tail(inbox),
           build.task = "done" => build'.task = "done"
    PROVE  /\ OutcomeIsLast'
           /\ Head(inbox).type = "prepared" =>
                 /\ build.task = "done"
                 /\ \A i \in DOMAIN inbox' : inbox'[i].type = "client"
<1>1. /\ inbox \in Seq(Messages) /\ Len(inbox) \in Nat /\ Len(inbox) > 0
      /\ DOMAIN inbox = 1 .. Len(inbox) /\ DOMAIN inbox' = 1 .. Len(inbox) - 1
      /\ \A i \in 1 .. Len(inbox) - 1 : inbox'[i] = inbox[i + 1]
      /\ Head(inbox) = inbox[1]
    BY DEF IInv, TypeOK
<1> QED BY <1>1 DEF IInv, OutcomeIsLast

LEMMA WaitKeeps == IInv /\ Wait => IInv'
<1> SUFFICES ASSUME IInv, NEW m, Waits(m), TypeOK',
                    \/ ForwardOutput(m) \/ HandOver(m) \/ PreparationFails(m)
                    \/ EditorGone(m) \/ DisconnectBuild(m) \/ RefuseDuringBuild(m)
             PROVE  IInv'
    BY WaitTyped DEF Wait, IInv
<1>1. /\ at = "building" /\ inbox # <<>> /\ inbox' = Tail(inbox) /\ m = Head(inbox)
      /\ session.leaving = None
    BY DEF Waits, IInv, NothingEarly
<1>2. build' = build \/ CancelBuild
    BY DEF ForwardOutput, HandOver, PreparationFails, EditorGone, DisconnectBuild,
           RefuseDuringBuild, LeaveGroup
<1>3. /\ build'.task = build.task /\ build'.process = build.process
      /\ build'.streams = build.streams
    BY <1>2 DEF CancelBuild, IInv, TypeOK, Builds
<1>4. OutcomeIsLast'
    BY <1>1, <1>3, TakeKeeps
<1>5. at' # "serve" /\ at' # "over" /\ (at' = "live" => m.type = "prepared")
    BY <1>1 DEF ForwardOutput, HandOver, PreparationFails, EditorGone,
                DisconnectBuild, RefuseDuringBuild, LeaveGroup
<1>6. BuildIsOwned'
    BY <1>1, <1>3, <1>5, TakeKeeps DEF IInv, BuildIsOwned
<1>7. at' \in {"building", "live"} => session'.leaving = None
    BY <1>1 DEF ForwardOutput, HandOver, PreparationFails, EditorGone,
                DisconnectBuild, RefuseDuringBuild, LeaveGroup
<1>8. LiveStartsClean'
    <2>1. at' = "live" => \A i \in DOMAIN inbox' : inbox'[i].type = "client"
        BY <1>1, <1>3, <1>5, TakeKeeps
    <2>2. at' = "live" => \A s \in Streams : build'.streams[s] = "closed"
        BY <1>1, <1>3, <1>5, TakeKeeps DEF IInv, BuildIsOwned
    <2> QED BY <2>1, <2>2 DEF LiveStartsClean
<1> QED BY <1>4, <1>5, <1>6, <1>7, <1>8 DEF IInv, NothingEarly

LEMMA EndKeeps ==
    IInv /\ (ServeTimeout \/ BuildStops \/ Ends \/ LiveTakes \/ LiveEnds) => IInv'
<1> SUFFICES ASSUME IInv, TypeOK',
                    ServeTimeout \/ BuildStops \/ Ends \/ LiveTakes \/ LiveEnds
             PROVE  IInv'
    BY EndTyped DEF IInv
<1>1. CASE ServeTimeout
    BY <1>1 DEF ServeTimeout, IInv, BuildIsOwned, NothingEarly, OutcomeIsLast,
                LiveStartsClean
<1>2. CASE BuildStops
    BY <1>2 DEF BuildStops, IInv, BuildIsOwned, NothingEarly, OutcomeIsLast,
                LiveStartsClean
<1>3. CASE Ends
    BY <1>3 DEF Ends, IInv, BuildIsOwned, NothingEarly, OutcomeIsLast, LiveStartsClean
<1>4. CASE LiveTakes
    <2>1. /\ at = "live" /\ inbox # <<>> /\ inbox' = Tail(inbox)
          /\ at' \in {"live", "failed"} /\ UNCHANGED <<session, build>>
        BY <1>4 DEF LiveTakes
    <2>2. OutcomeIsLast'
        BY <2>1, TakeKeeps
    <2>3. \A i \in DOMAIN inbox' : inbox'[i].type = "client"
        BY <2>1 DEF IInv, TypeOK, LiveStartsClean
    <2> QED BY <2>1, <2>2, <2>3 DEF IInv, BuildIsOwned, NothingEarly, LiveStartsClean
<1>5. CASE LiveEnds
    BY <1>5 DEF LiveEnds, IInv, BuildIsOwned, NothingEarly, OutcomeIsLast,
                LiveStartsClean
<1> QED BY <1>1, <1>2, <1>3, <1>4, <1>5

LEMMA EditorKeeps == IInv /\ (EditorSends \/ EditorLeaves) => IInv'
<1> SUFFICES ASSUME IInv, TypeOK', EditorSends \/ EditorLeaves PROVE IInv'
    BY EditorTyped DEF IInv
<1>1. UNCHANGED <<at, session, inbox, build>>
    BY DEF EditorSends, EditorLeaves, EditorWrites
<1> QED BY <1>1 DEF IInv, BuildIsOwned, NothingEarly, OutcomeIsLast, LiveStartsClean

LEMMA NextKeeps == IInv /\ [Next]_vars => IInv'
<1>1. IInv /\ UNCHANGED vars => IInv'
    BY NextTyped DEF IInv, BuildIsOwned, NothingEarly, OutcomeIsLast, LiveStartsClean,
                     vars
<1> QED BY <1>1, ServeKeeps, ReaderKeeps, BuildKeeps, WaitKeeps, EndKeeps, EditorKeeps
        DEF Next

THEOREM Invariant == Spec => []IInv
BY InitInv, NextKeeps, PTL DEF Spec

\* LiveSession never finds a message of the build in its inbox, nor is one still
\* to come (live_server.mbt:127), whatever the capacity and the output.
THEOREM LiveAlwaysStartsClean == Spec => []LiveStartsClean
BY Invariant, PTL DEF IInv

-----------------------------------------------------------------------------
(* The build has stopped.                                                    *)

LEMMA StepStops ==
    ASSUME IInv, Next, IInv'
    PROVE  (\/ at' = "over"
            \/ \E r \in Requests \cap {session'.leaving} :
                  editor'.answers[r] > editor.answers[r])
           => NoBuildLeft'
<1>1. build'.task = "done" => NoBuildLeft'
    BY DEF IInv, BuildIsOwned, NoBuildLeft
<1>2. at' = "over" => build'.task = "done"
    BY DEF IInv, BuildIsOwned
<1>3. ASSUME NEW r \in Requests \cap {session'.leaving},
             editor'.answers[r] > editor.answers[r]
      PROVE  build'.task = "done"
    <2>1. session'.leaving # None /\ editor.answers[r] \in Nat
        <3>1. r \in Requests /\ r = session'.leaving
            BY <1>3
        <3>2. r # None
            BY <3>1, ConnectionAssumption DEF None, Requests
        <3> QED BY <3>1, <3>2 DEF IInv, TypeOK, Editors
    <2>2. editor'.answers # editor.answers
        BY <1>3, <2>1
    <2>4. CASE BuildStops
        BY <2>4 DEF BuildStops
    <2>5. CASE Serve
        <3>1. session.leaving = None
            BY <2>5 DEF Serve, Serves, IInv, NothingEarly
        <3>2. session'.leaving = session.leaving
            BY <2>5 DEF Serve, Initialize, TestLaunch, ConfigurationDone, Launch,
                        Disconnect, Reply, StopServing, IInv, TypeOK, Sessions
        <3> QED BY <2>1, <3>1, <3>2
    <2>6. CASE Wait
        <3>1. session.leaving = None
            BY <2>6 DEF Wait, Waits, IInv, NothingEarly
        <3>2. session' = session \/ editor' = editor
            BY <2>6 DEF Wait, ForwardOutput, HandOver, PreparationFails, EditorGone,
                        DisconnectBuild, RefuseDuringBuild
        <3> QED BY <2>1, <2>2, <3>1, <3>2
    <2>7. CASE \/ ServeTimeout \/ ReaderReads \/ ReaderPuts \/ Ends \/ LiveTakes
               \/ LiveEnds \/ BuildStep \/ CancelStep
        BY <2>2, <2>7 DEF ServeTimeout, ReaderReads, ReaderPuts, Ends, LiveTakes,
               LiveEnds, BuildStep, CancelStep, BuildSteps, OpenPackage, StartMoon, Decide, Read,
               PutChunk, StreamEnds, Overflow, MoonExits, StreamCancelled, Kill,
               MoonReturns, Report, BuildCancelled
    <2>8. CASE EditorSends \/ EditorLeaves
        <3>1. editor'.answers = editor.answers
            BY <2>8 DEF EditorSends, EditorLeaves, EditorWrites, IInv, TypeOK, Editors
        <3> QED BY <2>2, <3>1
    <2> QED BY <2>4, <2>5, <2>6, <2>7, <2>8 DEF Next
<1> QED BY <1>1, <1>2, <1>3

\* When a disconnect is answered and when serve returns, no process and no task
\* of a build is left (prepare_launch.mbt:153), however long the build may run and
\* wherever the disconnect meets it.
THEOREM BuildAlwaysStopped == Spec => BuildStopped
<1>1. IInv /\ [Next]_vars /\ IInv' =>
          [(\/ at' = "over"
            \/ \E r \in Requests \cap {session'.leaving} :
                  editor'.answers[r] > editor.answers[r])
           => NoBuildLeft']_vars
    BY StepStops
<1> QED BY <1>1, Invariant, NextKeeps, PTL DEF Spec, BuildStopped

-----------------------------------------------------------------------------
(* The order of frames.  How many of the editor are in the inbox.            *)

LEMMA ClientsCounted ==
    ASSUME NEW box, NEW n \in Nat
    PROVE  /\ IsFiniteSet(ClientsIn(box, n)) /\ Cardinality(ClientsIn(box, n)) \in Nat
           /\ \A i \in ClientsIn(box, n) :
                 /\ Cardinality(ClientsIn(box, i)) \in Nat
                 /\ 1 <= Cardinality(ClientsIn(box, i))
                 /\ Cardinality(ClientsIn(box, i)) <= Cardinality(ClientsIn(box, n))
<1>1. ASSUME NEW k \in Nat
      PROVE  IsFiniteSet(ClientsIn(box, k)) /\ Cardinality(ClientsIn(box, k)) \in Nat
    <2>1. IsFiniteSet(1 .. k)
        BY FS_Interval
    <2>2. ClientsIn(box, k) \in SUBSET (1 .. k)
        BY DEF ClientsIn
    <2> QED BY <2>1, <2>2, FS_Subset, FS_CardinalityType
<1>2. ASSUME NEW i \in ClientsIn(box, n)
      PROVE  /\ Cardinality(ClientsIn(box, i)) \in Nat
             /\ 1 <= Cardinality(ClientsIn(box, i))
             /\ Cardinality(ClientsIn(box, i)) <= Cardinality(ClientsIn(box, n))
    <2>1. i \in Nat /\ i \in ClientsIn(box, i)
        BY DEF ClientsIn
    <2>2. ClientsIn(box, i) \in SUBSET ClientsIn(box, n)
        BY DEF ClientsIn
    <2>3. Cardinality(ClientsIn(box, i)) # 0
        BY <1>1, <2>1, FS_EmptySet
    <2>4. Cardinality(ClientsIn(box, i)) <= Cardinality(ClientsIn(box, n))
        BY <1>1, <2>2, FS_Subset
    <2> QED BY <1>1, <2>1, <2>3, <2>4
<1> QED BY <1>1, <1>2

LEMMA AppendedCounts ==
    ASSUME NEW box \in Seq(Messages), NEW m \in Messages
    PROVE  /\ \A n \in 0 .. Len(box) : ClientsIn(Append(box, m), n) = ClientsIn(box, n)
           /\ m.type = "client" =>
                 /\ ClientsIn(Append(box, m), Len(box) + 1) =
                       ClientsIn(box, Len(box)) \cup {Len(box) + 1}
                 /\ Cardinality(ClientsIn(Append(box, m), Len(box) + 1)) =
                       Cardinality(ClientsIn(box, Len(box))) + 1
           /\ m.type # "client" =>
                 ClientsIn(Append(box, m), Len(box) + 1) = ClientsIn(box, Len(box))
<1> DEFINE all == Append(box, m)
<1>1. /\ Len(box) \in Nat /\ Len(all) = Len(box) + 1
      /\ \A i \in 1 .. Len(box) : all[i] = box[i]
      /\ all[Len(box) + 1] = m
    OBVIOUS
<1> HIDE DEF all
<1>2. \A n \in 0 .. Len(box) : ClientsIn(all, n) = ClientsIn(box, n)
    BY <1>1 DEF ClientsIn
<1>3. m.type # "client" => ClientsIn(all, Len(box) + 1) = ClientsIn(box, Len(box))
    BY <1>1 DEF ClientsIn
<1>4. ASSUME m.type = "client"
      PROVE  ClientsIn(all, Len(box) + 1) = ClientsIn(box, Len(box)) \cup {Len(box) + 1}
    BY <1>1, <1>4 DEF ClientsIn
<1>5. /\ IsFiniteSet(ClientsIn(box, Len(box)))
      /\ Len(box) + 1 \notin ClientsIn(box, Len(box))
    BY <1>1, ClientsCounted DEF ClientsIn
<1>6. Cardinality(ClientsIn(box, Len(box)) \cup {Len(box) + 1}) =
          Cardinality(ClientsIn(box, Len(box))) + 1
    BY <1>5, FS_AddElement
<1> QED BY <1>2, <1>3, <1>4, <1>6 DEF all

LEMMA TakenCounts ==
    ASSUME NEW box \in Seq(Messages), box # <<>>, NEW n \in 0 .. Len(box) - 1
    PROVE  Cardinality(ClientsIn(box, n + 1)) =
               IF Head(box).type = "client"
               THEN Cardinality(ClientsIn(Tail(box), n)) + 1
               ELSE Cardinality(ClientsIn(Tail(box), n))
<1> DEFINE rest == Tail(box)
           S == ClientsIn(rest, n)
           T == ClientsIn(box, n + 1) \ {1}
           f == [i \in S |-> i + 1]
<1>1. /\ Len(box) \in Nat /\ Len(box) > 0 /\ Head(box) = box[1]
      /\ Len(rest) = Len(box) - 1
      /\ \A i \in 1 .. Len(box) - 1 : rest[i] = box[i + 1]
    OBVIOUS
<1> HIDE DEF rest
<1>2. /\ IsFiniteSet(S) /\ IsFiniteSet(ClientsIn(box, n + 1))
      /\ Cardinality(ClientsIn(box, n + 1)) \in Nat
    BY <1>1, ClientsCounted
<1>3. ExistsBijection(S, T)
    <2>1. \A i \in S : i + 1 \in T
        BY <1>1 DEF ClientsIn
    <2>2. \A j \in T : j - 1 \in S /\ (j - 1) + 1 = j
        BY <1>1 DEF ClientsIn
    <2>3. S \subseteq Int
        BY DEF ClientsIn
    <2>4. f \in Injection(S, T)
        BY <2>1, <2>3 DEF Injection, IsInjective
    <2>5. f \in Surjection(S, T)
        BY <2>1, <2>2 DEF Surjection
    <2> QED BY <2>4, <2>5 DEF Bijection, ExistsBijection
<1>4. Cardinality(T) = Cardinality(S)
    BY <1>2, <1>3, FS_Bijection
<1>5. 1 \in ClientsIn(box, n + 1) <=> Head(box).type = "client"
    BY <1>1 DEF ClientsIn
<1>6. Cardinality(T) = IF 1 \in ClientsIn(box, n + 1)
                       THEN Cardinality(ClientsIn(box, n + 1)) - 1
                       ELSE Cardinality(ClientsIn(box, n + 1))
    BY <1>2, FS_RemoveElement
<1> HIDE DEF S, T
<1>7. Cardinality(ClientsIn(box, n + 1)) =
          IF Head(box).type = "client" THEN Cardinality(S) + 1 ELSE Cardinality(S)
    BY <1>2, <1>4, <1>5, <1>6
<1> QED BY <1>7 DEF S, rest

\* A frame is sent.
LEMMA SentInOrder ==
    ASSUME NEW sent \in Seq(Frames), NEW done \in Seq(Frames), NEW box \in Seq(Messages),
           NEW ahead \in Seq(Frames), NEW f \in Frames, InOrder(sent, done, box, ahead)
    PROVE  InOrder(Append(sent, f), done, box, Append(ahead, f))
<1> DEFINE s == Append(sent, f)
           a == Append(ahead, f)
           n == Cardinality(ClientsIn(box, Len(box)))
<1>1. /\ n \in Nat
      /\ \A i \in ClientsIn(box, Len(box)) :
            /\ Cardinality(ClientsIn(box, i)) \in 1 .. n
    BY ClientsCounted
<1>2. /\ Len(sent) = Len(done) + n + Len(ahead)
      /\ \A i \in 1 .. Len(done) : sent[i] = done[i]
      /\ \A i \in ClientsIn(box, Len(box)) :
            sent[Len(done) + Cardinality(ClientsIn(box, i))] = box[i].frame
      /\ \A i \in 1 .. Len(ahead) : sent[Len(done) + n + i] = ahead[i]
    BY DEF InOrder
<1>3. /\ Len(s) = Len(sent) + 1 /\ s[Len(sent) + 1] = f
      /\ \A i \in 1 .. Len(sent) : s[i] = sent[i]
      /\ Len(a) = Len(ahead) + 1 /\ a[Len(ahead) + 1] = f
      /\ \A i \in 1 .. Len(ahead) : a[i] = ahead[i]
      /\ Len(done) \in Nat /\ Len(ahead) \in Nat /\ Len(sent) \in Nat
      /\ DOMAIN a = 1 .. Len(ahead) + 1 /\ DOMAIN done = 1 .. Len(done)
    OBVIOUS
<1> HIDE DEF s, a, n
<1>4. \A i \in 1 .. Len(ahead) + 1 : s[Len(done) + n + i] = a[i]
    <2>1. ASSUME NEW i \in 1 .. Len(ahead) PROVE s[Len(done) + n + i] = a[i]
        <3>1. Len(done) + n + i \in 1 .. Len(sent)
            BY <1>1, <1>2, <1>3
        <3> QED BY <1>2, <1>3, <3>1
    <2>2. Len(done) + n + (Len(ahead) + 1) = Len(sent) + 1
        BY <1>1, <1>2, <1>3
    <2> QED BY <1>3, <2>1, <2>2
<1>5. \A i \in ClientsIn(box, Len(box)) :
          s[Len(done) + Cardinality(ClientsIn(box, i))] = box[i].frame
    BY <1>1, <1>2, <1>3
<1>6. \A i \in 1 .. Len(done) : s[i] = done[i]
    BY <1>1, <1>2, <1>3
<1>7. Len(s) = Len(done) + n + Len(a)
    BY <1>1, <1>2, <1>3
<1> QED BY <1>3, <1>4, <1>5, <1>6, <1>7 DEF InOrder, s, a, n

\* The next frame ahead is put into the box.
LEMMA DeliveredInOrder ==
    ASSUME NEW sent \in Seq(Frames), NEW done \in Seq(Frames), NEW box \in Seq(Messages),
           NEW ahead \in Seq(Frames), ahead # <<>>, InOrder(sent, done, box, ahead)
    PROVE  InOrder(sent, done, Append(box, Client(Head(ahead))), Tail(ahead))
<1> DEFINE m == Client(Head(ahead))
           b == Append(box, m)
           a == Tail(ahead)
           n == Cardinality(ClientsIn(box, Len(box)))
           k == Cardinality(ClientsIn(b, Len(box) + 1))
<1>1. /\ m \in Messages /\ m.type = "client" /\ m.frame = Head(ahead)
    BY MessageTypes, HeadAndTail DEF Client
<1>2. n \in Nat /\ Len(box) \in Nat
    BY ClientsCounted
<1>3. /\ Len(sent) = Len(done) + n + Len(ahead)
      /\ \A i \in 1 .. Len(done) : sent[i] = done[i]
      /\ \A i \in ClientsIn(box, Len(box)) :
            sent[Len(done) + Cardinality(ClientsIn(box, i))] = box[i].frame
      /\ \A i \in 1 .. Len(ahead) : sent[Len(done) + n + i] = ahead[i]
    BY DEF InOrder
<1>4. /\ Len(a) = Len(ahead) - 1 /\ Len(ahead) > 0 /\ Len(ahead) \in Nat
      /\ \A i \in 1 .. Len(ahead) - 1 : a[i] = ahead[i + 1]
      /\ DOMAIN a = 1 .. Len(ahead) - 1 /\ Head(ahead) = ahead[1]
      /\ Len(done) \in Nat /\ DOMAIN done = 1 .. Len(done)
    OBVIOUS
<1>5. /\ Len(b) = Len(box) + 1 /\ b[Len(box) + 1] = m
      /\ \A i \in 1 .. Len(box) : b[i] = box[i]
    BY <1>1
<1>6. /\ k = n + 1
      /\ ClientsIn(b, Len(box) + 1) = ClientsIn(box, Len(box)) \cup {Len(box) + 1}
      /\ \A i \in 0 .. Len(box) : ClientsIn(b, i) = ClientsIn(box, i)
    BY <1>1, AppendedCounts
<1>7. ClientsIn(box, Len(box)) \subseteq 1 .. Len(box)
    BY DEF ClientsIn
<1> HIDE DEF m, b, a, n, k
<1>8. Len(sent) = Len(done) + k + Len(a)
    BY <1>2, <1>3, <1>4, <1>6
<1>9. \A i \in 1 .. Len(ahead) - 1 : sent[Len(done) + k + i] = a[i]
    <2>1. SUFFICES ASSUME NEW i \in 1 .. Len(ahead) - 1
                   PROVE  sent[Len(done) + k + i] = a[i]
        OBVIOUS
    <2>2. i + 1 \in 1 .. Len(ahead) /\ Len(done) + k + i = Len(done) + n + (i + 1)
        BY <1>2, <1>4, <1>6
    <2> QED BY <1>3, <1>4, <2>2
<1>10. \A i \in ClientsIn(b, Len(b)) :
          sent[Len(done) + Cardinality(ClientsIn(b, i))] = b[i].frame
    <2>1. ASSUME NEW i \in ClientsIn(box, Len(box))
          PROVE  sent[Len(done) + Cardinality(ClientsIn(b, i))] = b[i].frame
        <3>1. i \in 1 .. Len(box) /\ i \in 0 .. Len(box)
            BY <1>2, <1>7
        <3>2. ClientsIn(b, i) = ClientsIn(box, i) /\ b[i] = box[i]
            BY <1>5, <1>6, <3>1
        <3> QED BY <1>3, <3>2
    <2>2. sent[Len(done) + k] = b[Len(box) + 1].frame
        <3>1. 1 \in 1 .. Len(ahead) /\ Len(done) + k = Len(done) + n + 1
            BY <1>2, <1>4, <1>6
        <3> QED BY <1>1, <1>3, <1>4, <1>5, <3>1
    <2> QED BY <1>5, <1>6, <2>1, <2>2 DEF k
<1>11. Len(sent) = Len(done) + Cardinality(ClientsIn(b, Len(b))) + Len(a)
    BY <1>5, <1>8 DEF k
<1>12. \A i \in DOMAIN a : sent[Len(done) + Cardinality(ClientsIn(b, Len(b))) + i] = a[i]
    BY <1>4, <1>5, <1>9 DEF k
<1> QED BY <1>3, <1>4, <1>10, <1>11, <1>12 DEF InOrder, m, b, a

\* A message of the build is put into the box.
LEMMA PutInOrder ==
    ASSUME NEW sent, NEW done, NEW ahead, NEW box \in Seq(Messages),
           NEW m \in Messages, m.type # "client", InOrder(sent, done, box, ahead)
    PROVE  InOrder(sent, done, Append(box, m), ahead)
<1> DEFINE b == Append(box, m)
<1>1. /\ Len(box) \in Nat /\ Len(b) = Len(box) + 1
      /\ \A i \in 1 .. Len(box) : b[i] = box[i]
    OBVIOUS
<1>2. /\ ClientsIn(b, Len(b)) = ClientsIn(box, Len(box))
      /\ \A i \in 0 .. Len(box) : ClientsIn(b, i) = ClientsIn(box, i)
    BY <1>1, AppendedCounts
<1>3. ClientsIn(box, Len(box)) \subseteq 1 .. Len(box)
    BY DEF ClientsIn
<1> HIDE DEF b
<1>4. \A i \in ClientsIn(box, Len(box)) : ClientsIn(b, i) = ClientsIn(box, i) /\ b[i] = box[i]
    BY <1>1, <1>2, <1>3
<1> QED BY <1>2, <1>4 DEF InOrder, b

\* The head of the box is taken: a frame is done, anything else is gone.
LEMMA TakenInOrder ==
    ASSUME NEW sent, NEW done \in Seq(Frames), NEW ahead \in Seq(Frames),
           NEW box \in Seq(Messages), box # <<>>, InOrder(sent, done, box, ahead)
    PROVE  InOrder(sent, IF Head(box).type = "client" THEN Append(done, Head(box).frame)
                                                      ELSE done,
                   Tail(box), ahead)
<1> DEFINE d == IF Head(box).type = "client" THEN Append(done, Head(box).frame) ELSE done
           b == Tail(box)
           one == IF Head(box).type = "client" THEN 1 ELSE 0
           n == Cardinality(ClientsIn(box, Len(box)))
           k == Cardinality(ClientsIn(b, Len(b)))
<1>1. /\ Len(box) \in Nat /\ Len(box) > 0 /\ Len(b) = Len(box) - 1 /\ Head(box) = box[1]
      /\ \A i \in 1 .. Len(box) - 1 : b[i] = box[i + 1]
    OBVIOUS
<1>2. /\ Len(sent) = Len(done) + n + Len(ahead)
      /\ \A i \in 1 .. Len(done) : sent[i] = done[i]
      /\ \A i \in ClientsIn(box, Len(box)) :
            sent[Len(done) + Cardinality(ClientsIn(box, i))] = box[i].frame
      /\ \A i \in 1 .. Len(ahead) : sent[Len(done) + n + i] = ahead[i]
    BY DEF InOrder
<1>3. Head(box).frame \in Frames
    <2>1. Head(box) \in Messages
        BY HeadAndTail
    <2> QED BY <2>1 DEF Messages
<1>4. /\ Len(done) \in Nat /\ Len(d) = Len(done) + one
      /\ \A i \in 1 .. Len(done) : d[i] = done[i]
      /\ Head(box).type = "client" => d[Len(done) + 1] = Head(box).frame
      /\ DOMAIN d = 1 .. Len(done) + one
      /\ DOMAIN ahead = 1 .. Len(ahead)
    BY <1>3
<1>5. \A i \in 0 .. Len(b) :
          /\ Cardinality(ClientsIn(b, i)) \in Nat
          /\ Cardinality(ClientsIn(box, i + 1)) = Cardinality(ClientsIn(b, i)) + one
    BY SMTT(30), <1>1, TakenCounts, ClientsCounted
<1>6. k \in Nat /\ n = k + one
    BY <1>1, <1>5
<1>7. \A i \in ClientsIn(b, Len(b)) :
          i \in 0 .. Len(b) /\ i + 1 \in ClientsIn(box, Len(box)) /\ b[i] = box[i + 1]
    BY <1>1 DEF ClientsIn
<1>8. Head(box).type = "client" => sent[Len(done) + 1] = Head(box).frame
    <2>1. SUFFICES ASSUME Head(box).type = "client"
                   PROVE  sent[Len(done) + 1] = Head(box).frame
        OBVIOUS
    <2>2. 1 \in ClientsIn(box, Len(box)) /\ ClientsIn(box, 1) = {1}
        BY <1>1, <2>1 DEF ClientsIn
    <2>3. Cardinality(ClientsIn(box, 1)) = 1
        BY <2>2, FS_Singleton
    <2>4. sent[Len(done) + Cardinality(ClientsIn(box, 1))] = box[1].frame
        BY <1>2, <2>2
    <2> QED BY <1>1, <2>3, <2>4
<1> HIDE DEF b, d, n, k
<1>9. \A i \in 1 .. Len(done) + one : sent[i] = d[i]
    <2>1. \A i \in 1 .. Len(done) : sent[i] = d[i]
        BY <1>2, <1>4
    <2>2. one = 1 => sent[Len(done) + 1] = d[Len(done) + 1]
        BY <1>4, <1>8
    <2>3. \A i \in 1 .. Len(done) + one :
              i \in 1 .. Len(done) \/ (one = 1 /\ i = Len(done) + 1)
        BY <1>4
    <2> QED BY <2>1, <2>2, <2>3
<1>10. \A i \in ClientsIn(b, Len(b)) :
          sent[Len(d) + Cardinality(ClientsIn(b, i))] = b[i].frame
    <2>1. SUFFICES ASSUME NEW i \in ClientsIn(b, Len(b))
                   PROVE  sent[Len(d) + Cardinality(ClientsIn(b, i))] = b[i].frame
        OBVIOUS
    <2>2. /\ i \in 0 .. Len(b) /\ i + 1 \in ClientsIn(box, Len(box)) /\ b[i] = box[i + 1]
        BY <1>7
    <2>3. Len(d) + Cardinality(ClientsIn(b, i)) =
              Len(done) + Cardinality(ClientsIn(box, i + 1))
        BY <1>4, <1>5, <2>2
    <2> QED BY <1>2, <2>2, <2>3
<1>11. Len(sent) = Len(d) + k + Len(ahead)
    BY <1>2, <1>4, <1>6
<1>12. Len(d) + k = Len(done) + n
    BY <1>4, <1>6
<1>13. \A i \in 1 .. Len(ahead) : sent[Len(d) + k + i] = ahead[i]
    BY <1>2, <1>12
<1>14. InOrder(sent, d, b, ahead)
    BY <1>4, <1>9, <1>10, <1>11, <1>13 DEF InOrder, k
<1> QED BY <1>14 DEF d, b

\* Nothing is in the box, and the next frame ahead is done.
LEMMA ServedInOrder ==
    ASSUME NEW sent, NEW done \in Seq(Frames), NEW ahead \in Seq(Frames), ahead # <<>>,
           NEW box, ClientsIn(box, Len(box)) = {}, InOrder(sent, done, box, ahead)
    PROVE  InOrder(sent, Append(done, Head(ahead)), box, Tail(ahead))
<1> DEFINE d == Append(done, Head(ahead))
           a == Tail(ahead)
<1>1. /\ ClientsIn(box, Len(box)) = {}
      /\ Cardinality(ClientsIn(box, Len(box))) = 0
    BY FS_EmptySet
<1>2. /\ Len(sent) = Len(done) + Len(ahead)
      /\ \A i \in 1 .. Len(done) : sent[i] = done[i]
      /\ \A i \in 1 .. Len(ahead) : sent[Len(done) + i] = ahead[i]
    <2>1. Len(done) \in Nat /\ Len(done) + 0 = Len(done)
        OBVIOUS
    <2>2. /\ Len(sent) = Len(done) + 0 + Len(ahead)
          /\ \A i \in 1 .. Len(done) : sent[i] = done[i]
          /\ \A i \in 1 .. Len(ahead) : sent[Len(done) + 0 + i] = ahead[i]
        BY SMTT(30), <1>1 DEF InOrder
    <2> QED BY <2>1, <2>2
<1>3. /\ Len(a) = Len(ahead) - 1 /\ Len(ahead) > 0 /\ Len(ahead) \in Nat
      /\ \A i \in 1 .. Len(ahead) - 1 : a[i] = ahead[i + 1]
      /\ DOMAIN a = 1 .. Len(ahead) - 1 /\ Head(ahead) = ahead[1]
    OBVIOUS
<1>4. /\ Len(done) \in Nat /\ Len(d) = Len(done) + 1 /\ d[Len(done) + 1] = Head(ahead)
      /\ \A i \in 1 .. Len(done) : d[i] = done[i]
      /\ DOMAIN d = 1 .. Len(done) + 1
    BY HeadAndTail
<1>5a. /\ Len(done) \in Nat /\ Len(d) = Len(done) + 1
       /\ Len(ahead) \in Nat /\ Len(ahead) > 0 /\ Len(a) = Len(ahead) - 1
    BY <1>3, <1>4
<1> HIDE DEF d, a
<1>5. sent[Len(done) + 1] = d[Len(done) + 1]
    BY <1>2, <1>3, <1>4
<1>6. \A i \in 1 .. Len(done) + 1 : sent[i] = d[i]
    BY SMTT(30), <1>2, <1>4, <1>5
<1>7. \A i \in 1 .. Len(ahead) - 1 : sent[Len(d) + i] = a[i]
    <2>1. SUFFICES ASSUME NEW i \in 1 .. Len(ahead) - 1 PROVE sent[Len(d) + i] = a[i]
        OBVIOUS
    <2>2. i + 1 \in 1 .. Len(ahead) /\ Len(d) + i = Len(done) + (i + 1)
        BY <1>5a
    <2> QED BY <1>2, <1>3, <2>2
<1>8. Len(sent) = Len(d) + 0 + Len(a) /\ Len(d) + 0 = Len(d)
    BY <1>2, <1>5a
<1>9. InOrder(sent, d, box, a)
    BY <1>1, <1>3, <1>4, <1>6, <1>7, <1>8 DEF InOrder
<1> QED BY <1>9 DEF d, a

\* What is at one end of what is put together.
LEMMA EndsOfJoined ==
    ASSUME NEW s \in Seq(Frames), NEW t \in Seq(Frames), NEW f \in Frames
    PROVE  /\ s \o t \in Seq(Frames)
           /\ s \o Append(t, f) = Append(s \o t, f)
           /\ Append(s, f) \o <<>> = Append(s \o <<>>, f)
           /\ <<>> \o t = t
           /\ Head(<<f>> \o t) = f /\ Tail(<<f>> \o t) = t /\ <<f>> \o t # <<>>
           /\ t # <<>> => <<Head(t)>> \o Tail(t) = t
<1>1. s \o t \in Seq(Frames)
    BY ConcatProperties
<1>2. s \o Append(t, f) = Append(s \o t, f)
    <2>1. Append(t, f) = t \o <<f>> /\ <<f>> \in Seq(Frames)
        OBVIOUS
    <2>2. Append(s \o t, f) = (s \o t) \o <<f>>
        BY <1>1
    <2> QED BY <2>1, <2>2, ConcatAssociative
<1>3. /\ s \o <<>> = s /\ <<>> \o t = t
      /\ Append(s, f) \o <<>> = Append(s, f)
    <2>1. Append(s, f) \in Seq(Frames)
        OBVIOUS
    <2> QED BY <2>1, ConcatEmptySeq
<1>4. Head(<<f>> \o t) = f /\ Tail(<<f>> \o t) = t /\ <<f>> \o t # <<>>
    OBVIOUS
<1>5. t # <<>> => <<Head(t)>> \o Tail(t) = t
    OBVIOUS
<1> QED BY <1>1, <1>2, <1>3, <1>4, <1>5

\* The reader holds a frame only to put it, and before a launch it is off; frames
\* are given to LiveSession only after the build.
OneAhead ==
    /\ reader.pc # "putting" => reader.held = <<>>
    /\ at = "serve" => reader.pc = "off"
    /\ at \in {"serve", "building", "stopping"} => passed = <<>>

InLine == OneAhead /\ FramesInOrder

LEMMA AppendedToJoined ==
    \A s, t \in Seq(Frames), f \in Frames : s \o Append(t, f) = Append(s \o t, f)
BY EndsOfJoined

LEMMA InitInLine == Init => InLine
<1> SUFFICES ASSUME Init PROVE InLine
    OBVIOUS
<1>1. /\ editor.sent = <<>> /\ taken = <<>> /\ passed = <<>> /\ inbox = <<>>
      /\ reader.held = <<>> /\ fromClient = <<>> /\ reader.pc = "off"
    BY DEF Init
<1>2. <<>> \o <<>> = <<>> /\ Len(<<>>) = 0
    BY ConcatEmptySeq
<1>3. ClientsIn(<<>>, Len(<<>>)) = {} /\ Cardinality({}) = 0
    BY FS_EmptySet DEF ClientsIn
<1>4. InOrder(<<>>, <<>>, <<>>, <<>>)
    <2> DEFINE e == <<>>
    <2>1. e \in Seq(Frames) /\ Len(e) = 0
        OBVIOUS
    <2>2. DOMAIN e = 1 .. Len(e) /\ 1 .. 0 = {}
        BY <2>1
    <2>3. ClientsIn(e, Len(e)) = {}
        BY <1>3
    <2>4. Cardinality(ClientsIn(e, Len(e))) = 0
        BY <1>3, <2>3
    <2>5. /\ Len(e) = 0 /\ DOMAIN e = {} /\ ClientsIn(e, Len(e)) = {}
          /\ Cardinality(ClientsIn(e, Len(e))) = 0
        BY <2>1, <2>2, <2>3, <2>4, Zenon
    <2> HIDE DEF e
    <2>6. InOrder(e, e, e, e)
        BY <2>5 DEF InOrder
    <2> QED BY <2>6 DEF e
<1> QED BY <1>1, <1>2, <1>4 DEF InLine, OneAhead, FramesInOrder

LEMMA Lines ==
    ASSUME IInv
    PROVE  /\ editor.sent \in Seq(Frames) /\ taken \in Seq(Frames)
           /\ passed \in Seq(Frames) /\ inbox \in Seq(Messages)
           /\ reader.held \in Seq(Frames) /\ fromClient \in Seq(Frames)
           /\ taken \o passed \in Seq(Frames)
           /\ reader.held \o fromClient \in Seq(Frames)
<1>1. /\ editor.sent \in Seq(Frames) /\ taken \in Seq(Frames)
      /\ passed \in Seq(Frames) /\ inbox \in Seq(Messages)
      /\ reader.held \in Seq(Frames) /\ fromClient \in Seq(Frames)
    BY DEF IInv, TypeOK, Editors, Readers
<1> QED BY <1>1, ConcatProperties

LEMMA ServeInLine == IInv /\ InLine /\ Serve => InLine'
<1> SUFFICES ASSUME IInv, InLine, NEW f, fromClient # <<>>, Serves(f),
                    \/ Initialize(f) \/ TestLaunch(f) \/ ConfigurationDone(f)
                    \/ Launch(f) \/ Disconnect(f) \/ Reply(f) \/ StopServing(f)
             PROVE  InLine'
    BY DEF Serve, Serves
<1>1. /\ at = "serve" /\ inbox = <<>> /\ reader.held = <<>> /\ passed = <<>>
      /\ reader.pc = "off" /\ f = Head(fromClient) /\ fromClient' = Tail(fromClient)
      /\ taken' = Append(taken, f) /\ inbox' = inbox /\ passed' = passed
    BY DEF Serves, IInv, NothingEarly, InLine, OneAhead
<1>2. /\ reader'.held = <<>> /\ (at' = "serve" => reader'.pc = "off")
      /\ at' \in {"serve", "building", "over", "failed"} /\ editor'.sent = editor.sent
      /\ reader'.pc # "putting"
    <2>1. \A S : Answer(S).sent = editor.sent /\ AnswerAndTerminate(S).sent = editor.sent
        BY DEF Answer, AnswerAndTerminate, IInv, TypeOK, Editors
    <2>2. editor'.sent = editor.sent
        BY <2>1 DEF Initialize, TestLaunch, ConfigurationDone, Launch, Disconnect, Reply,
                    StopServing
    <2>3. at' \in {"serve", "building", "over", "failed"}
        BY <1>1 DEF Initialize, TestLaunch, ConfigurationDone, Launch, Disconnect, Reply,
                    StopServing, KeepServing
    <2>4. \/ reader' = reader
          \/ at' = "building" /\ reader'.held = <<>> /\ reader'.pc = "reading"
        BY DEF Initialize, TestLaunch, ConfigurationDone, Launch, Disconnect, Reply,
               StopServing, KeepServing
    <2> QED BY <1>1, <2>2, <2>3, <2>4
<1>3. OneAhead'
    BY <1>1, <1>2 DEF OneAhead
<1>4. InOrder(editor.sent, taken \o passed, inbox, reader.held \o fromClient)
    BY <1>1 DEF InLine, FramesInOrder
<1>5. f \in Frames
    BY <1>1, HeadAndTail DEF IInv, TypeOK
<1>6. /\ taken \o passed = taken /\ taken' \o passed' = taken'
      /\ reader.held \o fromClient = fromClient
      /\ reader'.held \o fromClient' = fromClient'
    <2>1. taken' \in Seq(Frames) /\ fromClient' \in Seq(Frames)
        BY <1>1, <1>5, Lines, HeadAndTail
    <2> QED BY <1>1, <1>2, <2>1, Lines, ConcatEmptySeq
<1>7. ClientsIn(inbox, Len(inbox)) = {}
    BY <1>1 DEF ClientsIn
<1>8. InOrder(editor.sent, taken', inbox, fromClient')
    BY <1>1, <1>4, <1>6, <1>7, Lines, ServedInOrder
<1> QED BY <1>1, <1>2, <1>3, <1>6, <1>8 DEF InLine, FramesInOrder

LEMMA ReaderInLine == IInv /\ InLine /\ (ReaderReads \/ ReaderPuts) => InLine'
<1> SUFFICES ASSUME IInv, InLine, ReaderReads \/ ReaderPuts PROVE InLine'
    OBVIOUS
<1>1. at \notin {"serve", "over", "failed"} /\ at' = at
    BY DEF ReaderReads, ReaderPuts, Running
<1>2. InOrder(editor.sent, taken \o passed, inbox, reader.held \o fromClient)
    BY <1>1 DEF InLine, FramesInOrder
<1>3. CASE ReaderReads
    <2>1. /\ fromClient # <<>> /\ reader.held = <<>> /\ fromClient' = Tail(fromClient)
          /\ reader'.held = <<Head(fromClient)>> /\ reader'.pc = "putting"
          /\ UNCHANGED <<editor, inbox, taken, passed>>
        BY <1>3 DEF ReaderReads, InLine, OneAhead
    <2>2. reader'.held \o fromClient' = reader.held \o fromClient
        <3>1. Head(fromClient) \in Frames
            BY <2>1, Lines, HeadAndTail
        <3> QED BY <2>1, <3>1, Lines, EndsOfJoined
    <2>3. OneAhead'
        BY <1>1, <2>1 DEF InLine, OneAhead
    <2> QED BY <1>2, <2>1, <2>2, <2>3 DEF InLine, FramesInOrder
<1>4. CASE ReaderPuts
    <2>1. /\ Len(reader.held) = 1 /\ reader'.held = <<>> /\ reader'.pc # "putting"
          /\ inbox' = Append(inbox, Client(reader.held[1]))
          /\ UNCHANGED <<editor, fromClient, taken, passed>>
        BY <1>4 DEF ReaderPuts, Deliver, Put, IInv, TypeOK
    <2>2. PICK f \in Frames : reader.held = <<f>> /\ f = reader.held[1]
        BY <2>1, Lines
    <2>3. /\ reader.held \o fromClient # <<>> /\ Head(reader.held \o fromClient) = f
          /\ Tail(reader.held \o fromClient) = fromClient
          /\ reader'.held \o fromClient' = fromClient
        BY <2>1, <2>2, Lines, EndsOfJoined
    <2>4. InOrder(editor.sent, taken \o passed, inbox', fromClient)
        BY <1>2, <2>1, <2>2, <2>3, Lines, DeliveredInOrder
    <2>5. OneAhead'
        BY <1>1, <2>1 DEF InLine, OneAhead
    <2> QED BY <2>1, <2>3, <2>4, <2>5 DEF InLine, FramesInOrder
<1> QED BY <1>3, <1>4

LEMMA BuildInLine == IInv /\ InLine /\ (BuildStep \/ CancelStep) => InLine'
<1> SUFFICES ASSUME IInv, InLine, BuildStep \/ CancelStep PROVE InLine'
    OBVIOUS
<1>1. UNCHANGED <<at, session, editor, fromClient, reader, taken, passed>>
    BY DEF BuildStep, CancelStep, BuildSteps, OpenPackage, StartMoon, Decide, Read,
           PutChunk, StreamEnds, Overflow, MoonExits, StreamCancelled, Kill, MoonReturns,
           Report, BuildCancelled
<1>2. inbox' = inbox \/ \E m \in Messages : m.type # "client" /\ Put(m)
    <2>1. /\ Output \in Messages /\ Output.type # "client"
          /\ build.ok \in BOOLEAN => Prepared(build.ok) \in Messages
          /\ Prepared(build.ok).type # "client"
        BY MessageTypes DEF Output, Prepared
    <2>2. build.ok \in BOOLEAN
        BY DEF IInv, TypeOK, Builds
    <2> QED BY <2>1, <2>2 DEF BuildStep, CancelStep, OpenPackage, StartMoon, Decide, Read,
           PutChunk, StreamEnds, Overflow, MoonExits, StreamCancelled, Kill, MoonReturns,
           Report, BuildCancelled
<1>3. OneAhead'
    BY <1>1 DEF InLine, OneAhead
<1>4. FramesInOrder'
    <2>1. CASE inbox' = inbox
        BY <1>1, <2>1 DEF InLine, FramesInOrder
    <2>2. CASE \E m \in Messages : m.type # "client" /\ Put(m)
        <3>1. PICK m \in Messages : m.type # "client" /\ Put(m)
            BY <2>2
        <3>2. inbox' = Append(inbox, m)
            BY <3>1 DEF Put
        <3>3. SUFFICES ASSUME at \notin {"over", "failed"}
                       PROVE  InOrder(editor.sent, taken \o passed, Append(inbox, m),
                                      reader.held \o fromClient)
            BY <1>1, <3>2 DEF FramesInOrder
        <3> QED BY <3>1, <3>3, Lines, PutInOrder DEF InLine, FramesInOrder
    <2> QED BY <1>2, <2>1, <2>2
<1> QED BY <1>3, <1>4 DEF InLine

LEMMA WaitInLine == IInv /\ InLine /\ Wait => InLine'
<1> SUFFICES ASSUME IInv, InLine, NEW m, Waits(m),
                    \/ ForwardOutput(m) \/ HandOver(m) \/ PreparationFails(m)
                    \/ EditorGone(m) \/ DisconnectBuild(m) \/ RefuseDuringBuild(m)
             PROVE  InLine'
    BY DEF Wait
<1>1. /\ at = "building" /\ inbox # <<>> /\ inbox' = Tail(inbox) /\ m = Head(inbox)
      /\ taken' = IF m.type = "client" THEN Append(taken, m.frame) ELSE taken
      /\ UNCHANGED <<fromClient, reader, passed>> /\ passed = <<>>
    BY DEF Waits, InLine, OneAhead
<1>2. editor'.sent = editor.sent /\ at' # "serve"
    BY <1>1 DEF ForwardOutput, HandOver, PreparationFails, EditorGone,
           DisconnectBuild, RefuseDuringBuild, LeaveGroup, GivesUp, Answer,
           AnswerAndTerminate, IInv, TypeOK, Editors
<1>3. OneAhead'
    BY <1>1, <1>2 DEF InLine, OneAhead
<1>4. InOrder(editor.sent, taken \o passed, inbox, reader.held \o fromClient)
    BY <1>1 DEF InLine, FramesInOrder
<1>5. m.frame \in Frames
    <2>1. m \in Messages
        BY <1>1, Lines, HeadAndTail
    <2> QED BY <2>1 DEF Messages
<1>6. taken' \o passed' = IF m.type = "client" THEN Append(taken \o passed, m.frame)
                                               ELSE taken \o passed
    BY <1>1, <1>5, Lines, EndsOfJoined
<1>7. InOrder(editor.sent, taken' \o passed', inbox', reader.held \o fromClient)
    BY <1>1, <1>4, <1>6, Lines, TakenInOrder
<1> QED BY <1>1, <1>2, <1>3, <1>7 DEF InLine, FramesInOrder

LEMMA EndInLine ==
    IInv /\ InLine /\ (ServeTimeout \/ BuildStops \/ Ends \/ LiveTakes \/ LiveEnds)
        => InLine'
<1> SUFFICES ASSUME IInv, InLine,
                    ServeTimeout \/ BuildStops \/ Ends \/ LiveTakes \/ LiveEnds
             PROVE  InLine'
    OBVIOUS
<1>1. CASE ServeTimeout
    BY <1>1 DEF ServeTimeout, InLine, OneAhead, FramesInOrder
<1>2. CASE BuildStops
    <2>1. editor'.sent = editor.sent
        BY <1>2 DEF BuildStops, Answer, AnswerAndTerminate, IInv, TypeOK,
                    Editors
    <2> QED BY <1>2, <2>1 DEF BuildStops, InLine, OneAhead, FramesInOrder
<1>3. CASE Ends
    BY <1>3 DEF Ends, InLine, OneAhead, FramesInOrder
<1>4. CASE LiveTakes
    <2>1. /\ at = "live" /\ inbox # <<>> /\ inbox' = Tail(inbox)
          /\ at' \in {"live", "failed"}
          /\ at' = "live" => /\ Head(inbox).type = "client"
                             /\ passed' = Append(passed, Head(inbox).frame)
          /\ UNCHANGED <<editor, fromClient, reader, taken>>
        BY <1>4 DEF LiveTakes
    <2>2. OneAhead'
        BY <2>1 DEF InLine, OneAhead
    <2>3. SUFFICES ASSUME at' = "live" PROVE FramesInOrder'
        BY <2>1, <2>2 DEF InLine, FramesInOrder
    <2>4. Head(inbox).frame \in Frames
        <3>1. Head(inbox) \in Messages
            BY <2>1, Lines, HeadAndTail
        <3> QED BY <3>1 DEF Messages
    <2>5. taken' \o passed' = Append(taken \o passed, Head(inbox).frame)
        <3>1. taken \o Append(passed, Head(inbox).frame) =
                  Append(taken \o passed, Head(inbox).frame)
            BY <2>4, Lines, AppendedToJoined, Zenon
        <3> QED BY <2>1, <2>3, <3>1, Zenon
    <2>6. InOrder(editor.sent, taken \o passed, inbox, reader.held \o fromClient)
        BY <2>1 DEF InLine, FramesInOrder
    <2>7. InOrder(editor.sent, taken' \o passed', inbox', reader.held \o fromClient)
        BY <2>1, <2>3, <2>5, <2>6, Lines, TakenInOrder
    <2> QED BY <2>1, <2>7 DEF FramesInOrder
<1>5. CASE LiveEnds
    BY <1>5 DEF LiveEnds, InLine, OneAhead, FramesInOrder
<1> QED BY <1>1, <1>2, <1>3, <1>4, <1>5

LEMMA EditorInLine == IInv /\ InLine /\ (EditorSends \/ EditorLeaves) => InLine'
<1> SUFFICES ASSUME IInv, InLine, NEW f \in Frames, EditorWrites(f) PROVE InLine'
    <2>1. EditorLeaves => Eof \in Frames /\ EditorWrites(Eof)
        BY FrameTypes DEF EditorLeaves
    <2>2. ASSUME IInv, EditorSends
          PROVE  \E f \in Frames : EditorWrites(f)
        <3>1. Len(editor.sent) + 1 \in Requests
            BY <2>2, ConnectionAssumption DEF EditorSends, IInv, TypeOK, Editors, Requests
        <3> QED BY <2>2, <3>1, FrameTypes, ConnectionAssumption DEF EditorSends
    <2> QED BY <2>1, <2>2
<1>1. /\ at \notin {"over", "failed"} /\ fromClient' = Append(fromClient, f)
      /\ UNCHANGED <<at, reader, inbox, taken, passed>>
    BY DEF EditorWrites
<1>2. editor'.sent = Append(editor.sent, f)
    BY DEF EditorWrites, IInv, TypeOK, Editors
<1>3. reader'.held \o fromClient' = Append(reader.held \o fromClient, f)
    <2>1. reader.held \o Append(fromClient, f) = Append(reader.held \o fromClient, f)
        BY Lines, AppendedToJoined, Zenon
    <2> QED BY <1>1, <2>1, Zenon
<1>4. InOrder(editor.sent, taken \o passed, inbox, reader.held \o fromClient)
    BY <1>1 DEF InLine, FramesInOrder
<1>5. InOrder(editor'.sent, taken \o passed, inbox, reader'.held \o fromClient')
    BY <1>2, <1>3, <1>4, Lines, SentInOrder
<1> QED BY <1>1, <1>5 DEF InLine, OneAhead, FramesInOrder

LEMMA NextInLine == IInv /\ InLine /\ [Next]_vars => InLine'
<1>1. InLine /\ UNCHANGED vars => InLine'
    BY DEF InLine, OneAhead, FramesInOrder, vars
<1> QED BY <1>1, ServeInLine, ReaderInLine, BuildInLine, WaitInLine, EndInLine,
           EditorInLine DEF Next

\* Whatever the capacity of the inbox, the reader, the handshake, the build and the
\* hand over to LiveSession pass every frame on, in the order sent
\* (prepare_launch.mbt:65-67).
THEOREM FramesAlwaysInOrder == Spec => []FramesInOrder
<1>1. InLine => FramesInOrder
    BY DEF InLine
<1> QED BY <1>1, InitInLine, NextInLine, Invariant, PTL DEF Spec

-----------------------------------------------------------------------------
(* The answers.                                                               *)

IsRequest(f) == f.command \notin {"eof", "unreadable", "broken"}

\* Frames are numbered as they are sent.
Numbered ==
    \A i \in DOMAIN editor.sent : editor.sent[i] = Eof \/ editor.sent[i].seq = i

\* A launch is asked for before a build; a disconnect during a build leaves; the
\* build is cancelled unless LiveSession is given the launch.
Stages ==
    /\ at = "serve" => session.asked = None /\ (session.finished => session.launch = None)
    /\ at \in {"serve", "building", "stopping"} => EditorStays
    /\ at \in {"building", "stopping", "live"} =>
          session.asked # None /\ session.launch = None
    /\ at \in {"building", "live"} => build.stop # "all"
    /\ at = "stopping" =>
          /\ session.leaving # None /\ session.leaving # session.asked
          /\ build.stop = "all"
    /\ at = "ending" => session.asked # None
    /\ session.asked # None => ~session.finished

\* Nothing but what was handled is owed or answered.
Settled ==
    /\ at \in {"serve", "building", "stopping", "live"} =>
          /\ Owed \subseteq HandledRequests
          /\ \A r \in Requests :
                editor.answers[r] = IF r \in HandledRequests \ Owed THEN 1 ELSE 0
    /\ Ended /\ EditorStays =>
          \A r \in HandledRequests :
              editor.answers[r] = IF HandedOver /\ r = session.asked THEN 0 ELSE 1
    /\ editor.terminated = IF session.finished \/ LaunchLost THEN 1 ELSE 0

Owing == Numbered /\ Stages /\ Settled

LEMMA SettledAnswers ==
    ASSUME IInv, Owing PROVE AnswersOwed
<1>1. \A r \in HandledRequests : r \in Requests
    <2>1. \A i \in DOMAIN taken : taken[i] \in Frames
        BY DEF IInv, TypeOK
    <2> QED BY <2>1, FrameTypes DEF HandledRequests
<1> QED BY <1>1 DEF Owing, Stages, Settled, AnswersOwed

LEMMA AnswerEffect ==
    ASSUME editor \in Editors, NEW S
    PROVE  /\ Answer(S).sent = editor.sent /\ Answer(S).terminated = editor.terminated
           /\ \A r \in Requests : Answer(S).answers[r] =
                 IF r \in S THEN editor.answers[r] + 1 ELSE editor.answers[r]
           /\ AnswerAndTerminate(S).sent = editor.sent
           /\ AnswerAndTerminate(S).terminated = editor.terminated + 1
           /\ AnswerAndTerminate(S).answers = Answer(S).answers
<1>1. /\ Answer(S).sent = editor.sent /\ Answer(S).terminated = editor.terminated
      /\ \A r \in Requests : Answer(S).answers[r] =
            IF r \in S THEN editor.answers[r] + 1 ELSE editor.answers[r]
    BY DEF Answer, Editors
<1>2. Answer(S) \in Editors
    BY AnswerTypes
<1>3. \A e \in Editors : /\ [e EXCEPT !.terminated = @ + 1].sent = e.sent
                         /\ [e EXCEPT !.terminated = @ + 1].terminated = e.terminated + 1
                         /\ [e EXCEPT !.terminated = @ + 1].answers = e.answers
    BY DEF Editors
<1> QED BY <1>1, <1>2, <1>3 DEF AnswerAndTerminate

\* The frame the loop takes is the next that was sent: it has a number that was not
\* handled yet.
LEMMA ServedIsNext ==
    ASSUME IInv, InLine, at = "serve", fromClient # <<>>
    PROVE  /\ Len(taken) + 1 \in DOMAIN editor.sent
           /\ editor.sent[Len(taken) + 1] = Head(fromClient)
<1>1. /\ inbox = <<>> /\ reader.held = <<>> /\ passed = <<>>
      /\ InOrder(editor.sent, taken \o passed, inbox, reader.held \o fromClient)
    BY DEF IInv, NothingEarly, InLine, OneAhead, FramesInOrder
<1>2. taken \o passed = taken /\ reader.held \o fromClient = fromClient
    BY <1>1, Lines, ConcatEmptySeq
<1>3. ClientsIn(inbox, Len(inbox)) = {}
    BY <1>1 DEF ClientsIn
<1>4. Cardinality(ClientsIn(inbox, Len(inbox))) = 0
    BY <1>3, FS_EmptySet
<1>5. InOrder(editor.sent, taken, inbox, fromClient)
    BY <1>1, <1>2
<1>6. /\ Len(fromClient) \in Nat /\ Len(fromClient) > 0 /\ Head(fromClient) = fromClient[1]
      /\ Len(taken) \in Nat /\ DOMAIN fromClient = 1 .. Len(fromClient)
      /\ DOMAIN editor.sent = 1 .. Len(editor.sent)
    BY Lines
<1>7. /\ Len(editor.sent) = Len(taken) + 0 + Len(fromClient)
      /\ \A i \in 1 .. Len(fromClient) : editor.sent[Len(taken) + 0 + i] = fromClient[i]
    BY <1>4, <1>5, <1>6 DEF InOrder
<1>8. 1 \in 1 .. Len(fromClient) /\ Len(taken) + 0 + 1 = Len(taken) + 1
    BY <1>6
<1> QED BY <1>6, <1>7, <1>8

LEMMA WaitedIsNext ==
    ASSUME IInv, InLine, at = "building", inbox # <<>>, Head(inbox).type = "client"
    PROVE  /\ Len(taken) + 1 \in DOMAIN editor.sent
           /\ editor.sent[Len(taken) + 1] = Head(inbox).frame
<1>1. /\ passed = <<>>
      /\ InOrder(editor.sent, taken \o passed, inbox, reader.held \o fromClient)
    BY DEF InLine, OneAhead, FramesInOrder
<1>2. taken \o passed = taken
    BY <1>1, Lines, ConcatEmptySeq
<1>3. Head(inbox).frame \in Frames
    <2>1. Head(inbox) \in Messages
        BY Lines, HeadAndTail
    <2> QED BY <2>1 DEF Messages
<1> DEFINE d == Append(taken, Head(inbox).frame)
           b == Tail(inbox)
           a == reader.held \o fromClient
<1>4. InOrder(editor.sent, d, b, a)
    BY <1>1, <1>2, Lines, TakenInOrder
<1>5. /\ Len(taken) \in Nat /\ Len(d) = Len(taken) + 1 /\ DOMAIN d = 1 .. Len(taken) + 1
      /\ d[Len(taken) + 1] = Head(inbox).frame
    BY <1>3, Lines
<1>6. Cardinality(ClientsIn(b, Len(b))) \in Nat /\ Len(a) \in Nat
    <2>1. Len(b) \in Nat /\ Len(a) \in Nat
        BY Lines
    <2> QED BY <2>1, ClientsCounted
<1> HIDE DEF d, b, a
<1>7. /\ Len(editor.sent) = Len(d) + Cardinality(ClientsIn(b, Len(b))) + Len(a)
      /\ \A i \in DOMAIN d : editor.sent[i] = d[i]
    BY <1>4 DEF InOrder
<1>8. DOMAIN editor.sent = 1 .. Len(editor.sent)
    BY Lines
<1>9. Len(taken) + 1 \in DOMAIN d /\ editor.sent[Len(taken) + 1] = d[Len(taken) + 1]
    BY <1>5, <1>7
<1>10. Len(editor.sent) \in Nat /\ Len(editor.sent) >= Len(taken) + 1
    BY <1>5, <1>6, <1>7
<1> QED BY <1>5, <1>8, <1>9, <1>10

LEMMA NextIsNew ==
    ASSUME IInv, InLine, Numbered, at \in {"serve", "building"}, NEW f \in Frames,
           Len(taken) + 1 \in DOMAIN editor.sent, editor.sent[Len(taken) + 1] = f,
           taken' = Append(taken, f)
    PROVE  /\ IsRequest(f) => f.seq \in Requests \ HandledRequests
           /\ HandledRequests' =
                 IF IsRequest(f) THEN HandledRequests \cup {f.seq} ELSE HandledRequests
           /\ f = Eof => \E i \in DOMAIN taken' : taken'[i] = Eof
           /\ (\E i \in DOMAIN taken : taken[i] = Eof) =>
                 \E i \in DOMAIN taken' : taken'[i] = Eof
<1> DEFINE n == Len(taken)
<1>1. /\ n \in Nat /\ taken \in Seq(Frames) /\ DOMAIN taken = 1 .. n
      /\ DOMAIN taken' = 1 .. n + 1 /\ taken'[n + 1] = f
      /\ \A i \in 1 .. n : taken'[i] = taken[i] /\ taken[i] \in Frames
    BY Lines
<1>2. \A i \in DOMAIN taken : editor.sent[i] = taken[i] /\ i \in DOMAIN editor.sent
    <2>1. /\ InOrder(editor.sent, taken \o passed, inbox, reader.held \o fromClient)
          /\ passed = <<>>
        BY DEF InLine, OneAhead, FramesInOrder
    <2>2. taken \o passed = taken
        BY <2>1, Lines, ConcatEmptySeq
    <2>3. InOrder(editor.sent, taken, inbox, reader.held \o fromClient)
        BY <2>1, <2>2
    <2>4. DOMAIN editor.sent = 1 .. Len(editor.sent) /\ Len(editor.sent) \in Nat
        BY Lines
    <2> QED BY <1>1, <2>3, <2>4 DEF InOrder
<1> HIDE DEF n
<1>3. \A i \in 1 .. n : IsRequest(taken[i]) => taken[i].seq = i
    BY <1>1, <1>2 DEF Numbered, IsRequest, Eof, Frame
<1>4. IsRequest(f) => f.seq = n + 1 /\ f.seq \in Requests
    BY FrameTypes DEF Numbered, IsRequest, Eof, Frame, n
<1>5. HandledRequests = {taken[i].seq : i \in {j \in 1 .. n : IsRequest(taken[j])}}
    BY <1>1 DEF HandledRequests, IsRequest
<1>6. HandledRequests' = {taken'[i].seq : i \in {j \in 1 .. n + 1 : IsRequest(taken'[j])}}
    BY <1>1 DEF HandledRequests, IsRequest
<1>7. f.seq \notin HandledRequests \/ ~IsRequest(f)
    BY <1>1, <1>3, <1>4, <1>5
<1>8. HandledRequests' =
          IF IsRequest(f) THEN HandledRequests \cup {f.seq} ELSE HandledRequests
    BY <1>1, <1>5, <1>6
<1> QED BY <1>1, <1>4, <1>7, <1>8

\* The editor stays until its end of input is taken.
LEMMA Staying ==
    ASSUME TypeOK, NEW f \in Frames, taken' = Append(taken, f), EditorStays
    PROVE  /\ EditorStays' <=> f # Eof
           /\ IsRequest(f) => f # Eof
<1>1. taken \in Seq(Frames)
    BY DEF TypeOK
<1>2. /\ DOMAIN taken = 1 .. Len(taken) /\ Len(taken) \in Nat
      /\ DOMAIN taken' = 1 .. Len(taken) + 1
      /\ \A i \in DOMAIN taken : taken'[i] = taken[i]
      /\ taken'[Len(taken) + 1] = f
    BY <1>1
<1>3. EditorStays' <=> f # Eof
    BY <1>2 DEF EditorStays
<1> QED BY <1>3 DEF IsRequest, Eof, Frame

LEMMA InitOwing == Init => Owing
<1> SUFFICES ASSUME Init PROVE Owing
    OBVIOUS
<1>1. HandledRequests = {} /\ Owed = {} /\ DOMAIN editor.sent = {}
    BY DEF Init, HandledRequests, Owed, None
<1>2. Numbered
    BY <1>1 DEF Numbered
<1> QED BY <1>1, <1>2 DEF Owing, Stages, Settled, Init, None, Ended, EditorStays, LaunchLost

\* What a step is that takes no frame and answers nothing.
LEMMA SilentSettled ==
    ASSUME IInv, Owing, UNCHANGED <<session, taken>>,
           editor'.answers = editor.answers, editor'.terminated = editor.terminated,
           (build'.stop = "all") <=> (build.stop = "all"),
           \/ at' = at
           \/ at = "live" /\ at' \in {"ending", "failed"}
           \/ at = "ending" /\ at' = "over"
           \/ at = "building" /\ at' = "live"
    PROVE  Stages' /\ Settled'
<1>1. HandledRequests' = HandledRequests /\ EditorStays' = EditorStays
    BY DEF HandledRequests, EditorStays
<1>2. at' \in {"serve", "building", "stopping", "live"} => Owed' = Owed
    BY DEF Owed
<1>3. Stages'
    BY <1>1 DEF Owing, Stages
<1>4. (HandedOver' <=> HandedOver) /\ (Ended' <=> at' \in {"ending", "over"})
    BY DEF HandedOver, Ended
<1>5. CASE at = "live"
    <2>1. Owed \subseteq {session.asked} /\ HandedOver /\ session.asked # None
        BY <1>5 DEF Owed, HandedOver, Owing, Stages, IInv, NothingEarly
    <2>2. session.asked \in Owed
        BY <1>5, <2>1 DEF Owed
    <2>3. HandledRequests \subseteq Requests
        <3>1. \A i \in DOMAIN taken : taken[i] \in Frames
            BY DEF IInv, TypeOK
        <3> QED BY <3>1, FrameTypes DEF HandledRequests
    <2>4. ~LaunchLost /\ ~LaunchLost'
        BY <1>4, <2>1 DEF LaunchLost
    <2> QED BY <1>1, <1>2, <1>3, <1>4, <1>5, <2>1, <2>2, <2>3, <2>4 DEF Owing, Settled
<1>6. CASE at # "live"
    <2>1. (Ended' <=> Ended) /\ (LaunchLost' <=> LaunchLost)
        BY <1>1, <1>4, <1>6 DEF LaunchLost, Ended
    <2> QED BY <1>1, <1>2, <1>3, <1>4, <1>6, <2>1 DEF Owing, Settled
<1> QED BY <1>5, <1>6

\* A frame is taken and its request, if it is one, answered at once, perhaps with
\* others that are owed; or it becomes owed.
LEMMA ServeOwing == IInv /\ InLine /\ Owing /\ Serve => Owing'
<1> SUFFICES ASSUME IInv, InLine, Owing, NEW f, fromClient # <<>>, Serves(f),
                    \/ Initialize(f) \/ TestLaunch(f) \/ ConfigurationDone(f)
                    \/ Launch(f) \/ Disconnect(f) \/ Reply(f) \/ StopServing(f)
             PROVE  Owing'
    BY DEF Serve, Serves
<1>1. /\ at = "serve" /\ session.leaving = None /\ session.asked = None
      /\ f = Head(fromClient) /\ taken' = Append(taken, f)
      /\ editor.terminated = (IF session.finished THEN 1 ELSE 0)
      /\ session.finished => session.launch = None
      /\ session \in Sessions /\ editor \in Editors /\ EditorStays
    BY DEF Serves, IInv, TypeOK, NothingEarly, Owing, Stages, Settled, LaunchLost
<1>2. f \in Frames
    BY <1>1, HeadAndTail DEF IInv, TypeOK
<1>14. (EditorStays' <=> f # Eof) /\ (IsRequest(f) => f # Eof)
    BY <1>1, <1>2, Staying DEF IInv
<1>3. /\ IsRequest(f) => f.seq \in Requests \ HandledRequests
      /\ HandledRequests' =
            IF IsRequest(f) THEN HandledRequests \cup {f.seq} ELSE HandledRequests
      /\ f = Eof => \E i \in DOMAIN taken' : taken'[i] = Eof
    BY <1>1, <1>2, ServedIsNext, NextIsNew DEF Owing
<1>4. /\ Owed = {session.launch} \ {None} /\ Owed \subseteq HandledRequests
      /\ \A r \in Requests :
            editor.answers[r] = IF r \in HandledRequests \ Owed THEN 1 ELSE 0
    BY <1>1 DEF Owed, Owing, Settled
<1>5. HandledRequests \subseteq Requests /\ None \notin Requests
    <2>1. \A i \in DOMAIN taken : taken[i] \in Frames
        BY DEF IInv, TypeOK
    <2> QED BY <2>1, FrameTypes DEF HandledRequests, None, Requests
<1>6. \A S : /\ Answer(S).sent = editor.sent /\ Answer(S).terminated = editor.terminated
             /\ \A r \in Requests : Answer(S).answers[r] =
                   IF r \in S THEN editor.answers[r] + 1 ELSE editor.answers[r]
             /\ AnswerAndTerminate(S).sent = editor.sent
             /\ AnswerAndTerminate(S).terminated = editor.terminated + 1
             /\ AnswerAndTerminate(S).answers = Answer(S).answers
    BY <1>1, AnswerEffect
<1>7. Numbered'
    <2>1. editor'.sent = editor.sent
        BY <1>6 DEF Initialize, TestLaunch, ConfigurationDone, Launch, Disconnect, Reply,
                    StopServing
    <2> QED BY <2>1 DEF Owing, Numbered
<1> USE DEF Owing
<1>8. CASE Initialize(f) \/ Reply(f)
    <2>1. /\ at' = at /\ editor' = Answer({f.seq}) /\ IsRequest(f)
          /\ session'.launch = session.launch /\ session'.asked = session.asked
          /\ session'.leaving = session.leaving /\ session'.finished = session.finished
        BY <1>1, <1>8 DEF Initialize, Reply, KeepServing, Sessions, IsRequest
    <2>2. Stages'
        BY <1>1, <1>14, <1>6, <2>1 DEF Stages
    <2>3. Owed' = Owed
        BY <1>1, <2>1 DEF Owed
    <2>4. Settled'
        BY <1>1, <1>14, <1>3, <1>4, <1>5, <1>6, <2>1, <2>3
           DEF Settled, Ended, LaunchLost, HandedOver
    <2> QED BY <1>7, <2>2, <2>4
<1>9. CASE TestLaunch(f)
    <2>1. /\ at' = at /\ editor' = editor /\ IsRequest(f)
          /\ session'.launch = f.seq /\ session'.asked = session.asked
          /\ session'.leaving = session.leaving /\ session'.finished = session.finished
          /\ session.launch = None /\ ~session.finished
        BY <1>1, <1>9 DEF TestLaunch, CanLaunch, KeepServing, Sessions, IsRequest
    <2>2. Stages'
        BY <1>1, <1>14, <2>1 DEF Stages
    <2>3. Owed' = {f.seq} /\ Owed = {}
        BY <1>1, <1>3, <1>4, <1>5, <2>1 DEF Owed
    <2>4. Settled'
        BY <1>1, <1>14, <1>3, <1>4, <1>5, <2>1, <2>3 DEF Settled, Ended, LaunchLost, HandedOver
    <2> QED BY <1>7, <2>2, <2>4
<1>10. CASE ConfigurationDone(f)
    <2>1. /\ at' = at /\ editor' = AnswerAndTerminate({f.seq, session.launch})
          /\ IsRequest(f)
          /\ session'.launch = None /\ session'.asked = session.asked
          /\ session'.leaving = session.leaving /\ session'.finished
          /\ session.launch # None /\ ~session.finished
        BY <1>1, <1>10 DEF ConfigurationDone, KeepServing, Sessions, IsRequest
    <2>2. Stages'
        BY <1>1, <1>14, <1>6, <2>1 DEF Stages
    <2>3. Owed' = {} /\ Owed = {session.launch}
        BY <1>1, <1>4, <2>1 DEF Owed
    <2>4. Settled'
        BY <1>1, <1>14, <1>3, <1>4, <1>5, <1>6, <2>1, <2>3
           DEF Settled, Ended, LaunchLost, HandedOver
    <2> QED BY <1>7, <2>2, <2>4
<1>11. CASE Launch(f)
    <2>1. /\ at' = "building" /\ editor' = editor /\ IsRequest(f)
          /\ session'.launch = session.launch /\ session'.asked = f.seq
          /\ session'.leaving = session.leaving
          /\ session.launch = None /\ ~session.finished /\ ~session'.finished
          /\ build'.stop # "all"
        BY <1>1, <1>11 DEF Launch, CanLaunch, Sessions, IsRequest, NoBuild
    <2>2. Stages'
        BY <1>1, <1>14, <1>3, <1>5, <2>1 DEF Stages
    <2>3. Owed' = {f.seq} /\ Owed = {}
        BY <1>1, <1>3, <1>4, <1>5, <2>1 DEF Owed
    <2>4. Settled'
        BY <1>1, <1>14, <1>3, <1>4, <1>5, <2>1, <2>3 DEF Settled, Ended, LaunchLost, HandedOver
    <2> QED BY <1>7, <2>2, <2>4
<1>12. CASE Disconnect(f)
    <2>1. /\ at' = "over" /\ editor' = Answer({f.seq, session.launch} \cap Requests)
          /\ IsRequest(f) /\ session'.asked = session.asked
          /\ session'.leaving = session.leaving /\ session'.finished = session.finished
        BY <1>1, <1>12 DEF Disconnect, Sessions, IsRequest
    <2>2. Stages'
        BY <1>1, <1>14, <1>6, <2>1 DEF Stages
    <2>3. \A r \in HandledRequests' : editor'.answers[r] = 1
        BY <1>1, <1>3, <1>4, <1>5, <1>6, <2>1
    <2>4. editor'.terminated = editor.terminated
        BY <1>6, <2>1
    <2>5. Settled'
        BY <1>1, <1>14, <2>1, <2>3, <2>4 DEF Settled, Ended, LaunchLost, HandedOver
    <2> QED BY <1>7, <2>2, <2>5
<1>13. CASE StopServing(f)
    <2>1. /\ at' \in {"over", "failed"} /\ editor' = editor /\ session' = session
          /\ at' = "over" => f = Eof
        BY <1>2, <1>13, FrameTypes DEF StopServing, Frames, AllCommands
    <2>2. Stages'
        BY <1>1, <1>14, <2>1 DEF Stages
    <2>3. at' = "over" => ~EditorStays'
        BY <1>14, <2>1
    <2>4. Settled'
        BY <1>1, <1>14, <2>1, <2>3 DEF Settled, Ended, LaunchLost, HandedOver
    <2> QED BY <1>7, <2>2, <2>4
<1> QED BY <1>8, <1>9, <1>10, <1>11, <1>12, <1>13

LEMMA WaitOwing == IInv /\ InLine /\ Owing /\ Wait => Owing'
<1> SUFFICES ASSUME IInv, InLine, Owing, NEW m, Waits(m),
                    \/ ForwardOutput(m) \/ HandOver(m) \/ PreparationFails(m)
                    \/ EditorGone(m) \/ DisconnectBuild(m) \/ RefuseDuringBuild(m)
             PROVE  Owing'
    BY DEF Wait
<1>1. /\ at = "building" /\ inbox # <<>> /\ m = Head(inbox)
      /\ taken' = IF m.type = "client" THEN Append(taken, m.frame) ELSE taken
      /\ session.leaving = None /\ session.asked # None /\ session.launch = None
      /\ editor.terminated = 0 /\ session \in Sessions /\ editor \in Editors
      /\ ~session.finished /\ EditorStays /\ build.stop # "all" /\ build \in Builds
    BY DEF Waits, IInv, TypeOK, NothingEarly, Owing, Stages, Settled, LaunchLost, Ended
<1>2. m.frame \in Frames
    <2>1. m \in Messages
        BY <1>1, Lines, HeadAndTail
    <2> QED BY <2>1 DEF Messages
<1>3. m.type = "client" =>
          /\ IsRequest(m.frame) => m.frame.seq \in Requests \ HandledRequests
          /\ HandledRequests' = IF IsRequest(m.frame)
                                THEN HandledRequests \cup {m.frame.seq}
                                ELSE HandledRequests
    BY <1>1, <1>2, WaitedIsNext, NextIsNew DEF Owing
<1>4. m.type # "client" =>
          taken' = taken /\ HandledRequests' = HandledRequests /\ EditorStays'
    BY <1>1 DEF HandledRequests, EditorStays
<1>15. m.type = "client" => (EditorStays' <=> m.frame # Eof)
                            /\ (IsRequest(m.frame) => m.frame # Eof)
    BY <1>1, <1>2, Staying DEF IInv
<1>5. /\ Owed = {session.asked} /\ session.asked \in HandledRequests
      /\ \A r \in Requests :
            editor.answers[r] = IF r \in HandledRequests \ Owed THEN 1 ELSE 0
    BY <1>1 DEF Owed, Owing, Settled
<1>6. HandledRequests \subseteq Requests /\ None \notin Requests
    <2>1. \A i \in DOMAIN taken : taken[i] \in Frames
        BY DEF IInv, TypeOK
    <2> QED BY <2>1, FrameTypes DEF HandledRequests, None, Requests
<1>7. \A S : /\ Answer(S).sent = editor.sent /\ Answer(S).terminated = editor.terminated
             /\ \A r \in Requests : Answer(S).answers[r] =
                   IF r \in S THEN editor.answers[r] + 1 ELSE editor.answers[r]
             /\ AnswerAndTerminate(S).sent = editor.sent
             /\ AnswerAndTerminate(S).terminated = editor.terminated + 1
             /\ AnswerAndTerminate(S).answers = Answer(S).answers
    BY <1>1, AnswerEffect
<1>8. Numbered'
    <2>1. editor'.sent = editor.sent
        BY <1>7 DEF ForwardOutput, HandOver, PreparationFails, EditorGone,
                    DisconnectBuild, RefuseDuringBuild, GivesUp
    <2> QED BY <2>1 DEF Owing, Numbered
<1> USE DEF Owing
<1>16. CancelBuild => build'.stop = "all"
    BY <1>1 DEF CancelBuild, Builds
\* The launch comes to nothing, and the editor is told if it is still there.
<1>9. ASSUME at' = "ending", session' = session, build'.stop = "all",
             HandledRequests' = HandledRequests,
             EditorStays' => editor' = AnswerAndTerminate({session.asked}),
             ~EditorStays' => editor' = editor
      PROVE  Owing'
    <2>1. Stages'
        BY <1>1, <1>9 DEF Stages
    <2>2. ~HandedOver' /\ (LaunchLost' <=> EditorStays')
        BY <1>1, <1>9 DEF HandedOver, LaunchLost, Ended
    <2>3. EditorStays' =>
              /\ editor'.terminated = 1
              /\ \A r \in HandledRequests : editor'.answers[r] = 1
        BY <1>1, <1>5, <1>6, <1>7, <1>9
    <2>4. Settled'
        BY <1>1, <1>9, <2>2, <2>3 DEF Settled
    <2> QED BY <1>8, <2>1, <2>4
<1>10. CASE ForwardOutput(m)
    <2>1. /\ at' = at /\ session' = session /\ editor' = editor /\ taken' = taken
          /\ build' = build
        BY <1>4, <1>10 DEF ForwardOutput
    <2> QED BY <1>8, <2>1, SilentSettled
<1>11. CASE HandOver(m)
    <2>1. session' = session /\ taken' = taken /\ EditorStays'
          /\ HandledRequests' = HandledRequests
        BY <1>4, <1>11 DEF HandOver
    <2>2. CASE at' = "live" /\ editor' = editor /\ build' = build
        BY <1>1, <1>8, <2>1, <2>2, SilentSettled
    <2>3. CASE LeaveGroup /\ editor' = GivesUp
        BY <1>9, <1>16, <2>1, <2>3 DEF LeaveGroup, GivesUp
    <2> QED BY <1>11, <2>2, <2>3 DEF HandOver
<1>12. CASE PreparationFails(m)
    <2>1. EditorStays' /\ HandledRequests' = HandledRequests
        BY <1>3, <1>4, <1>12, <1>15 DEF PreparationFails, IsRequest, Eof, Frame
    <2> QED BY <1>9, <1>12, <1>16, <2>1 DEF PreparationFails, LeaveGroup, GivesUp
<1>17. CASE EditorGone(m)
    <2>1. ~EditorStays' /\ HandledRequests' = HandledRequests
        BY <1>3, <1>15, <1>17 DEF EditorGone, IsRequest, Eof, Frame
    <2> QED BY <1>9, <1>16, <1>17, <2>1 DEF EditorGone, LeaveGroup
<1>13. CASE DisconnectBuild(m)
    <2>1. /\ m.type = "client" /\ at' = "stopping" /\ editor' = editor
          /\ IsRequest(m.frame)
          /\ session'.leaving = m.frame.seq /\ session'.asked = session.asked
          /\ session'.launch = session.launch /\ ~session'.finished
          /\ build'.stop = "all"
        BY <1>1, <1>13, <1>16 DEF DisconnectBuild, Sessions, IsRequest
    <2>2. Stages'
        BY <1>1, <1>15, <1>3, <1>5, <1>6, <2>1 DEF Stages
    <2>3. Owed' = {session.asked, m.frame.seq}
        BY <1>1, <1>3, <1>6, <2>1 DEF Owed
    <2>4. Settled'
        BY <1>1, <1>3, <1>5, <1>6, <2>1, <2>3 DEF Settled, Ended, LaunchLost
    <2> QED BY <1>8, <2>2, <2>4
<1>14. CASE RefuseDuringBuild(m)
    <2>1. /\ m.type = "client" /\ at' = at /\ session' = session /\ build' = build
          /\ editor' = Answer({m.frame.seq}) /\ IsRequest(m.frame)
        BY <1>14 DEF RefuseDuringBuild, IsRequest
    <2>2. Stages'
        BY <1>1, <1>7, <1>15, <2>1 DEF Stages
    <2>3. Owed' = Owed
        BY <2>1 DEF Owed
    <2>4. Settled'
        BY <1>1, <1>3, <1>5, <1>6, <1>7, <2>1, <2>3 DEF Settled, Ended, LaunchLost
    <2> QED BY <1>8, <2>2, <2>4
<1> QED BY <1>10, <1>11, <1>12, <1>13, <1>14, <1>17

LEMMA EndOwing ==
    IInv /\ Owing /\ (ServeTimeout \/ BuildStops \/ Ends \/ LiveTakes \/ LiveEnds)
        => Owing'
<1> SUFFICES ASSUME IInv, Owing,
                    ServeTimeout \/ BuildStops \/ Ends \/ LiveTakes \/ LiveEnds
             PROVE  Owing'
    OBVIOUS
<1>1. editor'.sent = editor.sent /\ taken' = taken /\ session' = session
    <2>1. editor' = editor \/ editor' = AnswerAndTerminate({session.asked, session.leaving})
        BY DEF ServeTimeout, BuildStops, Ends, LiveTakes, LiveEnds
    <2>2. editor \in Editors
        BY DEF IInv, TypeOK
    <2>3. editor'.sent = editor.sent
        BY <2>1, <2>2, AnswerEffect
    <2> QED BY <2>3 DEF ServeTimeout, BuildStops, Ends, LiveTakes, LiveEnds
<1>2. Numbered'
    BY <1>1 DEF Owing, Numbered
<1>3. HandledRequests' = HandledRequests /\ EditorStays' = EditorStays
    BY <1>1 DEF HandledRequests, EditorStays
<1>4. CASE ServeTimeout
    <2>1. /\ at = "serve" /\ editor' = editor
          /\ at' = IF session.finished THEN "over" ELSE "failed"
        BY <1>4 DEF ServeTimeout
    <2>2. Stages'
        BY <1>1, <1>3, <2>1 DEF Owing, Stages
    <2>3. session.asked = None /\ session.leaving = None
          /\ (session.finished => session.launch = None)
        BY <2>1 DEF Owing, Stages, IInv, NothingEarly
    <2>4. at' = "over" => \A r \in HandledRequests : editor.answers[r] = 1
        <3>1. at' = "over" => Owed = {}
            BY <2>1, <2>3 DEF Owed
        <3>2. HandledRequests \subseteq Requests
            <4>1. \A i \in DOMAIN taken : taken[i] \in Frames
                BY DEF IInv, TypeOK
            <4> QED BY <4>1, FrameTypes DEF HandledRequests
        <3> QED BY <2>1, <3>1, <3>2 DEF Owing, Settled
    <2>5. Settled'
        BY <1>1, <1>3, <2>1, <2>3, <2>4 DEF Owing, Settled, Ended, LaunchLost, HandedOver
    <2> QED BY <1>2, <2>2, <2>5 DEF Owing
<1>5. CASE BuildStops
    <2>1. /\ at = "stopping" /\ at' = "ending"
          /\ editor' = AnswerAndTerminate({session.asked, session.leaving})
          /\ build' = build
        BY <1>5 DEF BuildStops
    <2>2. /\ session.asked # None /\ session.leaving # None /\ session.launch = None
          /\ ~session.finished /\ build.stop = "all" /\ EditorStays
          /\ editor.terminated = 0 /\ editor \in Editors
        BY <2>1 DEF Owing, Stages, Settled, LaunchLost, Ended, IInv, TypeOK
    <2>3. /\ editor'.terminated = editor.terminated + 1
          /\ \A r \in Requests : editor'.answers[r] =
                IF r \in {session.asked, session.leaving} THEN editor.answers[r] + 1
                                                          ELSE editor.answers[r]
        BY <2>1, <2>2, AnswerEffect
    <2>4. Stages'
        BY <1>1, <1>3, <2>1, <2>2, <2>3 DEF Stages
    <2>5. HandledRequests \subseteq Requests
        <3>1. \A i \in DOMAIN taken : taken[i] \in Frames
            BY DEF IInv, TypeOK
        <3> QED BY <3>1, FrameTypes DEF HandledRequests
    <2>6. Owed = {session.asked, session.leaving}
        BY <2>1, <2>2 DEF Owed
    <2>7. \A r \in HandledRequests : editor'.answers[r] = 1
        BY <2>1, <2>3, <2>5, <2>6 DEF Owing, Settled
    <2>8. ~HandedOver' /\ LaunchLost'
        BY <1>1, <1>3, <2>1, <2>2 DEF HandedOver, LaunchLost, Ended
    <2>9. Settled'
        BY <1>1, <1>3, <2>1, <2>2, <2>3, <2>7, <2>8 DEF Settled
    <2> QED BY <1>2, <2>4, <2>9 DEF Owing
<1>6. CASE Ends \/ LiveTakes \/ LiveEnds
    <2>1. /\ editor' = editor /\ build' = build
          /\ \/ at' = at
             \/ at = "live" /\ at' \in {"ending", "failed"}
             \/ at = "ending" /\ at' = "over"
        BY <1>6 DEF Ends, LiveTakes, LiveEnds
    <2>3. Stages' /\ Settled'
        BY <1>1, <2>1, SilentSettled
    <2> QED BY <1>2, <2>3 DEF Owing
<1> QED BY <1>4, <1>5, <1>6

LEMMA OthersOwing ==
    IInv /\ Owing /\ (ReaderReads \/ ReaderPuts \/ BuildStep \/ CancelStep) => Owing'
<1> SUFFICES ASSUME IInv, Owing, ReaderReads \/ ReaderPuts \/ BuildStep \/ CancelStep
             PROVE  Owing'
    OBVIOUS
<1>1. UNCHANGED <<at, session, editor, taken>>
    BY DEF ReaderReads, ReaderPuts, BuildStep, CancelStep, BuildSteps, OpenPackage,
           StartMoon, Decide, Read, PutChunk, StreamEnds, Overflow, MoonExits, StreamCancelled, Kill,
           MoonReturns, Report, BuildCancelled
<1>2. Numbered'
    BY <1>1 DEF Owing, Numbered
<1>3. (build'.stop = "all") <=> (build.stop = "all")
    BY DEF ReaderReads, ReaderPuts, BuildStep, CancelStep, BuildSteps, OpenPackage,
           StartMoon, Decide, Read, PutChunk, StreamEnds, Overflow, MoonExits, StreamCancelled, Kill,
           MoonReturns, Report, BuildCancelled, IInv, TypeOK, Builds
<1>4. Stages' /\ Settled'
    BY <1>1, <1>3, SilentSettled
<1> QED BY <1>2, <1>4 DEF Owing

LEMMA EditorOwing == IInv /\ Owing /\ (EditorSends \/ EditorLeaves) => Owing'
<1> SUFFICES ASSUME IInv, Owing, NEW f, EditorWrites(f),
                    f = Eof \/ f.seq = Len(editor.sent) + 1
             PROVE  Owing'
    <2>1. EditorLeaves => EditorWrites(Eof)
        BY DEF EditorLeaves
    <2>2. EditorSends => \E f : f.seq = Len(editor.sent) + 1 /\ EditorWrites(f)
        BY DEF EditorSends, Frame
    <2> QED BY <2>1, <2>2
<1>1. UNCHANGED <<at, session, taken, build>>
    BY DEF EditorWrites
<1>2. /\ editor'.sent = Append(editor.sent, f) /\ editor'.answers = editor.answers
      /\ editor'.terminated = editor.terminated
    BY DEF EditorWrites, IInv, TypeOK, Editors
<1>3. Numbered'
    <2>1. /\ Len(editor.sent) \in Nat /\ DOMAIN editor.sent = 1 .. Len(editor.sent)
          /\ DOMAIN editor'.sent = 1 .. Len(editor.sent) + 1
          /\ editor'.sent[Len(editor.sent) + 1] = f
          /\ \A i \in 1 .. Len(editor.sent) : editor'.sent[i] = editor.sent[i]
        BY <1>2, Lines
    <2> QED BY <2>1 DEF Owing, Numbered
<1>4. Stages' /\ Settled'
    BY <1>1, <1>2, SilentSettled
<1> QED BY <1>3, <1>4 DEF Owing

LEMMA NextOwing == IInv /\ InLine /\ Owing /\ [Next]_vars => Owing'
<1>1. ASSUME IInv, Owing, UNCHANGED vars PROVE Owing'
    <2>1. Numbered'
        BY <1>1 DEF Owing, Numbered, vars
    <2>2. Stages' /\ Settled'
        BY <1>1, SilentSettled DEF vars
    <2> QED BY <2>1, <2>2 DEF Owing
<1> QED BY <1>1, ServeOwing, WaitOwing, EndOwing, OthersOwing, EditorOwing DEF Next

\* Each request the session has handled is answered once or still owed; at the end
\* none is owed to an editor that is still there, but the launch LiveSession was
\* given, and `terminated` was sent once if a launch came to nothing or a connection
\* test was finished: whatever came between, a build that failed or was cancelled, an
\* unreadable frame, a missing adapter (session.mbt:103-255, prepare_launch.mbt:134-195,
\* live_server.mbt:15-26).
THEOREM AnswersAlwaysOwed == Spec => []AnswersOwed
<1>1. IInv /\ Owing => AnswersOwed
    BY SettledAnswers
<1> QED BY <1>1, InitInLine, NextInLine, InitOwing, NextOwing, Invariant, PTL DEF Spec

=============================================================================
