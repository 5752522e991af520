------------------------- MODULE ConnectionSession -------------------------
(***************************************************************************)
(* The session of the VS Code frontend before a target runs (server.mbt,   *)
(* session.mbt, prepare_launch.mbt of src/dap_frontend): the handshake,    *)
(* the connection test that runs no program, and the build of a launch     *)
(* with its cancellation, up to the hand over to LiveSession.              *)
(*                                                                         *)
(* During a build three kinds of tasks share a bounded inbox: the reader   *)
(* of the editor's frames, which outlives the build, the build itself, and *)
(* the two streams of the moon process it runs.  The loop alone takes from *)
(* the inbox, and it waits for the build while nobody empties it.          *)
(***************************************************************************)
EXTENDS Integers, Sequences, FiniteSets

CONSTANTS
    MaxRequests,   \* frames the editor sends
    Commands,      \* what they may be, a subset of AllCommands
    Capacity,      \* of the inbox (128 in the code)
    MaxOutput      \* chunks of output one build prints

\* "other" is any command of the session that only gets an answer;
\* "unreadable" is a frame without a valid request, "broken" is no frame.
AllCommands == {"initialize", "testLaunch", "launch", "configurationDone",
                "other", "disconnect", "unreadable", "broken"}

ASSUME ConnectionAssumption ==
    /\ MaxRequests \in Nat /\ MaxOutput \in Nat /\ Capacity \in Nat \ {0}
    /\ Commands \subseteq AllCommands

VARIABLES
    at,          \* "serve", "building", "stopping", "ending", "live", "over", "failed"
    session,     \* ConnectionSession and the launch that is being prepared
    editor,      \* frames the editor has sent and what it was told
    fromClient,  \* editor -> reader
    reader,      \* input_task
    inbox,       \* the queue of LiveInput
    build,       \* the preparation and the moon process it runs
    taken,       \* frames the loop has handled, in order
    passed       \* frames LiveSession has been given, in order

vars == <<at, session, editor, fromClient, reader, inbox, build, taken, passed>>

-----------------------------------------------------------------------------
(* Data.                                                                    *)

None == 0                         \* no request
Requests == 1 .. MaxRequests
Streams == {"stdout", "stderr"}
MoonRuns == 2                     \* moon check, then moon run --build-only

Frame(seq, command) == [seq |-> seq, command |-> command]
Eof == Frame(None, "eof")

Client(frame) == [type |-> "client", frame |-> frame, ok |-> TRUE]
Output == [type |-> "output", frame |-> Eof, ok |-> TRUE]
Prepared(ok) == [type |-> "prepared", frame |-> Eof, ok |-> ok]

NoBuild == [task |-> "done", moons |-> 0, process |-> "none", ok |-> TRUE,
            streams |-> [s \in Streams |-> "closed"], left |-> 0, stop |-> "no"]

Init ==
    /\ at = "serve"
    /\ session = [initialized |-> FALSE, launch |-> None, finished |-> FALSE,
                  asked |-> None, leaving |-> None]
    /\ editor = [sent |-> <<>>, answers |-> [r \in Requests |-> 0],
                 terminated |-> 0, left |-> FALSE]
    /\ fromClient = <<>> /\ inbox = <<>> /\ taken = <<>> /\ passed = <<>>
    /\ reader = [pc |-> "off", held |-> <<>>]
    /\ build = NoBuild

\* A response to each request of S, and `terminated` after them.
Answer(S) == [editor EXCEPT !.answers =
                 [r \in Requests |-> IF r \in S THEN @[r] + 1 ELSE @[r]]]
AnswerAndTerminate(S) == [Answer(S) EXCEPT !.terminated = @ + 1]

-----------------------------------------------------------------------------
(* serve: one frame at a time, no other task.                               *)

Serves(f) ==
    /\ at = "serve" /\ fromClient # <<>> /\ f = Head(fromClient)
    /\ fromClient' = Tail(fromClient)
    /\ taken' = Append(taken, f)
    /\ UNCHANGED <<inbox, passed>>

KeepServing == UNCHANGED <<at, reader, build>>

\* A path format or an origin moondbg does not have is refused.
Initialize(f) ==
    /\ f.command = "initialize" /\ ~session.initialized
    /\ \E supported \in BOOLEAN :
          session' = [session EXCEPT !.initialized = supported]
    /\ editor' = Answer({f.seq})
    /\ KeepServing

CanLaunch == session.initialized /\ session.launch = None /\ ~session.finished

\* The answer to a connection test's launch waits for configurationDone.
TestLaunch(f) ==
    /\ f.command = "testLaunch" /\ CanLaunch
    /\ session' = [session EXCEPT !.launch = f.seq]
    /\ UNCHANGED editor
    /\ KeepServing

ConfigurationDone(f) ==
    /\ f.command = "configurationDone"
    /\ session.initialized /\ ~session.finished /\ session.launch # None
    /\ session' = [session EXCEPT !.launch = None, !.finished = TRUE]
    /\ editor' = AnswerAndTerminate({f.seq, session.launch})
    /\ KeepServing

\* serve_launch: from here on the reader is a task of its own.
Launch(f) ==
    /\ f.command = "launch" /\ CanLaunch
    /\ at' = "building"
    /\ session' = [session EXCEPT !.asked = f.seq]
    /\ reader' = [pc |-> "reading", held |-> <<>>]
    /\ build' = [NoBuild EXCEPT !.task = "opening", !.left = MaxOutput]
    /\ UNCHANGED editor

Disconnect(f) ==
    /\ f.command = "disconnect"
    /\ at' = "over"
    /\ editor' = Answer({f.seq, session.launch} \cap Requests)
    /\ session' = [session EXCEPT !.launch = None]
    /\ UNCHANGED <<reader, build>>

\* Everything else is answered, with a result or with an error.
Reply(f) ==
    /\ f.command \notin {"disconnect", "eof", "unreadable", "broken"}
    /\ f.command = "initialize" => session.initialized
    /\ f.command \in {"testLaunch", "launch"} => ~CanLaunch
    /\ f.command = "configurationDone" =>
          ~session.initialized \/ session.finished \/ session.launch = None
    /\ editor' = Answer({f.seq})
    /\ UNCHANGED session
    /\ KeepServing

\* The end of the input ends the session, an unreadable frame fails it.
StopServing(f) ==
    /\ f.command \in {"eof", "unreadable", "broken"}
    /\ at' = IF f.command = "eof" THEN "over" ELSE "failed"
    /\ UNCHANGED <<session, editor, reader, build>>

Serve ==
    \E f \in {Head(fromClient) : i \in DOMAIN fromClient} :
        /\ Serves(f)
        /\ \/ Initialize(f) \/ TestLaunch(f) \/ ConfigurationDone(f)
           \/ Launch(f) \/ Disconnect(f) \/ Reply(f) \/ StopServing(f)

\* Fifteen seconds without a frame, or three after the connection test.
ServeTimeout ==
    /\ at = "serve" /\ (session.finished \/ fromClient = <<>>)
    /\ at' = IF session.finished THEN "over" ELSE "failed"
    /\ UNCHANGED <<session, editor, fromClient, reader, inbox, build, taken, passed>>

-----------------------------------------------------------------------------
(* The inbox and the tasks that put into it.  A put waits for room.          *)

\* Mutation: one message too many.
HasRoomForOneMore == Len(inbox) <= Capacity
HasRoom == Len(inbox) < Capacity
Put(m) == HasRoom /\ inbox' = Append(inbox, m)

Running == at \notin {"serve", "over", "failed"}

ReaderReads ==
    /\ Running /\ reader.pc = "reading" /\ fromClient # <<>>
    /\ reader' = [pc |-> "putting", held |-> <<Head(fromClient)>>]
    /\ fromClient' = Tail(fromClient)
    /\ UNCHANGED <<at, session, editor, inbox, build, taken, passed>>

\* What the reader does with the frame it holds.
\* Mutation: a frame that finds the inbox full is dropped.
DeliverOrDrop(f) == inbox' = IF HasRoom THEN Append(inbox, Client(f)) ELSE inbox
Deliver(f) == Put(Client(f))

\* The end of the input and a broken stream are the reader's last messages.
ReaderPuts ==
    /\ Running /\ reader.pc = "putting"
    /\ Deliver(reader.held[1])
    /\ reader' = [held |-> <<>>,
                  pc |-> IF reader.held[1].command \in {"eof", "broken"}
                         THEN "done" ELSE "reading"]
    /\ UNCHANGED <<at, session, editor, fromClient, build, taken, passed>>

-----------------------------------------------------------------------------
(* The build (prepare_launch and run_moon).                                  *)

BuildSteps(b) ==
    /\ Running /\ build' = b
    /\ UNCHANGED <<at, session, editor, fromClient, reader, taken, passed>>

\* A package is announced before anything is run for it.
OpenPackage ==
    /\ build.task = "opening" /\ build.stop = "no"
    /\ Put(Output)
    /\ BuildSteps([build EXCEPT !.task = "starting"])

\* Each run of moon is announced before its process is started.
StartMoon ==
    /\ build.task = "starting" /\ build.moons < MoonRuns /\ build.stop = "no"
    /\ Put(Output)
    /\ BuildSteps([build EXCEPT !.task = "waiting", !.process = "running",
                                !.streams = [s \in Streams |-> "open"]])

\* An executable needs no moon, a package both runs, and its success is
\* announced; either may be refused.
Succeeded == build.task = "starting" /\ build.moons = MoonRuns
Decide(ok) ==
    /\ build.task \in {"opening", "starting"} /\ build.stop = "no"
    /\ ok => build.task = "opening" \/ Succeeded
    /\ IF ok /\ Succeeded THEN Put(Output) ELSE UNCHANGED inbox
    /\ BuildSteps([build EXCEPT !.task = "reporting", !.ok = ok])

\* stream_build_output: a chunk is read, then put, which may block.
Read(s) ==
    /\ build.streams[s] = "open" /\ build.left > 0 /\ build.stop = "no"
    /\ BuildSteps([build EXCEPT !.streams[s] = "putting", !.left = @ - 1])
    /\ UNCHANGED inbox

PutChunk(s) ==
    /\ build.streams[s] = "putting" /\ build.stop = "no"
    /\ Put(Output)
    /\ BuildSteps([build EXCEPT !.streams[s] = "open"])

StreamEnds(s) ==
    /\ build.streams[s] = "open" /\ build.process = "exited"
    /\ BuildSteps([build EXCEPT !.streams[s] = "closed"])
    /\ UNCHANGED inbox

\* More than 16 MiB on stdout: the error cancels the group of this run.
Overflow ==
    /\ build.streams["stdout"] = "open" /\ build.stop = "no"
    /\ BuildSteps([build EXCEPT !.stop = "run", !.ok = FALSE])
    /\ UNCHANGED inbox

MoonExits ==
    /\ build.process = "running"
    /\ \E ok \in BOOLEAN :
          BuildSteps([build EXCEPT !.process = "exited", !.ok = ok /\ @])
    /\ UNCHANGED inbox

\* Cancellation ends a stream wherever it is, at a blocked put too.
\* Mutation: a stream that waits for room is not woken.
CancelsReads(state) == state = "open"
Cancels(state) == state \in {"open", "putting"}
StreamCancelled(s) ==
    /\ build.stop # "no" /\ Cancels(build.streams[s])
    /\ BuildSteps([build EXCEPT !.streams[s] = "closed"])
    /\ UNCHANGED inbox

\* cancel_build_group: the whole process group is killed and waited for.
Kill ==
    /\ build.stop # "no" /\ build.process = "running"
    /\ BuildSteps([build EXCEPT !.process = "exited", !.ok = FALSE])
    /\ UNCHANGED inbox

\* What the run of moon waits for before it returns.
\* Mutation: the task for stderr is not awaited.
MoonGone == build.process = "exited" /\ build.streams["stdout"] = "closed"
MoonDone == /\ build.process = "exited"
            /\ \A s \in Streams : build.streams[s] = "closed"

MoonReturns ==
    /\ build.task = "waiting" /\ MoonDone /\ build.stop # "all"
    /\ BuildSteps([build EXCEPT !.task = IF build.ok THEN "starting" ELSE "reporting",
                                !.moons = @ + 1, !.stop = "no",
                                !.process = "none"])
    /\ UNCHANGED inbox

Report ==
    /\ build.task = "reporting" /\ build.stop # "all"
    /\ Put(Prepared(build.ok))
    /\ BuildSteps([build EXCEPT !.task = "done"])

\* A cancelled preparation returns when what it started is gone.
\* Mutation: it returns at once.
UnwoundAtOnce == build.task # "done"
Unwound == \/ build.task \in {"opening", "starting", "reporting"}
           \/ build.task = "waiting" /\ MoonDone
BuildCancelled ==
    /\ build.stop = "all" /\ Unwound
    /\ BuildSteps([build EXCEPT !.task = "done"])
    /\ UNCHANGED inbox

BuildStep ==
    \/ OpenPackage \/ StartMoon \/ Overflow \/ MoonExits \/ MoonReturns \/ Report
    \/ \E ok \in BOOLEAN : Decide(ok)
    \/ \E s \in Streams : Read(s) \/ PutChunk(s) \/ StreamEnds(s)

CancelStep ==
    \/ Kill \/ BuildCancelled
    \/ \E s \in Streams : StreamCancelled(s)

-----------------------------------------------------------------------------
(* await_preparation: the loop while the build runs.                         *)

Waits(m) ==
    /\ at = "building" /\ inbox # <<>> /\ m = Head(inbox)
    /\ inbox' = Tail(inbox)
    /\ taken' = IF m.type = "client" THEN Append(taken, m.frame) ELSE taken
    /\ UNCHANGED <<fromClient, reader, passed>>

ForwardOutput(m) ==
    /\ m.type = "output"
    /\ UNCHANGED <<at, session, editor, build>>

\* The group is left when the build it owns is gone.
CancelBuild == build' = [build EXCEPT !.stop = "all"]
LeaveGroup == at' = "ending" /\ CancelBuild

\* A launch that comes to nothing is answered and `terminated` follows.
\* Mutation: nobody tells the editor.
GivesUpSilently == editor
GivesUp == AnswerAndTerminate({session.asked})

\* serve_live starts an adapter first, which may be missing.
HandOver(m) ==
    /\ m.type = "prepared" /\ m.ok
    /\ \/ /\ at' = "live"
          /\ UNCHANGED <<editor, build>>
       \/ /\ LeaveGroup
          /\ editor' = GivesUp
    /\ UNCHANGED session

PreparationFails(m) ==
    /\ \/ m.type = "prepared" /\ ~m.ok
       \/ m.type = "client" /\ m.frame.command \in {"unreadable", "broken"}
    /\ LeaveGroup
    /\ editor' = GivesUp
    /\ UNCHANGED session

EditorGone(m) ==
    /\ m.type = "client" /\ m.frame = Eof
    /\ LeaveGroup
    /\ UNCHANGED <<session, editor>>

DisconnectBuild(m) ==
    /\ m.type = "client" /\ m.frame.command = "disconnect"
    /\ at' = "stopping"
    /\ session' = [session EXCEPT !.leaving = m.frame.seq]
    /\ CancelBuild
    /\ UNCHANGED editor

RefuseDuringBuild(m) ==
    /\ m.type = "client"
    /\ m.frame.command \notin {"eof", "unreadable", "broken", "disconnect"}
    /\ editor' = Answer({m.frame.seq})
    /\ UNCHANGED <<at, session, build>>

Wait ==
    \E m \in {Head(inbox) : i \in DOMAIN inbox} :
        /\ Waits(m)
        /\ \/ ForwardOutput(m) \/ HandOver(m) \/ PreparationFails(m)
           \/ EditorGone(m) \/ DisconnectBuild(m) \/ RefuseDuringBuild(m)

\* task.wait(): the loop does not empty the inbox meanwhile.
BuildStops ==
    /\ at = "stopping" /\ build.task = "done"
    /\ at' = "ending"
    /\ editor' = AnswerAndTerminate({session.asked, session.leaving})
    /\ UNCHANGED <<session, fromClient, reader, inbox, build, taken, passed>>

\* Leaving the task groups cancels the reader.
Ends ==
    /\ at = "ending" /\ build.task = "done"
    /\ at' = "over"
    /\ reader' = [pc |-> "off", held |-> <<>>]
    /\ UNCHANGED <<session, editor, fromClient, inbox, build, taken, passed>>

-----------------------------------------------------------------------------
(* LiveSession takes over inbox and reader.  What it does with a frame is    *)
(* its own; a message of the build makes it fail.                            *)

LiveTakes ==
    /\ at = "live" /\ inbox # <<>> /\ inbox' = Tail(inbox)
    /\ IF Head(inbox).type = "client"
       THEN /\ passed' = Append(passed, Head(inbox).frame)
            /\ UNCHANGED at
       ELSE /\ at' = "failed"
            /\ UNCHANGED passed
    /\ UNCHANGED <<session, editor, fromClient, reader, build, taken>>

LiveEnds ==
    /\ at = "live" /\ at' = "ending"
    /\ UNCHANGED <<session, editor, fromClient, reader, inbox, build, taken, passed>>

-----------------------------------------------------------------------------
(* The editor.                                                               *)

EditorWrites(f) ==
    /\ ~editor.left /\ at \notin {"over", "failed"}
    /\ fromClient' = Append(fromClient, f)
    /\ editor' = [editor EXCEPT !.sent = Append(@, f), !.left = (f = Eof)]
    /\ UNCHANGED <<at, session, reader, inbox, build, taken, passed>>

EditorSends ==
    /\ Len(editor.sent) < MaxRequests
    /\ \E command \in Commands :
          EditorWrites(Frame(Len(editor.sent) + 1, command))

EditorLeaves == EditorWrites(Eof)

Next ==
    \/ Serve \/ ServeTimeout \/ ReaderReads \/ ReaderPuts
    \/ Wait \/ BuildStops \/ Ends \/ LiveTakes \/ LiveEnds
    \/ BuildStep \/ CancelStep \/ EditorSends \/ EditorLeaves

\* Nothing is assumed of the editor, nor that a build ever prints, puts or
\* ends; but what is cancelled goes.
Fairness ==
    /\ WF_vars(Serve) /\ WF_vars(ServeTimeout) /\ WF_vars(Wait)
    /\ WF_vars(BuildStops) /\ WF_vars(Ends)
    /\ WF_vars(ReaderReads) /\ WF_vars(ReaderPuts)
    /\ WF_vars(CancelStep)

Spec == Init /\ [][Next]_vars /\ Fairness

-----------------------------------------------------------------------------
(* Properties.                                                               *)

Frames == {Eof} \cup [seq : Requests, command : AllCommands]
Messages == [type : {"client", "output", "prepared"}, frame : Frames, ok : BOOLEAN]

Sessions == [initialized : BOOLEAN, finished : BOOLEAN,
             launch : Requests \cup {None}, asked : Requests \cup {None},
             leaving : Requests \cup {None}]
Editors == [sent : Seq(Frames), answers : [Requests -> Nat], terminated : Nat,
            left : BOOLEAN]
Readers == [pc : {"off", "reading", "putting", "done"}, held : Seq(Frames)]
Builds == [task : {"opening", "starting", "waiting", "reporting", "done"},
           moons : Nat, process : {"none", "running", "exited"},
           ok : BOOLEAN, streams : [Streams -> {"open", "putting", "closed"}],
           left : 0 .. MaxOutput, stop : {"no", "run", "all"}]

\* The values each variable may take; the inbox holds what it has room for.
TypeOK ==
    /\ at \in {"serve", "building", "stopping", "ending", "live", "over", "failed"}
    /\ session \in Sessions /\ editor \in Editors
    /\ reader \in Readers /\ build \in Builds
    /\ (reader.pc = "putting") <=> (Len(reader.held) = 1)
    /\ fromClient \in Seq(Frames) /\ taken \in Seq(Frames) /\ passed \in Seq(Frames)
    /\ inbox \in Seq(Messages) /\ Len(inbox) <= Capacity

HandledRequests ==
    {taken[i].seq : i \in {j \in DOMAIN taken :
        taken[j].command \notin {"eof", "unreadable", "broken"}}}

\* Requests the session still has to answer: a launch that waits for
\* configurationDone, one that is being prepared, a disconnect that waits for
\* the build; LiveSession answers the launch it was given.
Owed ==
    ({session.launch}
     \cup (IF at \in {"building", "stopping", "live"}
           THEN {session.asked, session.leaving} ELSE {})) \ {None}

Ended == at \in {"ending", "over"}
EditorStays == \A i \in DOMAIN taken : taken[i] # Eof

\* LiveSession has been given the launch: only the build of another is cancelled.
HandedOver == session.asked # None /\ build.stop # "all"
LaunchLost == Ended /\ EditorStays /\ session.asked # None /\ ~HandedOver

\* Every request the session has handled is answered exactly once, but for those
\* owed.  At the end none is owed to an editor that is still there, except the
\* launch LiveSession was given: a launch whose build failed, was cancelled or met
\* an unreadable frame, or that found no adapter, has its answer too.  `terminated`
\* is sent once for such a launch and for a finished connection test, and for
\* nothing else (session.mbt:103-255, prepare_launch.mbt:134-195,
\* live_server.mbt:15-26).
AnswersOwed ==
    /\ at \in {"serve", "building", "stopping", "live"} =>
          \A r \in HandledRequests :
              editor.answers[r] = IF r \in Owed THEN 0 ELSE 1
    /\ Ended /\ EditorStays =>
          \A r \in HandledRequests :
              editor.answers[r] = IF HandedOver /\ r = session.asked THEN 0 ELSE 1
    /\ editor.terminated = IF session.finished \/ LaunchLost THEN 1 ELSE 0

\* "Do not claim disconnection before the owned build has stopped"
\* (prepare_launch.mbt:153): no process and no task of a build is left when a
\* disconnect is answered, nor when serve returns.
NoBuildLeft ==
    /\ build.process # "running" /\ build.task = "done"
    /\ \A s \in Streams : build.streams[s] = "closed"
BuildStopped ==
    [][(\/ at' = "over"
        \/ \E r \in Requests \cap {session'.leaving} :
              editor'.answers[r] > editor.answers[r])
       => NoBuildLeft']_vars

\* LiveSession starts without a message of the build in its inbox, and none is
\* still to come (live_server.mbt:127 fails on one).
LiveStartsClean ==
    at = "live" =>
        /\ \A i \in DOMAIN inbox : inbox[i].type = "client"
        /\ \A s \in Streams : build.streams[s] = "closed"

\* What was sent is what is done, then the editor's messages in the box, then
\* what is ahead of the box.
ClientsIn(box, n) == {i \in 1 .. n : box[i].type = "client"}
InOrder(sent, done, box, ahead) ==
    LET through == Len(done) + Cardinality(ClientsIn(box, Len(box))) IN
    /\ Len(sent) = through + Len(ahead)
    /\ \A i \in DOMAIN done : sent[i] = done[i]
    /\ \A i \in ClientsIn(box, Len(box)) :
          sent[Len(done) + Cardinality(ClientsIn(box, i))] = box[i].frame
    /\ \A i \in DOMAIN ahead : sent[through + i] = ahead[i]

\* No frame of the editor is lost or overtaken on its way through the reader and
\* a full inbox, from the handshake over the build into LiveSession
\* (prepare_launch.mbt:65-67).
FramesInOrder ==
    at \notin {"over", "failed"} =>
        InOrder(editor.sent, taken \o passed, inbox, reader.held \o fromClient)

\* A disconnect and the end of the input are obeyed, however long the build may
\* run and although nobody empties the inbox meanwhile; a connection test ends
\* by itself (server.mbt:9, prepare_launch.mbt:151-156).
SessionEnds ==
    /\ (\E i \in DOMAIN editor.sent : editor.sent[i].command \in {"disconnect", "eof"})
          ~> at \in {"over", "failed", "live"}
    /\ session.finished ~> at \in {"over", "failed"}

=============================================================================
