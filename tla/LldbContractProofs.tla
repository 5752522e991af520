-------------------------- MODULE LldbContractProofs --------------------------
(***************************************************************************)
(* The lldb-dap backend implements DebugBackend, whatever the adapters do:    *)
(* the refinement KeepsContract of LldbSystem, and with it ViewIsCurrent.    *)
(*                                                                         *)
(* The argument follows the breakpoints.  The steps of a launch or of a      *)
(* synchronization cover every breakpoint that is not as it is wanted; a      *)
(* step is dropped only when the response to its own request confirms it;    *)
(* and nothing else changes breakpoints.  So what is installed when no step   *)
(* is left is what was asked for.                                            *)
(***************************************************************************)
EXTENDS LldbSystemProofs

-----------------------------------------------------------------------------
(* The invariant.  Its parts are about an operation o, an execution x and     *)
(* what else they name, so that they can be stated of what comes next.       *)

\* The breakpoints an operation leads to.
Goal(o, on) == IF o.name = "sync" THEN o.want.on ELSE on

First(o, command) == o.todo # <<>> /\ Head(o.todo).command = command

Over(x) == x.state \in {"Exited", "Failed"}

\* What an operation between two stops may still do.
RunSteps ==
    {"continue", "stable", "outcome", "threads", "window", "stackTrace", "condition",
     "complete"}
LaunchCommands ==
    {"disconnect", "release", "prepare", "launch", "initialized", "configurationDone",
     "launched"}

Alphabet(o) ==
    IF o.name = "quit" THEN {"disconnect", "close"}
    ELSE IF o.failing THEN {"disconnect", "discard"}
    ELSE IF o.settling \/ o.name = "stack" THEN {"window", "stackTrace"}
    ELSE IF o.name = "sync" THEN Changes
    ELSE IF o.name = "find" THEN {"scopes", "variables", "unreadable"}
    ELSE IF o.name = "locals" THEN {"scopes", "variables"}
    ELSE IF o.name = "resume" THEN Resumptions \cup RunSteps
    ELSE IF o.name = "launch" THEN LaunchCommands \cup Changes \cup RunSteps
    ELSE {}

\* Breakpoints are configured after the launch and before anything else; a stopped
\* execution is released before another one is prepared.
Ordered(todo) ==
    \A i, j \in DOMAIN todo : i < j =>
        /\ todo[j].command \in Changes =>
              todo[i].command \in Changes \cup {"launch", "initialized"}
        /\ todo[j].command = "release" => todo[i].command = "disconnect"
        /\ todo[j].command # "prepare"

Belongs(s, o, goal) ==
    s.command \in Alphabet(o) /\ (s.command \in Changes => Aims(s, goal))

\* An operation that gives up, or the session, closes what it disconnects.
Closes(o) ==
    o.failing \/ o.name = "quit" =>
        o.todo # <<>> /\ o.todo[Len(o.todo)].command # "disconnect"

\* What is awaited is the answer to a request.
Expects(o) ==
    o.waits # NoRequest => o.todo # <<>> /\ Head(o.todo).command \in Awaited

Shaped(o, goal) ==
    /\ o.name = "idle" => o = Idle
    /\ o.settling => o.name \in {"launch", "resume"}
    /\ \A i \in DOMAIN o.todo : Belongs(o.todo[i], o, goal)
    /\ Ordered(o.todo)
    /\ Closes(o)
    /\ Expects(o)

\* The program is stopped, or ended unnoticed.
InReach(x) ==
    x.state \in {"Stopped", "Exited"} /\ (x.state = "Stopped" => x.thread # NoThread)

\* What looks at a stop or changes it begins at one.
LooksAt(o) ==
    ~o.failing /\ (o.name \in {"sync", "find", "locals", "stack"}
                   \/ (o.settling /\ ~First(o, "window")))

StopNames == {"idle", "sync", "find", "locals", "stack"}

Reached(o, x, phase) ==
    /\ o.name = "idle" /\ x.adapter # 0 => InReach(x)
    /\ LooksAt(o) => InReach(x)
    /\ LooksAt(o) /\ o.todo = <<>> /\ o.name # "sync" => x.state = "Stopped"
    /\ First(o, "unreadable") => x.state = "Stopped"
    /\ First(o, "prepare") /\ x.adapter # 0 => x.state = "Exited"
    /\ phase = "Stopped" => x.adapter # 0 /\ o.name \in StopNames

\* Requests are numbered in order, and none is answered before it is served.
InSequence(a) ==
    /\ \A i, j \in DOMAIN adapters[a].requests :
          i < j => adapters[a].requests[i].seq < adapters[a].requests[j].seq
    /\ \A m \in Heard(a), i \in DOMAIN adapters[a].requests :
          IsResponse(m) => m.to # adapters[a].requests[i].seq

\* A request that changes breakpoints is the one that is awaited.
Pending(req) ==
    /\ req.seq = op.waits =>
          Current.command = req.command /\ Current.on = req.on /\ Current.points = req.points
    /\ req.command \in Changes =>
          op.name \in {"launch", "sync"} /\ (~op.failing => op.waits = req.seq)

Asked ==
    /\ \A a \in DOMAIN adapters : adapters[a].open => InSequence(a)
    /\ Has => \A i \in DOMAIN adapters[exec.adapter].requests :
          LET req == adapters[exec.adapter].requests[i] IN
          /\ Pending(req)
          /\ \A m \in exec.inbox : m.to # req.seq

Unprepared ==
    \A a \in DOMAIN adapters :
        adapters[a].open /\ a # exec.adapter => targets[a].tables = {}

\* A change that was confirmed has been made.
Agrees(s, tables, goal) ==
    \A p \in Scope(s) : p \in tables <=> p \in goal

Reflected ==
    Has /\ ~op.failing /\ op.waits # NoRequest /\ Current.command \in Changes =>
        \A m \in Heard(exec.adapter) \cup exec.inbox :
            IsResponse(m) /\ m.to = op.waits /\ m.ok =>
                Agrees(Current, targets[exec.adapter].tables, Goal(op, applied))

\* A breakpoint is as it is wanted, in the adapter and for the backend.
SettledIn(p, x, tables, goal) ==
    /\ p \in tables <=> p \in goal
    /\ p \in Families => (p \in x.active <=> p \in goal)

Releases(todo) == \E i \in DOMAIN todo : todo[i].command = "release"

\* Each breakpoint is settled, or the operation still sees to it.
Progressed(o, x, tables, goal) ==
    x.adapter # 0 /\ ~o.failing /\ (o.name = "sync" \/ ~Over(x)) =>
        \A p \in Points :
            SettledIn(p, x, tables, goal) \/ Covers(o.todo, p) \/ Releases(o.todo)

Progress == Has => Progressed(op, exec, targets[exec.adapter].tables, Goal(op, applied))

\* The frames DebugSession has are those cached, or these were forgotten.
Seen(x, v) ==
    x.windows = {} \/ (x.windows = 0 .. v.windows - 1 /\ v.whole = x.whole)

Windowed(o, x, v) ==
    /\ v.phase = "Stopped" => v.windows >= 1
    /\ o.name \in {"idle", "sync", "find", "locals"} /\ ~o.failing /\ v.phase = "Stopped" =>
          Seen(x, v)
    /\ o.name = "stack" /\ ~o.failing =>
          /\ o.page = v.windows /\ ~v.whole /\ o.page >= 1
          /\ o.todo # <<>> => Tail(o.todo) = <<>> /\ Seen(x, v)
          /\ o.todo = <<>> => x.windows = 0 .. o.page
    /\ o.name \in {"launch", "resume"} /\ ~o.failing =>
          /\ o.page = 0
          /\ \/ x.adapter = 0 \/ x.windows \subseteq {0}
             \/ o.waits = NoRequest /\ o.todo # <<>> /\ Head(o.todo).command \in Resumptions
             \/ \E i \in DOMAIN o.todo : o.todo[i].command \in {"release", "prepare"}

CInv ==
    /\ Shaped(op, Goal(op, applied))
    /\ Reached(op, exec, view.phase)
    /\ Asked
    /\ Unprepared
    /\ Reflected
    /\ Progress
    /\ Windowed(op, exec, view)

-----------------------------------------------------------------------------
(* What a step of an operation does: it gives up, stays, sends a request,     *)
(* sees a change confirmed, advances to the next step, or takes other steps.  *)

SameCall(o) ==
    /\ o.name = op.name /\ o.want = op.want /\ o.page = op.page
    /\ o.settling = op.settling /\ o.failing = op.failing

Goes(o, todo) == SameCall(o) /\ o.todo = todo /\ o.waits = NoRequest

LEMMA CallsGoOn ==
  ASSUME op \in Operations
  PROVE  /\ Goes(Advanced, Tail(op.todo))
         /\ \A n : Goes([Advanced EXCEPT !.launch = n], Tail(op.todo))
         /\ \A todo : Goes(Follow(todo), todo)
  BY DEF Operations, Goes, SameCall, Advanced, Follow

LEMMA CallsStay ==
  ASSUME op \in Operations
  PROVE  /\ \A n : /\ SameCall([op EXCEPT !.waits = n, !.stale = FALSE])
                   /\ [op EXCEPT !.waits = n, !.stale = FALSE].todo = op.todo
                   /\ [op EXCEPT !.waits = n, !.stale = FALSE].waits = n
         /\ SameCall([op EXCEPT !.launched = TRUE])
         /\ [op EXCEPT !.launched = TRUE].todo = op.todo
         /\ [op EXCEPT !.launched = TRUE].waits = op.waits
         /\ \A b \in BOOLEAN : /\ SameCall([op EXCEPT !.stale = b])
                               /\ [op EXCEPT !.stale = b].todo = op.todo
                               /\ [op EXCEPT !.stale = b].waits = op.waits
         /\ SameCall(op)
  BY DEF Operations, SameCall

\* The same execution, whatever waits in the inbox.
Twin(x) ==
    /\ x \in Executions
    /\ x.adapter = exec.adapter /\ x.state = exec.state /\ x.thread = exec.thread
    /\ x.windows = exec.windows /\ x.whole = exec.whole /\ x.active = exec.active

\* A program that is over stays so, and a cached stack is kept or forgotten.
Drifts(x) ==
    /\ x.adapter = exec.adapter /\ x.active = exec.active
    /\ Over(exec) => Over(x)
    /\ x.windows = {} \/ (x.windows = exec.windows /\ x.whole = exec.whole)

LEMMA EndsDrift ==
  ASSUME NEW x, x \in Executions, Drifts(x)
  PROVE  Drifts(Failed(x)) /\ Drifts(Finished(x))
  BY DEF Executions, Drifts, Failed, Finished, Over

LEMMA TwinsDrift ==
  ASSUME NEW x, Twin(x)
  PROVE  Drifts(x) /\ (InReach(exec) => InReach(x))
  BY DEF Twin, Drifts, Over, InReach

LEMMA AcceptedDrifts ==
  ASSUME exec \in Executions, NEW m \in Messages, Accepts(exec, m)
  PROVE  Drifts(Accepted(exec, m)) /\ (InReach(exec) => InReach(Accepted(exec, m)))
  <1> DEFINE y == Accepted(exec, m)
             b == Blank(exec)
  <1>1. /\ b.adapter = exec.adapter /\ b.active = exec.active /\ b.state = exec.state
        /\ b.thread = exec.thread /\ b.windows = {} /\ b \in Executions
    BY DEF Blank, Executions
  <1> HIDE DEF b
  <1>2. \/ y = exec
        \/ y = b
        \/ m.name \in Outputs /\ y = [exec EXCEPT !.output = Append(@, m.name)]
        \/ exec.state \in {"Preparing", "Configuring"} /\ y = [exec EXCEPT !.state = "Configuring"]
        \/ /\ exec.state \notin {"Stopped", "Exited", "Failed"}
           /\ y = [b EXCEPT !.state = "Stopped", !.thread = m.thread, !.frames = 0]
        \/ y = [b EXCEPT !.state = "Exited", !.thread = NoThread]
    BY DEF Accepted, Accepts, b, Executions, States, Ends, Outputs
  <1>3. \/ y \in {exec, b}
        \/ /\ y.adapter = exec.adapter /\ y.active = exec.active /\ y.state = exec.state
           /\ y.thread = exec.thread /\ y.windows = exec.windows /\ y.whole = exec.whole
        \/ /\ y.adapter = exec.adapter /\ y.active = exec.active
           /\ exec.state \notin {"Stopped", "Exited", "Failed"}
           /\ y.windows = {} \/ (y.windows = exec.windows /\ y.whole = exec.whole)
        \/ /\ y.adapter = exec.adapter /\ y.active = exec.active /\ y.state = "Exited"
           /\ y.windows = {}
    <2>1. CASE m.name \in Outputs /\ y = [exec EXCEPT !.output = Append(@, m.name)]
      BY <2>1 DEF Executions
    <2>2. CASE /\ exec.state \in {"Preparing", "Configuring"}
               /\ y = [exec EXCEPT !.state = "Configuring"]
      BY <2>2 DEF Executions
    <2>3. CASE /\ exec.state \notin {"Stopped", "Exited", "Failed"}
               /\ y = [b EXCEPT !.state = "Stopped", !.thread = m.thread, !.frames = 0]
      BY <1>1, <2>3 DEF Executions
    <2>4. CASE y = [b EXCEPT !.state = "Exited", !.thread = NoThread]
      BY <1>1, <2>4 DEF Executions
    <2> HIDE DEF y
    <2> QED BY <1>2, <2>1, <2>2, <2>3, <2>4
  <1> HIDE DEF y
  <1>4. Drifts(y) /\ (InReach(exec) => InReach(y))
    BY <1>1, <1>3 DEF Drifts, Over, InReach
  <1> QED BY <1>4 DEF y

LEMMA SendingDrifts ==
  ASSUME Sound(exec), NEW command, MaySend(command)
  PROVE  /\ Drifts(Sending(command)) /\ Sending(command) \in Executions
         /\ command \in Resumptions => Sending(command).windows = {}
         /\ command \notin Resumptions \cup {"launch", "configurationDone"} => Sending(command) = exec
  <1> DEFINE y == Sending(command)
  <1>1. \/ y = exec
        \/ exec.state = "Ready" /\ y = [exec EXCEPT !.state = "Preparing"] /\ command = "launch"
        \/ /\ exec.state \in {"Preparing", "Configuring"}
           /\ y = [exec EXCEPT !.state = "Running", !.thread = NoThread]
           /\ command = "configurationDone"
        \/ /\ exec.state = "Stopped" /\ command \in Resumptions
           /\ y = [Blank(exec) EXCEPT !.state = "Running", !.thread = NoThread]
    BY DEF Sending, MaySend, Resumptions
  <1>2. command \in Resumptions => exec.state = "Stopped"
           /\ y = [Blank(exec) EXCEPT !.state = "Running", !.thread = NoThread]
    BY DEF Sending, MaySend, Resumptions
  <1>3. command \notin Resumptions \cup {"launch", "configurationDone"} => y = exec
    BY DEF Sending
  <1>4. y \in Executions /\ exec \in Executions
    BY SendingIsSound DEF Sound
  <1> DEFINE b == Blank(exec)
  <1>5. b \in Executions /\ b.adapter = exec.adapter /\ b.active = exec.active /\ b.windows = {}
    BY <1>4 DEF Executions, Blank
  <1> HIDE DEF y, b
  <1>6. ASSUME exec.state = "Stopped", y = [b EXCEPT !.state = "Running", !.thread = NoThread]
        PROVE  Drifts(y)
    <2>1. y.adapter = exec.adapter /\ y.active = exec.active /\ y.windows = {}
      BY <1>5, <1>6 DEF Executions
    <2> QED BY <1>6, <2>1 DEF Drifts, Over
  <1>7. ASSUME exec.state = "Ready", y = [exec EXCEPT !.state = "Preparing"]
        PROVE  Drifts(y)
    BY <1>4, <1>7 DEF Executions, Drifts, Over
  <1>8. ASSUME exec.state \in {"Preparing", "Configuring"},
               y = [exec EXCEPT !.state = "Running", !.thread = NoThread]
        PROVE  Drifts(y)
    BY <1>4, <1>8 DEF Executions, Drifts, Over
  <1>9. Drifts(y)
    <2>1. y = exec => Drifts(y)
      BY DEF Drifts
    <2> QED BY <1>1, <1>6, <1>7, <1>8, <2>1 DEF b
  <1>10. command \in Resumptions => y.windows = {}
    <2> SUFFICES ASSUME command \in Resumptions PROVE y.windows = {}
      OBVIOUS
    <2>1. y = [b EXCEPT !.state = "Running", !.thread = NoThread]
      BY <1>2 DEF b
    <2> QED BY <1>5, <2>1 DEF Executions
  <1> QED BY <1>3, <1>4, <1>9, <1>10 DEF y

GivesUp ==
    /\ ~At("condition") /\ exec'.adapter = exec.adapter
    /\ op' = [Follow(Recovery) EXCEPT !.failing = TRUE]

Stays ==
    /\ Waiting /\ op'.todo = op.todo /\ op'.waits = op.waits /\ SameCall(op')
    /\ Drifts(exec') /\ (InReach(exec) => InReach(exec'))

Sends ==
    /\ op.todo # <<>> /\ op.waits = NoRequest /\ Current.command \in Awaited
    /\ op'.todo = op.todo /\ op'.waits = exec.next /\ SameCall(op')
    /\ Drifts(exec')
    /\ Current.command \in Resumptions => exec'.windows = {}
    /\ Current.command \notin Resumptions \cup {"configurationDone"} =>
          (InReach(exec) => InReach(exec'))

\* The confirmed step is done, or its family is looked up.
Confirms ==
    /\ op.todo # <<>> /\ Current.command \in Changes /\ op.waits # NoRequest
    /\ \E r \in Heard(exec.adapter) \cup exec.inbox :
          IsResponse(r) /\ r.to = op.waits /\ (r.ok \/ LooksUp(Current))
    /\ \/ Goes(op', Tail(op.todo))
       \/ /\ Current.command = "evaluate"
          /\ Goes(op', <<[Current EXCEPT !.on = "list"]>> \o Tail(op.todo))
    /\ exec'.active = Configured(exec, Current).active
    /\ exec'.adapter = exec.adapter /\ exec'.state = exec.state /\ exec'.thread = exec.thread
    /\ exec'.windows = exec.windows /\ exec'.whole = exec.whole

\* The steps that are passed; looking at a stop is only done at it.
Passed ==
    Resumptions \cup
    {"disconnect", "launch", "initialized", "configurationDone", "launched", "stable",
     "threads", "window", "stackTrace", "condition", "scopes", "variables"}
AtStop == {"window", "stackTrace", "scopes", "variables"}

Advances ==
    /\ op.todo # <<>> /\ Current.command \in Passed
    /\ Current.command \in Resumptions => op.waits # NoRequest
    /\ Goes(op', Tail(op.todo))
    /\ exec'.adapter = exec.adapter /\ exec'.active = exec.active
    /\ Over(exec) => Over(exec')
    /\ Current.command \in AtStop =>
          exec'.state = "Stopped" /\ (InReach(exec) \/ At("window") => InReach(exec'))
    /\ At("stackTrace") =>
          exec.windows = 0 .. op.page - 1 /\ exec'.windows = exec.windows \cup {op.page}
    /\ ~At("stackTrace") =>
          exec'.windows = {} \/ (exec'.windows = exec.windows /\ exec'.whole = exec.whole)
    /\ At("window") =>
          /\ exec' = exec
          /\ 0 .. op.page - 1 \subseteq exec.windows
          /\ op.page \in exec.windows \/ exec.whole

\* What comes after a program was stopped, tested or over.
Detours ==
    /\ At("condition") \/ At("outcome") \/ (At("initialized") /\ exec.state = "Exited")
    /\ SameCall(op') /\ op'.waits = NoRequest
    /\ \A i \in DOMAIN op'.todo : op'.todo[i].command \in RunSteps
    /\ Drifts(exec')

IsUnreadable ==
    /\ op.name = "find" /\ op.todo # <<>> /\ Current.command \in {"scopes", "variables"}
    /\ Goes(op', <<Step("unreadable")>>)
    /\ exec.state = "Stopped" /\ Twin(exec')

Reloads ==
    /\ At("window") /\ Goes(op', <<Step("stackTrace")>> \o Tail(op.todo))
    /\ exec' = exec /\ exec.state = "Stopped" /\ exec.thread # NoThread

Turn ==
    GivesUp \/ Stays \/ Sends \/ Confirms \/ Advances \/ Detours \/ IsUnreadable \/ Reloads

LEMMA FailsTurns ==
  ASSUME NEW x, x \in Executions, Drifts(x), NEW lost, Fails(x, lost), op \in Operations,
         op.todo # <<>>
  PROVE  Turn
  <1>1. exec' \in {x, Failed(x)} /\ op' = Recovering
    BY DEF Fails
  <1>2. Drifts(exec')
    BY <1>1, EndsDrift
  <1>3. CASE At("condition")
    <2>1. Goes(op', Tail(op.todo))
      BY <1>1, <1>3, CallsGoOn DEF Recovering
    <2>2. Current.command = "condition" /\ ~At("stackTrace") /\ ~At("window")
      BY <1>3 DEF At, Current
    <2> QED BY <1>2, <2>1, <2>2 DEF Turn, Advances, Resumptions, Passed, AtStop, Drifts
  <1>4. CASE ~At("condition")
    BY <1>1, <1>2, <1>4 DEF Turn, GivesUp, Recovering, Drifts
  <1> QED BY <1>3, <1>4

\* A confirmation changes the families and nothing of the stop.
LEMMA ConfiguredFields ==
  ASSUME NEW x \in Executions, NEW s
  PROVE  /\ Configured(x, s).active =
              IF s.command = "evaluate" /\ s.on \in {"set", "enable"} THEN x.active \cup s.points
              ELSE IF s.command = "evaluate" /\ s.on \in {"disable", "delete"}
              THEN x.active \ s.points
              ELSE x.active
         /\ Configured(x, s).adapter = x.adapter /\ Configured(x, s).state = x.state
         /\ Configured(x, s).thread = x.thread /\ Configured(x, s).windows = x.windows
         /\ Configured(x, s).whole = x.whole /\ Configured(x, s).inbox = x.inbox
  <1>1. CASE s.command = "evaluate" /\ s.on = "set"
    BY <1>1 DEF Executions, Configured
  <1>2. CASE s.command = "evaluate" /\ s.on = "enable"
    BY <1>2 DEF Executions, Configured
  <1>3. CASE s.command = "evaluate" /\ s.on = "disable"
    BY <1>3 DEF Executions, Configured
  <1>4. CASE s.command = "evaluate" /\ s.on = "delete"
    BY <1>4 DEF Executions, Configured
  <1>5. CASE ~(s.command = "evaluate" /\ s.on \in {"set", "enable", "disable", "delete"})
    BY <1>5 DEF Executions, Configured
  <1> QED BY <1>1, <1>2, <1>3, <1>4, <1>5

\* The responses an execution was given.
Given(r) == IsResponse(r) /\ r \in Heard(exec.adapter) \cup exec.inbox

LEMMA MatchTurns ==
  ASSUME Typed, NEW x, Twin(x), Alike(x), NEW r \in Messages, Given(r), r.to = Awaits, Waiting,
         Awaits # NoRequest, Match(x, r)
  PROVE  Turn
  <1>1. op \in Operations /\ op.todo # <<>> /\ op.todo \in Seq(Steps) /\ x \in Executions
    BY ExecIsAlike DEF Operates, Operations, Twin
  <1>2. Drifts(x) /\ (InReach(exec) => InReach(x))
    BY TwinsDrift
  <1>3. /\ Goes(Advanced, Tail(op.todo)) /\ \A todo : Goes(Follow(todo), todo)
        /\ SameCall([op EXCEPT !.launched = TRUE])
        /\ [op EXCEPT !.launched = TRUE].todo = op.todo
        /\ [op EXCEPT !.launched = TRUE].waits = op.waits
    BY <1>1, CallsGoOn, CallsStay
  <1>4. \A c : At(c) <=> Current.command = c
    BY <1>1 DEF At, Current
  <1>5. \/ At("disconnect") /\ exec' = Finished(x) /\ op' = Advanced
        \/ exec' = x /\ op' = [op EXCEPT !.launched = TRUE]
        \/ At("threads") /\ exec' = [x EXCEPT !.thread = 1] /\ op' = Advanced
        \/ /\ At("stackTrace") /\ FitsStack(x)
           /\ exec' = [x EXCEPT !.windows = @ \cup {op.page}, !.frames = op.page + 1,
                                !.whole = ~r.full]
           /\ op' = Advanced
        \/ /\ Current.command \in {"scopes", "variables"} /\ StillThere
           /\ exec' = [x EXCEPT !.read = @ \cup {Current.command}] /\ op' = Advanced
        \/ /\ Current.command \in {"scopes", "variables"} /\ StillThere /\ op.name = "find"
           /\ exec' = x /\ op' = Follow(<<Step("unreadable")>>)
        \/ /\ At("condition") /\ exec' = x
           /\ op' \in {Advanced}
                      \cup IF r.ok /\ StillThere
                           THEN {Follow(<<Step("continue"), Step("stable"),
                                          Step("outcome")>>)}
                           ELSE {}
        \/ /\ Current.command \in Changes /\ (r.ok \/ LooksUp(Current))
           /\ exec' = Configured(x, Current) /\ op' = Looked
        \/ /\ Current.command \in Resumptions \cup {"configurationDone", "launched"}
           /\ exec' = x /\ op' = Advanced
        \/ Fails(x, FALSE)
    BY Zenon DEF Match
  <1>6. CASE At("disconnect") /\ exec' = Finished(x) /\ op' = Advanced
    <2>1. Drifts(exec')
      BY <1>1, <1>2, <1>6, EndsDrift
    <2> QED BY <1>1, <1>3, <1>4, <1>6, <2>1 DEF Turn, Advances, Resumptions, Passed, AtStop, Drifts
  <1>7. CASE exec' = x /\ op' = [op EXCEPT !.launched = TRUE]
    BY <1>2, <1>3, <1>7 DEF Turn, Stays
  <1>8. CASE At("threads") /\ exec' = [x EXCEPT !.thread = 1] /\ op' = Advanced
    <2>1. Drifts(exec')
      BY <1>1, <1>2, <1>8 DEF Drifts, Executions, Over
    <2> QED BY <1>1, <1>3, <1>4, <1>8, <2>1 DEF Turn, Advances, Resumptions, Passed, AtStop, Drifts
  <1>9. CASE /\ At("stackTrace") /\ FitsStack(x)
             /\ exec' = [x EXCEPT !.windows = @ \cup {op.page}, !.frames = op.page + 1,
                                  !.whole = ~r.full]
             /\ op' = Advanced
    <2>1. /\ exec'.windows = x.windows \cup {op.page} /\ exec'.state = x.state
          /\ exec'.thread = x.thread /\ exec'.active = x.active /\ exec'.adapter = x.adapter
      BY <1>1, <1>9 DEF Executions
    <2>2. x.state = "Stopped" /\ x.windows = 0 .. op.page - 1
      BY <1>9 DEF FitsStack
    <2>3. Current.command \notin Resumptions /\ ~At("window")
      BY <1>4, <1>9 DEF Resumptions
    <2>4. /\ exec'.adapter = exec.adapter /\ exec'.active = exec.active
          /\ Over(exec) => Over(exec')
          /\ exec.windows = 0 .. op.page - 1 /\ exec'.windows = exec.windows \cup {op.page}
          /\ exec'.state = "Stopped" /\ (InReach(exec) => InReach(exec'))
      BY <2>1, <2>2 DEF Twin, Over, InReach
    <2>5. op.todo # <<>> /\ Current.command \in Passed /\ Goes(op', Tail(op.todo))
      BY <1>1, <1>3, <1>4, <1>9 DEF Passed
    <2> QED BY <1>9, <2>3, <2>4, <2>5 DEF Turn, Advances
  <1>10. CASE /\ Current.command \in {"scopes", "variables"} /\ StillThere
              /\ exec' = [x EXCEPT !.read = @ \cup {Current.command}] /\ op' = Advanced
    <2>1. /\ exec'.windows = x.windows /\ exec'.state = x.state /\ exec'.whole = x.whole
          /\ exec'.thread = x.thread /\ exec'.active = x.active /\ exec'.adapter = x.adapter
      BY <1>1, <1>10 DEF Executions
    <2>2. exec.state = "Stopped"
      BY <1>10 DEF StillThere
    <2>3. ~At("window") /\ ~At("stackTrace") /\ Current.command \notin Resumptions
      BY <1>4, <1>10 DEF Resumptions
    <2>4. /\ exec'.adapter = exec.adapter /\ exec'.active = exec.active
          /\ Over(exec) => Over(exec')
          /\ exec'.windows = exec.windows /\ exec'.whole = exec.whole
          /\ exec'.state = "Stopped" /\ (InReach(exec) => InReach(exec'))
      BY <2>1, <2>2 DEF Twin, Over, InReach
    <2>5. op.todo # <<>> /\ Current.command \in Passed /\ Goes(op', Tail(op.todo))
      BY <1>1, <1>3, <1>10 DEF Passed
    <2> QED BY <2>3, <2>4, <2>5 DEF Turn, Advances, Resumptions
  <1>11. CASE /\ Current.command \in {"scopes", "variables"} /\ StillThere /\ op.name = "find"
              /\ exec' = x /\ op' = Follow(<<Step("unreadable")>>)
    BY <1>1, <1>3, <1>11 DEF Turn, IsUnreadable, StillThere
  <1>12. CASE At("condition") /\ exec' = x /\ op' = Advanced
    BY <1>1, <1>2, <1>3, <1>4, <1>12 DEF Turn, Advances, Resumptions, Passed, AtStop, Drifts
  <1>13. CASE /\ At("condition") /\ exec' = x
              /\ op' = Follow(<<Step("continue"), Step("stable"), Step("outcome")>>)
    <2> DEFINE todo == <<Step("continue"), Step("stable"), Step("outcome")>>
    <2>1. \A i \in DOMAIN todo : todo[i].command \in RunSteps
      BY DEF Step, RunSteps
    <2> HIDE DEF todo
    <2>2. Goes(op', todo)
      BY <1>3, <1>13 DEF todo
    <2> QED BY <1>2, <1>13, <2>1, <2>2 DEF Turn, Detours, Goes
  <1>14. CASE /\ Current.command \in Changes /\ (r.ok \/ LooksUp(Current))
              /\ exec' = Configured(x, Current) /\ op' = Looked
    <2>1. Awaits = op.waits
      BY <1>4, <1>14 DEF Awaits, Changes
    <2>2. \/ op' = Advanced
          \/ /\ Current.command = "evaluate"
             /\ op' = Follow(<<[Current EXCEPT !.on = "list"]>> \o Tail(op.todo))
      BY <1>14 DEF Looked
    <2>3. /\ exec'.active = Configured(exec, Current).active /\ exec'.adapter = x.adapter
          /\ exec'.state = x.state /\ exec'.thread = x.thread /\ exec'.windows = x.windows
          /\ exec'.whole = x.whole
      <3>1. exec \in Executions /\ x.active = exec.active
        BY DEF Typed, ExecutionTyped, Twin
      <3> QED BY ZenonT(60), <1>1, <1>14, <3>1, ConfiguredFields
    <2> QED BY <1>1, <1>3, <1>14, <2>1, <2>2, <2>3 DEF Turn, Confirms, Given, Twin
  <1>15. CASE /\ Current.command \in Resumptions \cup {"configurationDone", "launched"}
              /\ exec' = x /\ op' = Advanced
    <2>1. /\ Current.command \notin AtStop /\ ~At("window") /\ ~At("stackTrace")
          /\ Current.command \in Resumptions => op.waits # NoRequest
      BY <1>4, <1>15 DEF Resumptions, AtStop, Awaits
    <2> QED BY <1>1, <1>2, <1>3, <1>15, <2>1 DEF Turn, Advances, Resumptions, Passed, Drifts
  <1>16. CASE Fails(x, FALSE)
    BY <1>1, <1>2, <1>16, FailsTurns
  <1>17. ASSUME op' \in {Advanced}
                        \cup IF r.ok /\ StillThere
                             THEN {Follow(<<Step("continue"), Step("stable"),
                                            Step("outcome")>>)}
                             ELSE {}
         PROVE  op' = Advanced \/ op' = Follow(<<Step("continue"), Step("stable"), Step("outcome")>>)
    BY <1>17
  <1> QED BY <1>5, <1>6, <1>7, <1>8, <1>9, <1>10, <1>11, <1>12, <1>13, <1>14, <1>15, <1>16,
             <1>17

LEMMA ExecTwin == Typed => Twin(exec) /\ Drifts(exec) /\ exec \in Executions /\ Sound(exec)
  BY DEF Typed, ExecutionTyped, Twin, Drifts, Sound

LEMMA TakeBufferedTurns ==
  ASSUME Typed, TakeBuffered
  PROVE  Turn
  <1> DEFINE r == Taken(exec.inbox, Awaits)
             x == [exec EXCEPT !.inbox = Without(@, r)]
  <1>1. exec \in Executions /\ Alike(exec)
    BY ExecTwin, ExecIsAlike
  <1>2. r \in exec.inbox /\ r.to = Awaits /\ Awaits # NoRequest /\ Waiting
    BY DEF TakeBuffered, Buffered, Taken
  <1>3. Match(x, r)
    BY DEF TakeBuffered
  <1> HIDE DEF r
  <1>4. /\ exec.inbox \in SUBSET Messages
        /\ \A m \in exec.inbox : IsResponse(m) /\ m.to < exec.next
    BY <1>1 DEF Alike, Sound, Executions, Coherent
  <1>5. r \in Messages /\ Given(r)
    BY <1>2, <1>4 DEF Given
  <1>6. Without(exec.inbox, r) \in SUBSET Messages
    BY <1>4 DEF Without
  <1>7. Twin(x)
    BY <1>1, <1>6 DEF Twin, Executions
  <1>8. /\ Without(exec.inbox, r) \in SUBSET Messages
        /\ \A m \in Without(exec.inbox, r) : IsResponse(m) /\ m.to < exec.next
    BY <1>4 DEF Without
  <1>9. Alike(x)
    BY <1>1, <1>8, OtherInbox
  <1> HIDE DEF x
  <1> QED BY <1>2, <1>3, <1>5, <1>7, <1>9, MatchTurns

LEMMA ObserveTurns ==
  ASSUME Typed, NEW e \in Messages, Observe(e), Waiting
  PROVE  Turn
  <1>1. op \in Operations /\ op.todo # <<>> /\ exec \in Executions /\ Drifts(exec) /\ Sound(exec)
    BY ExecIsAlike, ExecTwin DEF Operates
  <1>2. CASE ~Accepts(exec, e)
    <2>1. Fails(exec, At("stable") = FALSE)
      BY <1>2 DEF Observe
    <2> QED BY <1>1, <2>1, FailsTurns
  <1>3. CASE Accepts(exec, e) /\ At("disconnect") /\ e.name \in Ends
    <2>1. exec' = Finished(Accepted(exec, e)) /\ op' = Advanced
      BY <1>3 DEF Observe
    <2>2. Accepted(exec, e) \in Executions /\ Drifts(Accepted(exec, e))
      BY <1>1, <1>3, AcceptedDrifts, AcceptedIsSound DEF Sound
    <2>3. Drifts(exec')
      BY <2>1, <2>2, EndsDrift
    <2>4. Goes(op', Tail(op.todo))
      BY <1>1, <2>1, CallsGoOn
    <2>5. Current.command = "disconnect" /\ ~At("stackTrace") /\ ~At("window")
      BY <1>3 DEF At, Current
    <2> QED BY <1>1, <2>3, <2>4, <2>5 DEF Turn, Advances, Resumptions, Passed, AtStop, Drifts
  <1>4. CASE Accepts(exec, e) /\ ~(At("disconnect") /\ e.name \in Ends)
    <2> DEFINE b == op.stale \/ e.name = "stopped"
    <2>1. exec' = Accepted(exec, e) /\ op' = [op EXCEPT !.stale = b] /\ b \in BOOLEAN
      BY <1>4 DEF Observe
    <2> HIDE DEF b
    <2>2. Drifts(exec') /\ (InReach(exec) => InReach(exec'))
      BY <1>1, <1>4, <2>1, AcceptedDrifts
    <2> QED BY <1>1, <2>1, <2>2, CallsStay DEF Turn, Stays
  <1> QED BY <1>2, <1>3, <1>4

LEMMA ReceiveTurns ==
  ASSUME Typed, Has, Receive
  PROVE  Turn
  <1> DEFINE m == Head(adapters[exec.adapter].messages)
  <1>1. /\ op \in Operations /\ op.todo # <<>> /\ exec \in Executions /\ Drifts(exec)
        /\ Twin(exec) /\ Alike(exec)
    BY ExecIsAlike, ExecTwin DEF Operates, Receive
  <1>2. exec.adapter \in DOMAIN adapters /\ adapters[exec.adapter].messages # <<>> /\ Waiting
    BY DEF Typed, ExecutionTyped, Receive
  <1>3. m \in Messages /\ m \in Heard(exec.adapter)
    BY <1>2, HeadMessage
  <1>4. \/ IsEvent(m) /\ Observe(m)
        \/ Matches(m, Awaits) /\ Match(exec, m)
        \/ Fails(exec, TRUE)
        \/ exec' = [exec EXCEPT !.inbox = @ \cup {m}] /\ UNCHANGED op
    BY DEF Receive
  <1> HIDE DEF m
  <1>5. CASE Observe(m)
    BY <1>2, <1>3, <1>5, ObserveTurns
  <1>6. CASE Matches(m, Awaits) /\ Match(exec, m)
    <2>1. m.to \in Nat /\ Given(m) /\ m.to = Awaits
      BY <1>3, <1>6 DEF Messages, Given, Matches
    <2>2. Awaits # NoRequest
      BY <2>1 DEF NoRequest
    <2> QED BY <1>1, <1>2, <1>3, <1>6, <2>1, <2>2, MatchTurns
  <1>7. CASE Fails(exec, TRUE)
    BY <1>1, <1>7, FailsTurns
  <1>8. CASE exec' = [exec EXCEPT !.inbox = @ \cup {m}] /\ UNCHANGED op
    <2>1. exec.inbox \cup {m} \in SUBSET Messages
      BY <1>1, <1>3 DEF Executions
    <2>2. Twin(exec')
      BY <1>1, <1>8, <2>1 DEF Twin, Executions
    <2>3. Drifts(exec') /\ (InReach(exec) => InReach(exec'))
      BY <1>1, <2>2 DEF Twin, Drifts, Over, InReach
    <2> QED BY <1>1, <1>2, <1>8, <2>3, CallsStay DEF Turn, Stays
  <1> QED BY <1>4, <1>5, <1>6, <1>7, <1>8

LEMMA DisconnectTurns ==
  ASSUME Typed, ReadEnd \/ SkipDisconnect \/ TimesOut
  PROVE  Turn
  <1>1. /\ op \in Operations /\ exec \in Executions /\ Drifts(exec)
        /\ ReadEnd => op.todo # <<>>
    BY ExecIsAlike, ExecTwin DEF Operates, ReadEnd
  <1>2. Drifts(Finished(exec)) /\ Drifts(Failed(exec))
    BY <1>1, EndsDrift
  <1>3. \/ /\ At("disconnect") \/ At("condition")
           /\ exec' \in {Finished(exec), Failed(exec)} /\ op' = Advanced
        \/ op.todo # <<>> /\ Fails(exec, TRUE)
    BY <1>1 DEF ReadEnd, SkipDisconnect, NothingToEnd, TimesOut
  <1>4. CASE /\ At("disconnect") \/ At("condition")
             /\ exec' \in {Finished(exec), Failed(exec)} /\ op' = Advanced
    <2>1. Goes(op', Tail(op.todo)) /\ Drifts(exec') /\ op.todo # <<>>
      BY <1>1, <1>2, <1>4, CallsGoOn DEF At
    <2>2. Current.command \in {"disconnect", "condition"} /\ ~At("stackTrace") /\ ~At("window")
      BY <1>4 DEF At, Current
    <2> QED BY <2>1, <2>2 DEF Turn, Advances, Resumptions, Passed, AtStop, Drifts
  <1>5. CASE op.todo # <<>> /\ Fails(exec, TRUE)
    BY <1>1, <1>5, FailsTurns
  <1> QED BY <1>3, <1>4, <1>5

LEMMA WaitEndsTurns ==
  ASSUME Typed, WaitEnds
  PROVE  Turn
  <1>1. op \in Operations /\ Drifts(exec) /\ exec' = exec
    BY ExecIsAlike, ExecTwin DEF Operates, WaitEnds
  <1>2. CASE At("initialized") /\ exec.state = "Exited"
    <2> DEFINE todo == <<Step("outcome")>>
    <2>1. \A i \in DOMAIN todo : todo[i].command \in RunSteps
      BY DEF Step, RunSteps
    <2>2. op' = Follow(todo)
      BY <1>2 DEF WaitEnds
    <2> HIDE DEF todo
    <2>3. Goes(op', todo)
      BY <1>1, <2>2, CallsGoOn
    <2> QED BY <1>1, <1>2, <2>1, <2>3 DEF Turn, Detours, Goes
  <1>3. CASE ~(At("initialized") /\ exec.state = "Exited")
    <2>1. Goes(op', Tail(op.todo))
      BY <1>1, <1>3, CallsGoOn DEF WaitEnds
    <2>2. /\ op.todo # <<>> /\ Current.command \in {"launched", "stable", "initialized"}
          /\ ~At("stackTrace") /\ ~At("window")
      BY DEF WaitEnds, At, Current
    <2> QED BY <1>1, <2>1, <2>2 DEF Turn, Advances, Resumptions, Passed, AtStop, Drifts
  <1> QED BY <1>2, <1>3

LEMMA OutcomeTurns ==
  ASSUME Typed, Outcome
  PROVE  Turn
  <1> DEFINE Threads == IF exec.thread = NoThread THEN <<Step("threads")>> ELSE <<>>
             Testing(tested) == IF tested THEN <<Step("condition")>> ELSE <<>>
             R == {Step(c) : c \in RunSteps}
  <1>1. /\ op \in Operations /\ op.todo # <<>> /\ exec \in Executions /\ Drifts(exec)
        /\ At("outcome")
    BY ExecIsAlike, ExecTwin DEF Operates, Outcome, At
  <1>2. \/ UNCHANGED exec /\ op' = Follow(<<Step("complete")>>)
        \/ /\ UNCHANGED exec
           /\ \E tested : op' = Follow(Threads \o <<Step("window")>> \o Testing(tested))
        \/ Fails(exec, FALSE)
    BY Zenon DEF Outcome
  <1>3. /\ Step("complete") \in R /\ Step("threads") \in R /\ Step("window") \in R
        /\ Step("condition") \in R
    BY DEF RunSteps
  <1>4. \A s \in R : s.command \in RunSteps
    BY DEF Step
  <1> HIDE DEF R
  <1>5. <<Step("complete")>> \in Seq(R)
    BY <1>3
  <1>6. ASSUME NEW tested PROVE Threads \o <<Step("window")>> \o Testing(tested) \in Seq(R)
    <2>1. Threads \in Seq(R) /\ <<Step("window")>> \in Seq(R) /\ Testing(tested) \in Seq(R)
      BY <1>3
    <2> HIDE DEF Threads, Testing
    <2> QED BY <2>1
  <1> HIDE DEF Threads, Testing
  <1>7. ASSUME UNCHANGED exec, NEW todo \in Seq(R), op' = Follow(todo)
        PROVE  Turn
    <2>1. Goes(op', todo)
      BY <1>1, <1>7, CallsGoOn
    <2>2. \A i \in DOMAIN todo : todo[i].command \in RunSteps
      BY <1>4
    <2> QED BY <1>1, <1>7, <2>1, <2>2 DEF Turn, Detours, Goes
  <1> QED BY <1>1, <1>2, <1>5, <1>6, <1>7, FailsTurns

LEMMA LoadWindowTurns ==
  ASSUME Typed, LoadWindow
  PROVE  Turn
  <1>1. /\ op \in Operations /\ op.todo # <<>> /\ exec \in Executions /\ Drifts(exec)
        /\ At("window") /\ Current.command = "window" /\ ~At("stackTrace")
    BY ExecIsAlike, ExecTwin DEF Operates, LoadWindow, At, Current
  <1>2. CASE Fails(exec, FALSE)
    BY <1>1, <1>2, FailsTurns
  <1>3. ASSUME exec.state = "Stopped", exec.thread # NoThread,
               0 .. op.page - 1 \subseteq exec.windows, UNCHANGED exec
        PROVE  Turn
    <2>1. InReach(exec)
      BY <1>3 DEF InReach
    <2>2. CASE (op.page \in exec.windows \/ exec.whole) /\ op' = Advanced
      <3>1. Goes(op', Tail(op.todo))
        BY <1>1, <2>2, CallsGoOn
      <3>2. Current.command \in Passed
        BY <1>1 DEF Passed
      <3> QED BY <1>1, <1>3, <2>1, <2>2, <3>1, <3>2 DEF Turn, Advances, Resumptions
    <2>3. CASE op' = Follow(<<Step("stackTrace")>> \o Tail(op.todo))
      BY <1>1, <1>3, <2>3, CallsGoOn DEF Turn, Reloads
    <2> QED BY <1>3, <1>1, <2>2, <2>3 DEF LoadWindow
  <1> QED BY <1>2, <1>3 DEF LoadWindow

LEMMA SendTurns ==
  ASSUME Typed, Send
  PROVE  Turn
  <1> DEFINE c == Current.command
  <1>1. /\ op \in Operations /\ op.todo # <<>> /\ Sound(exec) /\ exec \in Executions
        /\ Drifts(exec) /\ op.waits = NoRequest
        /\ c \in Awaited \cup {"launch"}
    BY ExecIsAlike, ExecTwin DEF Operates, Send
  <1>2. MaySend(c) => /\ Drifts(Sending(c)) /\ Sending(c) \in Executions
                      /\ c \in Resumptions => Sending(c).windows = {}
                      /\ c \notin Resumptions \cup {"launch", "configurationDone"} =>
                            Sending(c) = exec
    BY <1>1, SendingDrifts
  <1>3. At("launch") <=> c = "launch"
    BY <1>1 DEF At, Current
  <1>4. CASE Fails(exec, FALSE) \/ (MaySend(c) /\ Fails(Sending(c), FALSE))
    BY <1>1, <1>2, <1>4, FailsTurns
  <1>5. ASSUME MaySend(c), exec' = [Sending(c) EXCEPT !.next = @ + 1],
               op' = IF At("launch") THEN [Advanced EXCEPT !.launch = exec.next]
                     ELSE [op EXCEPT !.waits = exec.next, !.stale = FALSE]
        PROVE  Turn
    <2> DEFINE y == Sending(c)
    <2> HIDE DEF y
    <2>1. y \in Executions /\ exec' = [y EXCEPT !.next = @ + 1]
      BY <1>2, <1>5 DEF y
    <2>2. /\ exec'.adapter = y.adapter /\ exec'.active = y.active /\ exec'.state = y.state
          /\ exec'.windows = y.windows /\ exec'.whole = y.whole /\ exec'.thread = y.thread
      BY <2>1 DEF Executions
    <2>3. /\ Drifts(y) /\ (c \in Resumptions => y.windows = {})
          /\ c \notin Resumptions \cup {"launch", "configurationDone"} => y = exec
      BY <1>2, <1>5 DEF y
    <2>4. Drifts(exec') /\ (c \in Resumptions => exec'.windows = {})
      BY <2>2, <2>3 DEF Drifts, Over
    <2>5. c \notin Resumptions \cup {"launch", "configurationDone"} =>
             (InReach(exec) => InReach(exec'))
      BY <2>2, <2>3 DEF InReach
    <2>6. CASE At("launch")
      <3>1. Goes(op', Tail(op.todo))
        BY <1>1, <1>5, <2>6, CallsGoOn
      <3>2. c = "launch" /\ ~At("window") /\ ~At("stackTrace")
        BY <1>3, <2>6 DEF At, Current
      <3> QED BY <1>1, <2>4, <3>1, <3>2 DEF Turn, Advances, Resumptions, Passed, AtStop, Drifts
    <2>7. CASE ~At("launch")
      <3>1. op'.todo = op.todo /\ op'.waits = exec.next /\ SameCall(op')
        BY <1>1, <1>5, <2>7, CallsStay
      <3> QED BY <1>1, <1>3, <2>4, <2>5, <2>7, <3>1 DEF Turn, Sends
    <2> QED BY <2>6, <2>7
  <1> QED BY <1>4, <1>5 DEF Send

-----------------------------------------------------------------------------
(* Every step is one of its operation, in order.                             *)

\* Which operation has a step.
LEMMA Letters ==
  ASSUME NEW o \in Operations, NEW c \in Alphabet(o)
  PROVE  /\ c \in Changes => o.name \in {"launch", "sync"} /\ ~o.failing /\ ~o.settling
         /\ c \in {"condition", "outcome", "initialized"} =>
               /\ o.name \in {"launch", "resume"} /\ ~o.failing /\ ~o.settling
               /\ RunSteps \subseteq Alphabet(o)
         /\ c \in {"release", "prepare"} => o.name = "launch" /\ ~o.failing /\ ~o.settling
         /\ c = "complete" => o.name \in {"launch", "resume"} /\ ~o.failing
         /\ c = "unreadable" => o.name = "find" /\ ~o.failing
         /\ c \in {"scopes", "variables"} => o.name \in {"find", "locals"} /\ ~o.failing
         /\ c = "window" => "stackTrace" \in Alphabet(o) /\ ~o.failing /\ o.name # "quit"
         /\ o.failing \/ o.name = "quit" => c \in {"disconnect", "discard", "close"}
         /\ c = "discard" => o.failing /\ o.name # "quit"
         /\ c = "close" => o.name = "quit"
         /\ c \in Resumptions \cup {"configurationDone"} =>
               o.name \in {"launch", "resume"} /\ ~o.settling
         /\ o.name \in {"sync", "find", "locals", "stack"} \/ (o.settling /\ o.name # "quit") =>
               (~o.failing /\ c \in Passed => c \in AtStop)
  BY DEF Alphabet, Operations, Changes, RunSteps, LaunchCommands, Resumptions, Passed, AtStop

LEMMA OrderStays ==
  ASSUME NEW todo \in Seq(Steps), todo # <<>>, Ordered(todo)
  PROVE  /\ Ordered(Tail(todo))
         /\ \A h \in Steps : h.command = Head(todo).command \/ Head(todo).command = "window" =>
               Ordered(<<h>> \o Tail(todo))
  <1>1. /\ Tail(todo) \in Seq(Steps) /\ 1 \in DOMAIN todo /\ Head(todo) = todo[1]
        /\ \A i \in DOMAIN Tail(todo) : i + 1 \in DOMAIN todo /\ Tail(todo)[i] = todo[i + 1]
        /\ \A h \in Steps : /\ <<h>> \o Tail(todo) \in Seq(Steps)
                            /\ DOMAIN (<<h>> \o Tail(todo)) = DOMAIN todo
                            /\ (<<h>> \o Tail(todo))[1] = h
                            /\ \A i \in DOMAIN todo : i # 1 => (<<h>> \o Tail(todo))[i] = todo[i]
    BY TailSteps
  <1>2. Ordered(Tail(todo))
    <2> SUFFICES ASSUME NEW i \in DOMAIN Tail(todo), NEW j \in DOMAIN Tail(todo), i < j
                 PROVE  /\ Tail(todo)[j].command \in Changes =>
                              Tail(todo)[i].command \in Changes \cup {"launch", "initialized"}
                        /\ Tail(todo)[j].command = "release" => Tail(todo)[i].command = "disconnect"
                        /\ Tail(todo)[j].command # "prepare"
      BY DEF Ordered
    <2>1. i \in Nat /\ j \in Nat
      BY <1>1
    <2>2. i + 1 \in DOMAIN todo /\ j + 1 \in DOMAIN todo /\ i + 1 < j + 1
      BY <1>1, <2>1
    <2> QED BY <1>1, <2>2 DEF Ordered
  <1>3. ASSUME NEW h \in Steps, h.command = Head(todo).command \/ Head(todo).command = "window"
        PROVE  Ordered(<<h>> \o Tail(todo))
    <2> DEFINE t == <<h>> \o Tail(todo)
    <2>1. /\ DOMAIN t = DOMAIN todo /\ t[1] = h
          /\ \A i \in DOMAIN todo : i # 1 => t[i] = todo[i]
          /\ DOMAIN todo \subseteq Nat /\ \A i \in DOMAIN todo : i >= 1
      BY <1>1
    <2> HIDE DEF t
    <2> SUFFICES ASSUME NEW i \in DOMAIN t, NEW j \in DOMAIN t, i < j
                 PROVE  /\ t[j].command \in Changes =>
                              t[i].command \in Changes \cup {"launch", "initialized"}
                        /\ t[j].command = "release" => t[i].command = "disconnect"
                        /\ t[j].command # "prepare"
      BY DEF Ordered, t
    <2>2. j # 1 /\ t[j] = todo[j] /\ j \in DOMAIN todo /\ i \in DOMAIN todo
      BY <2>1
    <2>3. /\ todo[j].command \in Changes =>
                todo[i].command \in Changes \cup {"launch", "initialized"}
          /\ todo[j].command = "release" => todo[i].command = "disconnect"
          /\ todo[j].command # "prepare"
      BY <2>2 DEF Ordered
    <2>4. i = 1 => todo[i].command = h.command \/ todo[i].command = "window"
      BY <1>1, <1>3
    <2>5. i # 1 => t[i] = todo[i]
      BY <2>1, <2>2
    <2> QED BY <2>1, <2>2, <2>3, <2>4, <2>5 DEF Changes
  <1> QED BY <1>2, <1>3

LEMMA TailLast ==
  ASSUME NEW T, NEW s \in Seq(T), s # <<>>, s[Len(s)] # Head(s)
  PROVE  Tail(s) # <<>> /\ Tail(s)[Len(Tail(s))] = s[Len(s)]
  <1>1. Len(s) \in Nat /\ Len(s) >= 2
    OBVIOUS
  <1>2. Len(Tail(s)) = Len(s) - 1 /\ \A i \in 1 .. Len(Tail(s)) : Tail(s)[i] = s[i + 1]
    BY <1>1
  <1> QED BY <1>1, <1>2

\* The head of the steps is one of the operation, and so is the rest.
LEMMA HeadBelongs ==
  ASSUME op \in Operations, op.todo # <<>>, NEW goal, Shaped(op, goal)
  PROVE  /\ op.todo \in Seq(Steps) /\ Current \in Steps /\ Belongs(Current, op, goal)
         /\ Current.command \in Alphabet(op) /\ op.name # "idle"
         /\ \A c : At(c) <=> Current.command = c
         /\ Tail(op.todo) \in Seq(Steps)
         /\ \A i \in DOMAIN Tail(op.todo) : Belongs(Tail(op.todo)[i], op, goal)
  <1>1. op.todo \in Seq(Steps)
    BY DEF Operations
  <1>2. /\ Tail(op.todo) \in Seq(Steps) /\ Head(op.todo) \in Steps
        /\ 1 \in DOMAIN op.todo /\ Head(op.todo) = op.todo[1]
        /\ \A i \in DOMAIN Tail(op.todo) :
              i + 1 \in DOMAIN op.todo /\ Tail(op.todo)[i] = op.todo[i + 1]
    BY <1>1, TailSteps
  <1>3. Belongs(Current, op, goal) /\ \A i \in DOMAIN Tail(op.todo) : Belongs(Tail(op.todo)[i], op, goal)
    BY <1>2 DEF Shaped, Current
  <1>4. op.name # "idle"
    BY DEF Shaped, Idle, Doing
  <1> QED BY <1>1, <1>2, <1>3, <1>4 DEF Belongs, At, Current

LEMMA SameLetters ==
  ASSUME NEW o, SameCall(o), NEW on
  PROVE  Alphabet(o) = Alphabet(op) /\ Goal(o, on) = Goal(op, on)
         /\ \A s, goal : Belongs(s, o, goal) <=> Belongs(s, op, goal)
  <1>1. Alphabet(o) = Alphabet(op) /\ Goal(o, on) = Goal(op, on)
    BY DEF SameCall, Alphabet, Goal
  <1> QED BY <1>1 DEF Belongs

LEMMA ShapeTurns ==
  ASSUME Typed, op' \in Operations, UNCHANGED applied, op.todo # <<>>,
         Shaped(op, Goal(op, applied)), Turn
  PROVE  Shaped(op', Goal(op', applied'))
  <1> DEFINE goal == Goal(op, applied)
             o == op'
  <1>1. op \in Operations
    BY DEF Typed, Operates
  <1> HIDE DEF goal
  <1>2. Shaped(op, goal)
    BY DEF goal
  <1>3. /\ op.todo \in Seq(Steps) /\ Current \in Steps /\ Belongs(Current, op, goal)
        /\ Current.command \in Alphabet(op) /\ op.name # "idle"
        /\ \A c : At(c) <=> Current.command = c
        /\ Tail(op.todo) \in Seq(Steps)
        /\ \A i \in DOMAIN Tail(op.todo) : Belongs(Tail(op.todo)[i], op, goal)
    BY <1>1, <1>2, HeadBelongs
  <1>4. /\ Ordered(op.todo) /\ Ordered(Tail(op.todo))
        /\ \A h \in Steps : h.command = Current.command \/ Current.command = "window" =>
              Ordered(<<h>> \o Tail(op.todo))
    BY <1>2, <1>3, OrderStays DEF Shaped, Current
  <1>5. ASSUME SameCall(o)
        PROVE  /\ Goal(o, applied') = goal /\ o.name # "idle"
               /\ o.settling => o.name \in {"launch", "resume"}
               /\ \A s : Belongs(s, o, goal) <=> Belongs(s, op, goal)
               /\ Alphabet(o) = Alphabet(op)
    BY <1>2, <1>3, <1>5, SameLetters DEF goal, Shaped, SameCall
  <1>15. Expects(o)
    <2>1. CASE GivesUp
      BY <1>1, <2>1 DEF GivesUp, Operations, Follow, Expects
    <2>2. CASE Stays
      BY <1>2, <2>2 DEF Stays, Shaped, Expects
    <2>3. CASE Sends
      BY <2>3 DEF Sends, Expects, Current
    <2>4. CASE Confirms \/ Advances \/ Detours \/ IsUnreadable \/ Reloads
      BY <2>4 DEF Confirms, Advances, Detours, IsUnreadable, Reloads, Goes, Expects
    <2> QED BY <2>1, <2>2, <2>3, <2>4 DEF Turn
  <1>6. CASE GivesUp
    <2> DEFINE f == [Follow(Recovery) EXCEPT !.failing = TRUE]
    <2>1. /\ o.name = op.name /\ o.want = op.want /\ o.settling = op.settling /\ o.failing = TRUE
          /\ o.todo = Recovery
      BY <1>1, <1>6 DEF GivesUp, Operations, Follow
    <2>2. CASE o.todo = <<Step("close")>> /\ o.name = "quit"
      <3>1. \A i \in DOMAIN o.todo : o.todo[i].command = "close"
        BY <2>2 DEF Step
      <3>2. "close" \in Alphabet(o)
        BY <2>2 DEF Alphabet
      <3>3. Ordered(o.todo)
        BY <3>1 DEF Ordered, Changes
      <3>4. o.todo # <<>> /\ o.todo[Len(o.todo)].command # "disconnect"
        BY <2>2 DEF Step
      <3>5. \A i \in DOMAIN o.todo : Belongs(o.todo[i], o, Goal(o, applied'))
        BY <3>1, <3>2 DEF Belongs, Changes
      <3> QED BY <1>15, <1>2, <1>3, <2>1, <3>3, <3>4, <3>5 DEF Shaped, Closes
    <2>3. CASE o.todo \in {<<Step("discard")>>, <<Step("disconnect"), Step("discard")>>}
               /\ o.name # "quit"
      <3>1. \A i \in DOMAIN o.todo : o.todo[i].command \in {"disconnect", "discard"}
        BY <2>3 DEF Step
      <3>2. {"disconnect", "discard"} \subseteq Alphabet(o)
        BY <2>1, <2>3 DEF Alphabet
      <3>3. Ordered(o.todo)
        BY <3>1 DEF Ordered, Changes
      <3>4. o.todo # <<>> /\ o.todo[Len(o.todo)].command # "disconnect"
        <4>1. CASE o.todo = <<Step("discard")>>
          BY <4>1 DEF Step
        <4>2. CASE o.todo = <<Step("disconnect"), Step("discard")>>
          <5>1. Len(o.todo) = 2 /\ o.todo[2] = Step("discard") /\ o.todo # <<>>
            BY <4>2
          <5> QED BY <5>1 DEF Step
        <4> QED BY <2>3, <4>1, <4>2
      <3>5. \A i \in DOMAIN o.todo : Belongs(o.todo[i], o, Goal(o, applied'))
        BY <3>1, <3>2 DEF Belongs, Changes
      <3> QED BY <1>15, <1>2, <1>3, <2>1, <3>3, <3>4, <3>5 DEF Shaped, Closes
    <2> QED BY <2>1, <2>2, <2>3 DEF Recovery
  <1>7. CASE SameCall(o) /\ o.todo = op.todo
    BY <1>2, <1>5, <1>7, <1>15 DEF Shaped, Closes, SameCall
  <1>8. CASE SameCall(o) /\ o.todo = Tail(op.todo) /\ Current.command \notin {"discard", "close"}
    <2>1. ASSUME o.failing \/ o.name = "quit"
          PROVE  o.todo # <<>> /\ o.todo[Len(o.todo)].command # "disconnect"
      <3>1. op.failing \/ op.name = "quit"
        BY <1>8, <2>1 DEF SameCall
      <3>2. op.todo[Len(op.todo)].command # "disconnect" /\ Current.command = "disconnect"
        BY <1>1, <1>2, <1>3, <1>8, <3>1, Letters DEF Shaped, Closes
      <3>3. Tail(op.todo) # <<>> /\ Tail(op.todo)[Len(Tail(op.todo))] = op.todo[Len(op.todo)]
        BY <1>3, <3>2, TailLast DEF Current
      <3> QED BY <1>8, <3>2, <3>3
    <2> QED BY <1>15, <1>3, <1>4, <1>5, <1>8, <2>1 DEF Shaped, Closes
  <1>9. ASSUME SameCall(o), NEW h \in Steps, o.todo = <<h>> \o Tail(op.todo), Belongs(h, op, goal),
               h.command = Current.command \/ Current.command = "window",
               ~op.failing, op.name # "quit"
        PROVE  Shaped(o, Goal(o, applied'))
    <2>1. /\ DOMAIN o.todo = DOMAIN op.todo /\ o.todo[1] = h
          /\ \A i \in DOMAIN op.todo : i # 1 => o.todo[i] = op.todo[i]
      BY <1>3, <1>9, TailSteps
    <2>2. \A i \in DOMAIN o.todo : Belongs(o.todo[i], o, goal)
      BY <1>2, <1>5, <1>9, <2>1 DEF Shaped
    <2>3. ~(o.failing \/ o.name = "quit")
      BY <1>9 DEF SameCall
    <2> QED BY <1>15, <1>4, <1>5, <1>9, <2>2, <2>3 DEF Shaped, Closes
  <1>10. CASE Confirms
    <2>1. ~op.failing /\ op.name # "quit"
      BY <1>1, <1>3, <1>10, Letters DEF Confirms
    <2>2. CASE Goes(o, Tail(op.todo))
      BY <1>8, <1>10, <2>2 DEF Goes, Confirms, Changes
    <2>3. CASE /\ Current.command = "evaluate"
               /\ Goes(o, <<[Current EXCEPT !.on = "list"]>> \o Tail(op.todo))
      <3> DEFINE h == [Current EXCEPT !.on = "list"]
      <3>1. /\ h \in Steps /\ h.command = "evaluate" /\ h.on = "list"
        BY <1>3, <2>3 DEF Steps, StepRecords, Objects
      <3> HIDE DEF h
      <3>2. Belongs(h, op, goal)
        BY <1>3, <2>3, <3>1 DEF Belongs, Aims
      <3> QED BY <1>9, <2>1, <2>3, <3>1, <3>2 DEF Goes, h
    <2> QED BY <1>10, <2>2, <2>3 DEF Confirms
  <1>11. CASE Advances
    BY <1>8, <1>11 DEF Advances, Goes, Passed, Resumptions
  <1>12. CASE Detours
    <2>1. Current.command \in {"condition", "outcome", "initialized"} /\ SameCall(o)
      BY <1>3, <1>12 DEF Detours
    <2>2. /\ op.name \in {"launch", "resume"} /\ ~op.failing /\ RunSteps \subseteq Alphabet(op)
      BY <1>1, <1>3, <2>1, Letters
    <2>3. \A i \in DOMAIN o.todo : o.todo[i].command \in RunSteps
      BY <1>12 DEF Detours
    <2>4. \A i \in DOMAIN o.todo : Belongs(o.todo[i], o, goal)
      BY <1>5, <2>1, <2>2, <2>3 DEF Belongs, RunSteps, Changes
    <2>5. Ordered(o.todo)
      BY <2>3 DEF Ordered, RunSteps, Changes
    <2>6. ~(o.failing \/ o.name = "quit")
      BY <2>1, <2>2 DEF SameCall
    <2> QED BY <1>15, <1>5, <2>1, <2>4, <2>5, <2>6 DEF Shaped, Closes
  <1>13. CASE IsUnreadable
    <2>1. SameCall(o) /\ o.todo = <<Step("unreadable")>> /\ op.name = "find"
      BY <1>13 DEF IsUnreadable, Goes
    <2>2. ~op.failing /\ ~op.settling
      BY <1>1, <1>2, <1>3, <1>13, Letters DEF IsUnreadable, Shaped
    <2>3. \A i \in DOMAIN o.todo : o.todo[i].command = "unreadable"
      BY <2>1 DEF Step
    <2>4. \A i \in DOMAIN o.todo : Belongs(o.todo[i], o, goal)
      BY <1>5, <2>1, <2>2, <2>3 DEF Belongs, Alphabet, Changes
    <2>5. Ordered(o.todo)
      BY <2>3 DEF Ordered, Changes
    <2>6. ~(o.failing \/ o.name = "quit")
      BY <2>1, <2>2 DEF SameCall
    <2> QED BY <1>15, <1>5, <2>1, <2>4, <2>5, <2>6 DEF Shaped, Closes
  <1>14. CASE Reloads
    <2>1. Current.command = "window"
      BY <1>3, <1>14 DEF Reloads
    <2>2. "stackTrace" \in Alphabet(op) /\ ~op.failing /\ op.name # "quit"
      BY <1>1, <1>3, <2>1, Letters
    <2>3. Step("stackTrace") \in Steps /\ Step("stackTrace").command = "stackTrace"
      BY PlainSteps DEF Commands
    <2>4. Belongs(Step("stackTrace"), op, goal)
      BY <2>2, <2>3 DEF Belongs, Changes
    <2> QED BY <1>9, <1>14, <2>1, <2>2, <2>3, <2>4 DEF Reloads, Goes
  <1> QED BY <1>6, <1>7, <1>10, <1>11, <1>12, <1>13, <1>14 DEF Turn, Stays, Sends

-----------------------------------------------------------------------------
(* What looks at a stop is at one.                                           *)

\* What an operation that goes on to these steps does first.
LEMMA NextStep ==
  ASSUME op \in Operations, op.todo # <<>>, NEW goal, Shaped(op, goal), NEW o,
         SameCall(o), o.todo = Tail(op.todo)
  PROVE  /\ ~First(o, "prepare")
         /\ First(o, "unreadable") => op.name = "find" /\ ~op.failing
  <1>1. /\ op.todo \in Seq(Steps) /\ Tail(op.todo) \in Seq(Steps)
        /\ \A i \in DOMAIN Tail(op.todo) : Belongs(Tail(op.todo)[i], op, goal)
    BY HeadBelongs
  <1>2. ASSUME o.todo # <<>>
        PROVE  Head(o.todo).command # "prepare" /\ Head(o.todo).command \in Alphabet(op)
    <2>1. /\ 1 \in DOMAIN Tail(op.todo) /\ Head(o.todo) = Tail(op.todo)[1]
      BY <1>1, <1>2
    <2>2. Tail(op.todo)[1] = op.todo[2] /\ 1 \in DOMAIN op.todo /\ 2 \in DOMAIN op.todo
      BY <1>1, <2>1, TailSteps
    <2>3. op.todo[2].command # "prepare"
      BY <2>2 DEF Shaped, Ordered
    <2> QED BY <1>1, <2>1, <2>2, <2>3 DEF Belongs
  <1> QED BY <1>2, Letters DEF First

LEMMA HeadOfTail ==
  ASSUME op.todo \in Seq(Steps), op.todo # <<>>, NEW h \in Steps, NEW o,
         o.todo = <<h>> \o Tail(op.todo)
  PROVE  o.todo # <<>> /\ \A c : First(o, c) <=> h.command = c
  BY TailSteps DEF First

LEMMA ReachTurns ==
  ASSUME Typed, op' \in Operations, op.todo # <<>>, NEW goal, Shaped(op, goal), NEW phase,
         Reached(op, exec, phase), Turn, Has
  PROVE  Reached(op', exec', phase)
  <1> DEFINE o == op'
             x == exec'
             c == Current.command
  <1>1. op \in Operations
    BY DEF Typed, Operates
  <1>2. /\ op.todo \in Seq(Steps) /\ Current \in Steps /\ c \in Alphabet(op)
        /\ op.name # "idle" /\ \A d : At(d) <=> c = d
        /\ \A d : First(op, d) <=> c = d
        /\ op.settling => op.name \in {"launch", "resume"}
    BY <1>1, HeadBelongs DEF Shaped, First, Current
  <1>3. /\ c \in Changes => op.name \in {"launch", "sync"} /\ ~op.failing /\ ~op.settling
        /\ c \in {"condition", "outcome", "initialized"} =>
               op.name \in {"launch", "resume"} /\ ~op.failing /\ ~op.settling
        /\ c \in {"scopes", "variables"} => op.name \in {"find", "locals"} /\ ~op.failing
        /\ c = "window" => ~op.failing
        /\ c \in Resumptions \cup {"configurationDone"} =>
               op.name \in {"launch", "resume"} /\ ~op.settling
        /\ op.name \in {"sync", "find", "locals", "stack"} \/ (op.settling /\ op.name # "quit") =>
               (~op.failing /\ c \in Passed => c \in AtStop)
    BY <1>1, <1>2, Letters
  <1>4. ASSUME x.adapter = exec.adapter, o.name = op.name
        PROVE  phase = "Stopped" => x.adapter # 0 /\ o.name \in StopNames
    BY <1>4 DEF Reached
  <1>5. CASE GivesUp
    <2>1. o.name = op.name /\ o.failing /\ o.todo = Recovery
      BY <1>1, <1>5 DEF GivesUp, Operations, Follow
    <2>2. ~First(o, "prepare") /\ ~First(o, "unreadable")
      BY <2>1 DEF First, Recovery, Step
    <2> QED BY <1>2, <1>4, <1>5, <2>1, <2>2 DEF Reached, LooksAt, GivesUp
  <1>6. CASE Stays
    <2>1. c \in Awaited \cup {"initialized", "launched", "stable"}
      BY <1>2, <1>6 DEF Stays, Waiting, Shaped, Expects, Current
    <2>2. c \notin {"prepare", "unreadable"}
      BY <2>1 DEF Awaited, Resumptions
    <2>3. \A d : First(o, d) <=> c = d
      BY <1>2, <1>6 DEF Stays, First
    <2>4. LooksAt(o) <=> LooksAt(op)
      BY <1>2, <1>6, <2>3 DEF LooksAt, Stays, SameCall
    <2> QED BY <1>2, <1>4, <1>6, <2>2, <2>3, <2>4 DEF Reached, Stays, SameCall, Drifts
  <1>7. CASE Sends
    <2>1. c \in Awaited /\ c \notin {"prepare", "unreadable"}
      BY <1>7 DEF Sends, Awaited, Resumptions
    <2>2. \A d : First(o, d) <=> c = d
      BY <1>2, <1>7 DEF Sends, First
    <2>3. LooksAt(o) <=> LooksAt(op)
      BY <1>2, <1>7, <2>2 DEF LooksAt, Sends, SameCall
    <2>4. LooksAt(op) => c \notin Resumptions \cup {"configurationDone"}
      BY <1>3 DEF LooksAt
    <2> QED BY <1>2, <1>4, <1>7, <2>1, <2>2, <2>3, <2>4 DEF Reached, Sends, SameCall, Drifts
  <1>8. CASE Confirms
    <2>1. op.name \in {"launch", "sync"} /\ ~op.failing /\ ~op.settling /\ SameCall(o)
      BY <1>3, <1>8 DEF Confirms, Goes
    <2>2. LooksAt(o) => LooksAt(op) /\ o.name = "sync"
      BY <2>1 DEF LooksAt, SameCall
    <2>3. ~First(o, "prepare") /\ ~First(o, "unreadable")
      <3>1. CASE o.todo = Tail(op.todo)
        BY <1>1, <2>1, <3>1, NextStep
      <3>2. CASE c = "evaluate" /\ o.todo = <<[Current EXCEPT !.on = "list"]>> \o Tail(op.todo)
        <4> DEFINE h == [Current EXCEPT !.on = "list"]
        <4>1. h \in Steps /\ h.command = "evaluate"
          BY <1>2, <3>2 DEF Steps, StepRecords, Objects
        <4> HIDE DEF h
        <4>2. o.todo = <<h>> \o Tail(op.todo)
          BY <3>2 DEF h
        <4> QED BY <1>2, <4>1, <4>2, HeadOfTail
      <3> QED BY <1>8, <3>1, <3>2 DEF Confirms, Goes
    <2>4. InReach(exec) => InReach(x)
      BY <1>8 DEF Confirms, InReach
    <2> QED BY <1>2, <1>4, <1>8, <2>1, <2>2, <2>3, <2>4 DEF Reached, Confirms, SameCall
  <1>9. CASE Advances
    <2>1. SameCall(o) /\ o.todo = Tail(op.todo)
      BY <1>9 DEF Advances, Goes
    <2>2. ~First(o, "prepare") /\ (First(o, "unreadable") => op.name = "find" /\ ~op.failing)
      BY <1>1, <2>1, NextStep
    <2>3. LooksAt(o) => c \in AtStop /\ (LooksAt(op) \/ c = "window")
      BY <1>2, <1>3, <1>9, <2>1 DEF LooksAt, SameCall, Advances
    <2>4. LooksAt(o) => x.state = "Stopped" /\ InReach(x)
      BY <1>2, <1>9, <2>3 DEF Advances, Reached
    <2>5. First(o, "unreadable") => LooksAt(o)
      BY <2>1, <2>2 DEF LooksAt, SameCall
    <2> QED BY <1>2, <1>4, <1>9, <2>1, <2>2, <2>4, <2>5 DEF Reached, Advances, SameCall
  <1>10. CASE Detours
    <2>1. op.name \in {"launch", "resume"} /\ ~op.failing /\ ~op.settling /\ SameCall(o)
      BY <1>2, <1>3, <1>10 DEF Detours
    <2>2. ~First(o, "prepare") /\ ~First(o, "unreadable")
      <3>1. o.todo \in Seq(Steps)
        BY DEF Operations
      <3>2. o.todo # <<>> => 1 \in DOMAIN o.todo /\ Head(o.todo) = o.todo[1]
        BY <3>1, TailSteps
      <3> QED BY <1>10, <3>2 DEF Detours, First, RunSteps
    <2> QED BY <1>2, <1>4, <1>10, <2>1, <2>2 DEF Reached, Detours, SameCall, LooksAt, Drifts
  <1>11. CASE IsUnreadable
    <2>1. SameCall(o) /\ o.todo = <<Step("unreadable")>> /\ op.name = "find"
      BY <1>11 DEF IsUnreadable, Goes
    <2>2. ~op.failing /\ LooksAt(op)
      BY <1>3, <1>11, <2>1 DEF IsUnreadable, LooksAt
    <2>3. o.todo # <<>> /\ ~First(o, "prepare") /\ x.state = "Stopped"
      BY <1>11, <2>1 DEF First, Step, IsUnreadable, Twin
    <2>4. InReach(x) /\ x.adapter = exec.adapter
      BY <1>11, <2>2 DEF IsUnreadable, Twin, Reached, InReach
    <2> QED BY <1>2, <1>4, <2>1, <2>3, <2>4 DEF Reached, SameCall
  <1>12. CASE Reloads
    <2>1. Step("stackTrace") \in Steps /\ Step("stackTrace").command = "stackTrace"
      BY PlainSteps DEF Commands
    <2>2. SameCall(o) /\ o.todo = <<Step("stackTrace")>> \o Tail(op.todo) /\ x = exec
      BY <1>12 DEF Reloads, Goes
    <2>3. o.todo # <<>> /\ ~First(o, "prepare") /\ ~First(o, "unreadable")
      BY <1>2, <2>1, <2>2, HeadOfTail
    <2>4. InReach(x)
      BY <1>12 DEF Reloads, InReach
    <2> QED BY <1>2, <1>4, <2>2, <2>3, <2>4 DEF Reached, SameCall
  <1> QED BY <1>5, <1>6, <1>7, <1>8, <1>9, <1>10, <1>11, <1>12 DEF Turn

-----------------------------------------------------------------------------
(* The stack of a stop.                                                      *)

\* Which operation loads the stack.
LEMMA StackLetters ==
  ASSUME NEW o \in Operations, NEW c \in Alphabet(o), o.settling => o.name \in {"launch", "resume"}
  PROVE  /\ c \in {"window", "stackTrace"} => o.name \in {"stack", "launch", "resume"}
         /\ o.name = "stack" /\ ~o.failing => c \in {"window", "stackTrace"}
         /\ o.name \in {"launch", "resume"} /\ o.failing => c \notin LaunchCommands \ {"disconnect"}
  BY DEF Alphabet, Operations, Changes, RunSteps, LaunchCommands, Resumptions

\* Only what is first, or follows a disconnection, releases an execution or prepares.
LEMMA ReleaseFollows ==
  ASSUME NEW todo \in Seq(Steps), todo # <<>>, Ordered(todo),
         Head(todo).command \notin {"release", "prepare"},
         NEW i \in DOMAIN todo, todo[i].command \in {"release", "prepare"}
  PROVE  /\ Head(todo).command = "disconnect"
         /\ \E j \in DOMAIN Tail(todo) : Tail(todo)[j] = todo[i]
  <1>1. /\ 1 \in DOMAIN todo /\ Head(todo) = todo[1] /\ DOMAIN todo \subseteq Nat
        /\ \A k \in DOMAIN todo : k >= 1
        /\ i # 1 => i - 1 \in DOMAIN Tail(todo) /\ Tail(todo)[i - 1] = todo[i]
    BY TailSteps
  <1>2. 1 < i
    BY <1>1
  <1>3. todo[i].command = "release" => todo[1].command = "disconnect"
    BY <1>1, <1>2 DEF Ordered
  <1>4. todo[i].command # "prepare"
    BY <1>1, <1>2 DEF Ordered
  <1> QED BY <1>1, <1>2, <1>3, <1>4

\* The cached stack is kept or forgotten.
Forgets ==
    exec'.windows = {} \/ (exec'.windows = exec.windows /\ exec'.whole = exec.whole)

LEMMA ForgottenTurns ==
  ASSUME NEW v, Windowed(op, exec, v), op.todo # <<>>, SameCall(op'), Forgets,
         exec'.adapter = exec.adapter,
         op.name = "stack" /\ ~op.failing => op'.todo # <<>> /\ Tail(op'.todo) = <<>>,
         op.name \in {"launch", "resume"} /\ ~op.failing /\ exec.adapter # 0 =>
            \/ exec.windows \subseteq {0}
            \/ exec'.windows = {}
            \/ op'.waits = NoRequest /\ op'.todo # <<>> /\ Head(op'.todo).command \in Resumptions
            \/ \E i \in DOMAIN op'.todo : op'.todo[i].command \in {"release", "prepare"}
  PROVE  Windowed(op', exec', v)
  <1>1. Seen(exec, v) => Seen(exec', v)
    BY DEF Seen, Forgets
  <1>2. op'.name = "stack" /\ ~op'.failing =>
          /\ op'.page = v.windows /\ ~v.whole /\ op'.page >= 1
          /\ op'.todo # <<>> => Tail(op'.todo) = <<>> /\ Seen(exec', v)
          /\ op'.todo = <<>> => exec'.windows = 0 .. op'.page
    BY <1>1 DEF Windowed, SameCall
  <1>3. op'.name \in {"launch", "resume"} /\ ~op'.failing =>
          /\ op'.page = 0
          /\ \/ exec'.adapter = 0 \/ exec'.windows \subseteq {0}
             \/ op'.waits = NoRequest /\ op'.todo # <<>> /\ Head(op'.todo).command \in Resumptions
             \/ \E i \in DOMAIN op'.todo : op'.todo[i].command \in {"release", "prepare"}
    BY DEF Windowed, SameCall, Forgets
  <1>4. /\ v.phase = "Stopped" => v.windows >= 1
        /\ op'.name \in {"idle", "sync", "find", "locals"} /\ ~op'.failing /\ v.phase = "Stopped" =>
              Seen(exec', v)
    BY <1>1 DEF Windowed, SameCall
  <1> QED BY <1>2, <1>3, <1>4 DEF Windowed

LEMMA WindowTurns ==
  ASSUME Typed, op' \in Operations, exec' \in Executions, op.todo # <<>>,
         NEW goal, Shaped(op, goal), NEW v, Windowed(op, exec, v), Turn, Has
  PROVE  Windowed(op', exec', v)
  <1> DEFINE o == op'
             x == exec'
             c == Current.command
  <1>1. op \in Operations /\ exec \in Executions
    BY DEF Typed, Operates, ExecutionTyped
  <1>2. /\ op.todo \in Seq(Steps) /\ Current \in Steps /\ c \in Alphabet(op)
        /\ op.name # "idle" /\ \A d : At(d) <=> c = d
        /\ op.settling => op.name \in {"launch", "resume"}
        /\ Ordered(op.todo)
    BY <1>1, HeadBelongs DEF Shaped
  <1>3. /\ c \in Changes => op.name \in {"launch", "sync"} /\ ~op.failing /\ ~op.settling
        /\ c \in {"condition", "outcome", "initialized"} => op.name \in {"launch", "resume"}
        /\ c \in {"window", "stackTrace"} => op.name \in {"stack", "launch", "resume"}
        /\ op.name = "stack" /\ ~op.failing => c \in {"window", "stackTrace"}
        /\ op.name = "stack" /\ ~op.failing => Tail(op.todo) = <<>> /\ Seen(exec, v)
        /\ c \in {"scopes", "variables"} => op.name \in {"find", "locals"}
    BY <1>1, <1>2, Letters, StackLetters DEF Windowed
  <1>4. ASSUME NEW i \in DOMAIN op.todo, op.todo[i].command \in {"release", "prepare"},
               c \notin {"release", "prepare"}
        PROVE  /\ c = "disconnect"
               /\ \E j \in DOMAIN Tail(op.todo) : Tail(op.todo)[j] = op.todo[i]
    BY <1>2, <1>4, ReleaseFollows DEF Current
  <1>5. op.name \in {"launch", "resume"} /\ ~op.failing =>
          \/ exec.windows \subseteq {0}
          \/ op.waits = NoRequest /\ c \in Resumptions
          \/ \E i \in DOMAIN op.todo : op.todo[i].command \in {"release", "prepare"}
    BY DEF Windowed, Has, Current
  <1>6. CASE GivesUp
    <2>1. o.failing /\ o.name = op.name
      BY <1>1, <1>6 DEF GivesUp, Operations, Follow
    <2> QED BY <1>2, <2>1 DEF Windowed
  <1>7. CASE Stays \/ Sends
    <2>1. SameCall(o) /\ o.todo = op.todo /\ Forgets /\ x.adapter = exec.adapter
      BY <1>7 DEF Stays, Sends, Drifts, Forgets
    <2>2. op.waits = NoRequest /\ c \in Resumptions => o.waits = NoRequest \/ x.windows = {}
      BY <1>7 DEF Stays, Sends
    <2> QED BY <1>3, <1>5, <2>1, <2>2, ForgottenTurns DEF Current
  <1>8. CASE Confirms
    <2>1. c \in Changes /\ SameCall(o) /\ Forgets /\ x.adapter = exec.adapter /\ op.waits # NoRequest
      BY <1>8 DEF Confirms, Goes, Forgets
    <2>2. c \notin {"window", "stackTrace", "release", "prepare", "disconnect"}
      BY <2>1 DEF Changes
    <2> QED BY <1>3, <1>4, <1>5, <2>1, <2>2, ForgottenTurns
  <1>9. CASE Advances /\ c # "stackTrace"
    <2>1. SameCall(o) /\ Forgets /\ x.adapter = exec.adapter /\ o.todo = Tail(op.todo)
      BY <1>2, <1>9 DEF Advances, Goes, Forgets
    <2>2. c \notin {"release", "prepare"} /\ (c \in Resumptions => op.waits # NoRequest)
      BY <1>9 DEF Advances, Passed, Resumptions
    <2>3. ~(op.name = "stack" /\ ~op.failing)
      <3> SUFFICES ASSUME op.name = "stack", ~op.failing PROVE FALSE
        OBVIOUS
      <3>1. c = "window"
        BY <1>3, <1>9
      <3>2. 0 .. op.page - 1 \subseteq exec.windows /\ (op.page \in exec.windows \/ exec.whole)
        BY <1>2, <1>9, <3>1 DEF Advances
      <3>3. op.page = v.windows /\ ~v.whole /\ op.page >= 1 /\ op.page \in Nat
        BY <1>1 DEF Windowed, Operations
      <3>4. 0 \in 0 .. op.page - 1
        BY <3>3
      <3>5. exec.windows = 0 .. op.page - 1 /\ ~exec.whole
        BY <1>3, <3>2, <3>3, <3>4 DEF Seen
      <3>6. op.page \notin 0 .. op.page - 1
        BY <3>3
      <3> QED BY <3>2, <3>5, <3>6
    <2> QED BY <1>4, <1>5, <2>1, <2>2, <2>3, ForgottenTurns
  <1>10. CASE Advances /\ c = "stackTrace"
    <2>1. /\ SameCall(o) /\ o.todo = Tail(op.todo) /\ x.adapter = exec.adapter
          /\ exec.windows = 0 .. op.page - 1 /\ x.windows = exec.windows \cup {op.page}
          /\ op.page \in Nat
      BY <1>1, <1>2, <1>10 DEF Advances, Goes, Operations
    <2>2. x.windows = 0 .. op.page
      BY <2>1
    <2>3. CASE op.name = "stack"
      <3>1. op.failing \/ (o.todo = <<>> /\ op.page = v.windows /\ ~v.whole /\ op.page >= 1)
        BY <1>3, <2>1, <2>3 DEF Windowed
      <3>2. v.phase = "Stopped" => v.windows >= 1
        BY DEF Windowed
      <3> QED BY <2>1, <2>2, <2>3, <3>1, <3>2 DEF Windowed, SameCall
    <2>4. CASE op.name \in {"launch", "resume"}
      <3>1. op.failing \/ op.page = 0
        BY <2>4 DEF Windowed, Has
      <3>2. op.failing \/ x.windows \subseteq {0}
        BY <2>2, <3>1
      <3>3. v.phase = "Stopped" => v.windows >= 1
        BY DEF Windowed
      <3> QED BY <2>1, <2>4, <3>1, <3>2, <3>3 DEF Windowed, SameCall
    <2> QED BY <1>3, <1>10, <2>3, <2>4
  <1>11. CASE Detours
    <2>1. SameCall(o) /\ Forgets /\ x.adapter = exec.adapter
      BY <1>11 DEF Detours, Drifts, Forgets
    <2>2. c \in {"condition", "outcome", "initialized"}
      BY <1>2, <1>11 DEF Detours
    <2>3. c \notin {"release", "prepare", "disconnect"} \cup Resumptions
      BY <2>2 DEF Resumptions
    <2> QED BY <1>3, <1>4, <1>5, <2>1, <2>2, <2>3, ForgottenTurns
  <1>12. CASE IsUnreadable
    <2>1. SameCall(o) /\ Forgets /\ x.adapter = exec.adapter /\ op.name = "find"
      BY <1>12 DEF IsUnreadable, Goes, Twin, Forgets
    <2> QED BY <2>1, ForgottenTurns
  <1>13. CASE Reloads
    <2>1. SameCall(o) /\ Forgets /\ x.adapter = exec.adapter /\ c = "window"
      BY <1>2, <1>13 DEF Reloads, Goes, Forgets
    <2>2. Step("stackTrace") \in Steps
      BY PlainSteps DEF Commands
    <2>3. o.todo = <<Step("stackTrace")>> \o Tail(op.todo)
      BY <1>13 DEF Reloads, Goes
    <2>4. o.todo # <<>>
      BY <1>2, <2>2, <2>3, HeadOfTail
    <2>5. Tail(op.todo) = <<>> => Tail(o.todo) = <<>>
      BY <2>3
    <2>6. c \notin Resumptions
      BY <2>1 DEF Resumptions
    <2> QED BY <1>3, <1>4, <1>5, <2>1, <2>4, <2>5, <2>6, ForgottenTurns
  <1> QED BY <1>6, <1>7, <1>8, <1>9, <1>10, <1>11, <1>12, <1>13 DEF Turn

-----------------------------------------------------------------------------
(* What is left to do covers what is not as it is wanted.                     *)

LEMMA ScopeOf ==
  ASSUME NEW s
  PROVE  /\ s.command \notin Changes => Scope(s) = {}
         /\ LooksUp(s) => Scope(s) = {}
         /\ \A p \in Scope(s) : p \in Families => s.command = "evaluate" /\ p \in s.points
         /\ s.command = "evaluate" /\ s.on \in {"set", "enable", "disable", "delete"} =>
               Scope(s) = Points \cap s.points
  <1>1. s.command \notin Changes => Scope(s) = {}
    BY DEF Scope, Changes
  <1>2. LooksUp(s) => Scope(s) = {}
    BY DEF Scope, LooksUp
  <1>3. \A p \in Scope(s) : p \in Families => s.command = "evaluate" /\ p \in s.points
    BY DEF Scope, Families, OfKind
  <1>4. s.command = "evaluate" /\ s.on \in {"set", "enable", "disable", "delete"} =>
               Scope(s) = Points \cap s.points
    BY DEF Scope
  <1> QED BY <1>1, <1>2, <1>3, <1>4

LEMMA TailSeesTo ==
  ASSUME NEW todo \in Seq(Steps), todo # <<>>, NEW p, Covers(todo, p) \/ Releases(todo),
         p \notin Scope(Head(todo)), Head(todo).command # "release"
  PROVE  /\ Covers(Tail(todo), p) \/ Releases(Tail(todo))
         /\ \A h \in Steps : Covers(<<h>> \o Tail(todo), p) \/ Releases(<<h>> \o Tail(todo))
  <1>1. PICK i \in DOMAIN todo : p \in Scope(todo[i]) \/ todo[i].command = "release"
    BY DEF Covers, Releases
  <1>2. i # 1 /\ i - 1 \in DOMAIN Tail(todo) /\ Tail(todo)[i - 1] = todo[i]
    BY <1>1, TailSteps
  <1>3. \A h \in Steps : i \in DOMAIN (<<h>> \o Tail(todo)) /\ (<<h>> \o Tail(todo))[i] = todo[i]
    BY <1>2, TailSteps
  <1> HIDE DEF Scope
  <1> QED BY <1>1, <1>2, <1>3 DEF Covers, Releases

\* Conditions are tested, and a program's outcome is told, when all is configured.
LEMMA NothingLeft ==
  ASSUME NEW todo \in Seq(Steps), todo # <<>>, Ordered(todo),
         Head(todo).command \in {"condition", "outcome"}
  PROVE  ~Releases(todo) /\ \A p : ~Covers(todo, p)
  <1>1. /\ 1 \in DOMAIN todo /\ Head(todo) = todo[1] /\ DOMAIN todo \subseteq Nat
        /\ \A k \in DOMAIN todo : k >= 1
    BY TailSteps
  <1>2. ASSUME NEW i \in DOMAIN todo
        PROVE  todo[i].command \notin Changes \cup {"release"}
    <2>1. CASE i = 1
      BY <1>1, <2>1 DEF Changes
    <2>2. CASE 1 < i
      BY <1>1, <2>2 DEF Ordered, Changes
    <2> QED BY <1>1, <2>1, <2>2
  <1> QED BY <1>2, ScopeOf DEF Covers, Releases

LEMMA ConfirmedIsSettled ==
  ASSUME NEW s \in Steps, NEW x \in Executions, NEW y, NEW tables, NEW goal,
         y.active = Configured(x, s).active, s.command \in Changes, Aims(s, goal),
         LooksUp(s) \/ Agrees(s, tables, goal), NEW p \in Points
  PROVE  /\ p \in Scope(s) => SettledIn(p, y, tables, goal)
         /\ p \notin Scope(s) /\ SettledIn(p, x, tables, goal) => SettledIn(p, y, tables, goal)
  <1>1. y.active =
              IF s.command = "evaluate" /\ s.on \in {"set", "enable"} THEN x.active \cup s.points
              ELSE IF s.command = "evaluate" /\ s.on \in {"disable", "delete"}
              THEN x.active \ s.points
              ELSE x.active
    BY ConfiguredFields
  <1>2. CASE p \in Scope(s)
    <2>1. p \in tables <=> p \in goal
      BY <1>2, ScopeOf DEF Agrees
    <2>2. ASSUME p \in Families PROVE p \in y.active <=> p \in goal
      <3>1. s.command = "evaluate" /\ p \in s.points /\ ~LooksUp(s)
        BY <1>2, <2>2, ScopeOf
      <3>2. s.on \in {"set", "enable", "disable", "delete"}
        BY <1>2, <3>1 DEF Scope
      <3> QED BY <1>1, <3>1, <3>2 DEF Aims
    <2> QED BY <1>2, <2>1, <2>2 DEF SettledIn
  <1>3. CASE p \notin Scope(s) /\ SettledIn(p, x, tables, goal)
    <2>1. s.command = "evaluate" /\ s.on \in {"set", "enable", "disable", "delete"} =>
            p \notin s.points
      BY <1>3, ScopeOf
    <2>2. p \in y.active <=> p \in x.active
      BY <1>1, <2>1
    <2> QED BY <1>3, <2>2 DEF SettledIn
  <1> QED BY <1>2, <1>3

LEMMA ProgressTurns ==
  ASSUME Typed, op' \in Operations, exec' \in Executions, op.todo # <<>>, NEW goal,
         goal = Goal(op, applied), Shaped(op, goal),
         Progressed(op, exec, targets[exec.adapter].tables, goal), Reflected, Turn, Has
  PROVE  Progressed(op', exec', targets[exec.adapter].tables, goal)
  <1> DEFINE o == op'
             x == exec'
             c == Current.command
             tables == targets[exec.adapter].tables
             Done(p) == SettledIn(p, exec, tables, goal)
             Left(todo, p) == Covers(todo, p) \/ Releases(todo)
  <1>1. op \in Operations /\ exec \in Executions
    BY DEF Typed, Operates, ExecutionTyped
  <1>2. /\ op.todo \in Seq(Steps) /\ Current \in Steps /\ c \in Alphabet(op)
        /\ op.name # "idle" /\ \A d : At(d) <=> c = d
        /\ Ordered(op.todo) /\ Belongs(Current, op, goal)
    BY <1>1, HeadBelongs DEF Shaped
  <1> HIDE DEF tables
  <1> SUFFICES Progressed(o, x, tables, goal)
    BY DEF tables
  <1>3. ASSUME SameCall(o), Over(exec) => Over(x),
               x.adapter # 0, ~o.failing, o.name = "sync" \/ ~Over(x)
        PROVE  \A p \in Points : Done(p) \/ Left(op.todo, p)
    BY <1>3 DEF Progressed, SameCall, Has, tables
  <1>4. CASE GivesUp
    <2>1. o.failing
      BY <1>1, <1>4 DEF GivesUp, Operations, Follow
    <2> QED BY <2>1 DEF Progressed
  <1>5. ASSUME SameCall(o), Over(exec) => Over(x), x.active = exec.active,
               \A p \in Points : Left(op.todo, p) => Left(o.todo, p)
        PROVE  Progressed(o, x, tables, goal)
    <2>1. \A p \in Points : Done(p) => SettledIn(p, x, tables, goal)
      BY <1>5 DEF SettledIn
    <2> QED BY <1>3, <1>5, <2>1 DEF Progressed
  <1>6. CASE Stays \/ Sends
    BY <1>5, <1>6 DEF Stays, Sends, Drifts
  <1>7. CASE Confirms
    <2>1. SameCall(o) /\ c \in Changes /\ Over(exec) = Over(x) /\ op.waits # NoRequest
      BY <1>7 DEF Confirms, Goes, Over
    <2>2. ~op.failing
      BY <1>1, <1>2, <2>1, Letters
    <2>3. LooksUp(Current) \/ Agrees(Current, tables, goal)
      BY <1>7, <2>1, <2>2 DEF Confirms, Reflected, tables
    <2>4. \A p \in Points : p \notin Scope(Current) /\ Left(op.todo, p) => Left(o.todo, p)
      <3> SUFFICES ASSUME NEW p \in Points, p \notin Scope(Current), Left(op.todo, p)
                   PROVE  Left(o.todo, p)
        OBVIOUS
      <3>1. /\ Left(Tail(op.todo), p)
            /\ \A h \in Steps : Left(<<h>> \o Tail(op.todo), p)
        <4>1. Head(op.todo).command # "release"
          BY <2>1 DEF Changes, Current
        <4> QED BY <1>2, <4>1, TailSeesTo DEF Current
      <3>2. c = "evaluate" => [Current EXCEPT !.on = "list"] \in Steps
        BY <1>2 DEF Steps, StepRecords, Objects
      <3> QED BY <1>7, <3>1, <3>2 DEF Confirms, Goes
    <2>5. \A p \in Points :
            /\ p \in Scope(Current) => SettledIn(p, x, tables, goal)
            /\ p \notin Scope(Current) /\ Done(p) => SettledIn(p, x, tables, goal)
      BY <1>1, <1>2, <1>7, <2>1, <2>3, ConfirmedIsSettled DEF Confirms, Belongs
    <2> QED BY <1>3, <2>1, <2>4, <2>5 DEF Progressed
  <1>8. ASSUME c \notin Changes, c # "release", NEW p \in Points, Left(op.todo, p)
        PROVE  /\ Left(Tail(op.todo), p)
               /\ \A h \in Steps : Left(<<h>> \o Tail(op.todo), p)
    <2>1. p \notin Scope(Head(op.todo)) /\ Head(op.todo).command # "release"
      BY <1>8, ScopeOf DEF Current
    <2> QED BY <1>2, <1>8, <2>1, TailSeesTo
  <1>9. CASE Advances
    <2>1. c \notin Changes /\ c # "release"
      BY <1>9 DEF Advances, Passed, Changes, Resumptions
    <2> QED BY <1>5, <1>8, <1>9, <2>1 DEF Advances, Goes
  <1>10. CASE Detours
    <2>1. SameCall(o) /\ (Over(exec) => Over(x)) /\ x.active = exec.active
      BY <1>10 DEF Detours, Drifts
    <2>2. CASE c \in {"condition", "outcome"}
      <3>1. \A p \in Points : ~Left(op.todo, p)
        BY <1>2, <2>2, NothingLeft DEF Current
      <3> QED BY <1>5, <2>1, <3>1
    <2>3. CASE c = "initialized" /\ exec.state = "Exited"
      <3>1. Over(x) /\ o.name # "sync"
        BY <1>1, <1>2, <2>1, <2>3, Letters DEF SameCall, Over
      <3> QED BY <3>1 DEF Progressed
    <2> QED BY <1>2, <1>10, <2>2, <2>3 DEF Detours
  <1>11. CASE IsUnreadable
    <2>1. SameCall(o) /\ (Over(exec) => Over(x)) /\ x.active = exec.active
      BY <1>11 DEF IsUnreadable, Goes, Twin, Over
    <2>2. op.failing \/ Alphabet(op) \subseteq {"scopes", "variables", "unreadable", "window", "stackTrace"}
      BY <1>11 DEF IsUnreadable, Alphabet
    <2>3. CASE op.failing
      BY <2>1, <2>3 DEF Progressed, SameCall
    <2>4. CASE Alphabet(op) \subseteq {"scopes", "variables", "unreadable", "window", "stackTrace"}
      <3>1. \A i \in DOMAIN op.todo : op.todo[i].command \notin Changes \cup {"release"}
        BY <2>4 DEF Shaped, Belongs, Changes
      <3>2. \A p \in Points : ~Left(op.todo, p)
        BY <3>1, ScopeOf DEF Covers, Releases
      <3> QED BY <1>5, <2>1, <3>2
    <2> QED BY <2>2, <2>3, <2>4
  <1>12. CASE Reloads
    <2>1. /\ SameCall(o) /\ x = exec /\ c = "window"
          /\ o.todo = <<Step("stackTrace")>> \o Tail(op.todo)
      BY <1>2, <1>12 DEF Reloads, Goes
    <2>2. Step("stackTrace") \in Steps /\ c \notin Changes
      BY <2>1, PlainSteps DEF Commands, Changes
    <2> QED BY <1>5, <1>8, <2>1, <2>2
  <1> QED BY <1>4, <1>6, <1>7, <1>9, <1>10, <1>11, <1>12 DEF Turn, tables

-----------------------------------------------------------------------------
(* Requests, and the responses to them.                                      *)

\* A step answers no request but the one it waits for.
LEMMA PendingTurns ==
  ASSUME Typed, op.todo # <<>>, NEW goal, Shaped(op, goal), Turn, Has,
         NEW req \in RequestRecords, Pending(req), req.seq < exec.next,
         \A r : Given(r) => r.to # req.seq
  PROVE  Pending(req)'
  <1> DEFINE o == op'
             c == Current.command
  <1>1. op \in Operations /\ exec \in Executions
    BY DEF Typed, Operates, ExecutionTyped
  <1>2. /\ op.todo \in Seq(Steps) /\ Current \in Steps /\ c \in Alphabet(op)
        /\ \A d : At(d) <=> c = d
    BY <1>1, HeadBelongs
  <1>3. req.seq \in Nat /\ exec.next \in Nat /\ NoRequest \notin Nat
    BY <1>1 DEF RequestRecords, Executions, NoRequest
  <1>4. req.command \in Changes =>
          op.name \in {"launch", "sync"} /\ (~op.failing => op.waits = req.seq)
    BY DEF Pending
  <1>5. CASE GivesUp
    <2>1. o.failing /\ o.name = op.name /\ o.waits = NoRequest
      BY <1>1, <1>5 DEF GivesUp, Operations, Follow
    <2> QED BY <1>3, <1>4, <2>1 DEF Pending
  <1>6. CASE Stays
    BY <1>6 DEF Stays, SameCall, Pending, Current
  <1>7. CASE Sends
    <2>1. SameCall(o) /\ o.waits # req.seq /\ op.waits = NoRequest
      BY <1>1, <1>3, <1>7 DEF Sends, Executions
    <2>2. req.command \in Changes => op.failing
      BY <1>3, <1>4, <2>1
    <2> QED BY <1>4, <2>1, <2>2 DEF Pending, SameCall
  <1>8. ASSUME SameCall(o), o.waits = NoRequest,
               ~op.failing /\ req.command \in Changes => FALSE
        PROVE  Pending(req)'
    BY <1>3, <1>4, <1>8 DEF Pending, SameCall
  <1>9. CASE Confirms
    <2>1. op.waits # req.seq
      BY <1>9 DEF Confirms, Given
    <2> QED BY <1>4, <1>8, <1>9, <2>1 DEF Confirms, Goes
  <1>10. ASSUME SameCall(o), o.waits = NoRequest, c \notin Changes
         PROVE  Pending(req)'
    <2>1. ~op.failing /\ req.command \in Changes => FALSE
      BY <1>4, <1>10 DEF Pending
    <2> QED BY <1>8, <1>10, <2>1
  <1>11. CASE Advances
    <2>1. c \notin Changes
      BY <1>11 DEF Advances, Passed, Changes, Resumptions
    <2> QED BY <1>10, <1>11, <2>1 DEF Advances, Goes
  <1>12. CASE Detours \/ IsUnreadable \/ Reloads
    <2>1. c \in {"condition", "outcome", "initialized", "scopes", "variables", "window"}
      BY <1>2, <1>12 DEF Detours, IsUnreadable, Reloads
    <2>2. SameCall(o) /\ o.waits = NoRequest
      BY <1>12 DEF Detours, IsUnreadable, Reloads, Goes
    <2> QED BY <1>10, <2>1, <2>2 DEF Changes
  <1> QED BY <1>5, <1>6, <1>7, <1>9, <1>11, <1>12 DEF Turn

\* Within the execution k nothing is heard that was not to be.
Listens(k) ==
    /\ k # 0 /\ exec.adapter = k /\ exec'.adapter = k /\ k \in DOMAIN adapters
    /\ \A a \in DOMAIN adapters' : a # k /\ adapters'[a].open =>
          a \in DOMAIN adapters /\ adapters'[a] = adapters[a] /\ targets'[a] = targets[a]
    /\ adapters[k].open /\ adapters'[k].open /\ targets'[k] = targets[k]
    /\ \A i \in DOMAIN adapters'[k].messages : adapters'[k].messages[i] \in Heard(k)
    /\ \A m \in exec'.inbox : IsResponse(m) /\ m \in exec.inbox \cup Heard(k)

LEMMA ListensHeard ==
  ASSUME NEW k, Listens(k)
  PROVE  /\ \A m \in Heard(k)' : m \in Heard(k)
         /\ \A m \in Heard(exec.adapter)' \cup exec'.inbox : m \in Heard(exec.adapter) \cup exec.inbox
         /\ Has /\ Has'
         /\ targets'[exec'.adapter] = targets[exec.adapter]
  <1>1. \A m \in Heard(k)' : m \in Heard(k)
    BY DEF Listens, Heard
  <1>2. Heard(exec.adapter) = Heard(k) /\ Heard(exec.adapter)' = Heard(k)'
    BY DEF Listens, Heard
  <1> QED BY <1>1, <1>2 DEF Listens, Has

LEMMA ReflectedTurns ==
  ASSUME Typed, op.todo # <<>>, NEW goal, Shaped(op, goal), Turn, UNCHANGED applied,
         Reflected, NEW k, Listens(k)
  PROVE  Reflected'
  <1> DEFINE o == op'
  <1>1. op \in Operations /\ exec \in Executions
    BY DEF Typed, Operates, ExecutionTyped
  <1>2. /\ \A m \in Heard(exec.adapter)' \cup exec'.inbox : m \in Heard(exec.adapter) \cup exec.inbox
        /\ Has /\ targets'[exec'.adapter] = targets[exec.adapter]
    BY ListensHeard
  <1>3. CASE Stays
    <2>1. SameCall(o) /\ o.todo = op.todo /\ o.waits = op.waits
      BY <1>3 DEF Stays
    <2>2. Goal(o, applied') = Goal(op, applied) /\ Current' = Current
      BY <2>1 DEF Goal, SameCall, Current
    <2> HIDE DEF Stays
    <2> QED BY <1>2, <2>1, <2>2 DEF Reflected, SameCall, Agrees
  <1>4. CASE Sends
    <2>1. o.waits = exec.next
      BY <1>4 DEF Sends
    <2>2. ASSUME NEW m \in Heard(exec.adapter)' \cup exec'.inbox, m.to = o.waits
          PROVE  FALSE
      <3>1. m \in Heard(exec.adapter) \cup exec.inbox
        BY <1>2, <2>2
      <3>2. exec.adapter \in DOMAIN adapters /\ adapters[exec.adapter].open
        BY <1>2 DEF Typed, ExecutionTyped
      <3>3. m.to < exec.next
        BY <3>1, <3>2 DEF Typed, AdaptersTyped, ExecutionTyped, Coherent, Numbered, NextNumber
      <3>4. exec.next \in Nat
        BY <1>1 DEF Executions
      <3> QED BY <2>1, <2>2, <3>3, <3>4
    <2> QED BY <2>2 DEF Reflected
  <1>5. CASE ~Stays /\ ~Sends
    <2>1. o.waits = NoRequest
      BY <1>1, <1>5 DEF Turn, GivesUp, Confirms, Advances, Detours, IsUnreadable, Reloads, Goes,
                       Operations, Follow
    <2> QED BY <2>1 DEF Reflected
  <1> QED BY <1>3, <1>4, <1>5

\* No request of the execution is answered yet.
LEMMA NoneAnswered ==
  ASSUME Typed, Asked, Has, NEW i \in DOMAIN adapters[exec.adapter].requests
  PROVE  LET req == adapters[exec.adapter].requests[i] IN
         /\ req \in RequestRecords /\ Pending(req) /\ req.seq < exec.next
         /\ \A r : Given(r) => r.to # req.seq
         /\ \A m \in Heard(exec.adapter) : IsResponse(m) => m.to # req.seq
         /\ \A m \in exec.inbox : m.to # req.seq
  <1>1. exec.adapter \in DOMAIN adapters /\ adapters[exec.adapter].open /\ AdaptersTyped
    BY DEF Typed, ExecutionTyped
  <1>2. adapters[exec.adapter].requests \in Seq(RequestRecords)
    BY <1>1, AdapterTypes
  <1>3. adapters[exec.adapter].requests[i].seq < exec.next
    BY <1>1 DEF AdaptersTyped, Numbered, NextNumber
  <1> QED BY <1>1, <1>2, <1>3 DEF Asked, InSequence, Given

LEMMA OthersInSequence ==
  ASSUME NEW k, Listens(k), Asked, NEW a \in DOMAIN adapters', a # k, adapters'[a].open
  PROVE  InSequence(a)'
  <1>1. a \in DOMAIN adapters /\ adapters'[a] = adapters[a] /\ targets'[a] = targets[a]
    BY DEF Listens
  <1>2. Heard(a)' = Heard(a)
    BY <1>1 DEF Heard
  <1> QED BY <1>1, <1>2 DEF Asked, InSequence

LEMMA AskedTurns ==
  ASSUME Typed, op.todo # <<>>, NEW goal, Shaped(op, goal), Turn, Asked, NEW k, Listens(k),
         adapters'[k].requests = adapters[k].requests
  PROVE  Asked'
  <1>1. /\ \A m \in Heard(k)' : m \in Heard(k)
        /\ Has /\ k = exec.adapter /\ k = exec'.adapter /\ k \in DOMAIN adapters /\ adapters[k].open
    BY ListensHeard DEF Listens
  <1>2. InSequence(k)'
    BY <1>1 DEF Asked, InSequence
  <1>3. ASSUME NEW i \in DOMAIN adapters'[k].requests, NEW req,
               req = adapters'[k].requests[i]
        PROVE  Pending(req)' /\ \A m \in exec'.inbox : m.to # req.seq
    <2>1. /\ req \in RequestRecords /\ Pending(req) /\ req.seq < exec.next
          /\ \A r : Given(r) => r.to # req.seq
          /\ \A m \in Heard(k) : IsResponse(m) => m.to # req.seq
          /\ \A m \in exec.inbox : m.to # req.seq
      BY <1>1, <1>3, NoneAnswered
    <2>2. Pending(req)'
      BY <1>1, <2>1, PendingTurns
    <2>3. ASSUME NEW m \in exec'.inbox PROVE m.to # req.seq
      <3>1. m \in exec.inbox \cup Heard(k) /\ IsResponse(m)
        BY <2>3 DEF Listens
      <3> QED BY <2>1, <3>1
    <2> QED BY <2>2, <2>3
  <1>4. \A a \in DOMAIN adapters' : adapters'[a].open => InSequence(a)'
    BY <1>2, OthersInSequence
  <1>5. \A i \in DOMAIN adapters'[exec'.adapter].requests :
           LET req == adapters'[exec'.adapter].requests[i] IN
           /\ req.seq = op'.waits =>
                 Current'.command = req.command /\ Current'.on = req.on /\ Current'.points = req.points
           /\ req.command \in Changes =>
                 op'.name \in {"launch", "sync"} /\ (~op'.failing => op'.waits = req.seq)
           /\ \A m \in exec'.inbox : m.to # req.seq
    BY <1>1, <1>3 DEF Pending
  <1> QED BY <1>4, <1>5 DEF Asked, Pending

LEMMA AskedSends ==
  ASSUME Typed, op.todo # <<>>, NEW goal, Shaped(op, goal), Turn, Asked, NEW k, Listens(k),
         NEW r \in RequestRecords, r.seq = exec.next, r.command = Current.command,
         r.on = Current.on, r.points = Current.points,
         adapters'[k].requests = Append(adapters[k].requests, r),
         \/ op'.waits = exec.next /\ op'.todo = op.todo /\ SameCall(op')
         \/ At("launch") /\ op'.waits = NoRequest
  PROVE  Asked'
  <1> DEFINE old == adapters[k].requests
             new == adapters'[k].requests
  <1>1. /\ \A m \in Heard(k)' : m \in Heard(k)
        /\ Has /\ k = exec.adapter /\ k = exec'.adapter /\ k \in DOMAIN adapters /\ adapters[k].open
    BY ListensHeard DEF Listens
  <1>2. /\ op \in Operations /\ exec \in Executions /\ exec.next \in Nat
        /\ AdaptersTyped /\ old \in Seq(RequestRecords)
    BY <1>1, AdapterTypes DEF Typed, Operates, ExecutionTyped, Executions
  <1>3. Current.command \in Alphabet(op) /\ \A d : At(d) <=> Current.command = d
    BY <1>2, HeadBelongs
  <1>4. \A i \in DOMAIN new : (i \in DOMAIN old /\ new[i] = old[i]) \/ (i = Len(old) + 1 /\ new[i] = r)
    BY <1>2
  <1>5. \A i \in DOMAIN old : old[i].seq < exec.next /\ old[i].seq \in Nat
    <2>1. \A q \in RequestRecords : q.seq \in Nat
      BY DEF RequestRecords
    <2>2. \A i \in DOMAIN old : old[i] \in RequestRecords
      BY <1>2
    <2>3. \A i \in DOMAIN old : old[i].seq < exec.next
      BY <1>1, NoneAnswered
    <2> QED BY <2>1, <2>2, <2>3
  <1>6. \A m \in Heard(k) \cup exec.inbox : m.to < exec.next /\ m.to \in Nat
    <2>1. \A m \in Heard(k) \cup exec.inbox : m.to < exec.next
      BY <1>1 DEF Typed, AdaptersTyped, ExecutionTyped, Coherent, Numbered, NextNumber
    <2>2. Heard(k) \cup exec.inbox \subseteq Messages
      BY <1>1, <1>2, AdapterTypes DEF Heard, Executions
    <2> QED BY <2>1, <2>2 DEF Messages
  <1>7. InSequence(k)'
    <2>1. ASSUME NEW i \in DOMAIN new, NEW j \in DOMAIN new, i < j
          PROVE  new[i].seq < new[j].seq
      <3>1. i \in DOMAIN old /\ new[i] = old[i]
        <4>1. i \in Nat /\ j \in Nat /\ j <= Len(old) + 1 /\ Len(old) \in Nat
          BY <1>2
        <4> QED BY <1>4, <2>1, <4>1
      <3>2. CASE j \in DOMAIN old /\ new[j] = old[j]
        BY <1>1, <2>1, <3>1, <3>2 DEF Asked, InSequence
      <3>3. CASE new[j] = r
        BY <1>5, <3>1, <3>3
      <3> QED BY <1>4, <3>2, <3>3
    <2>2. ASSUME NEW m \in Heard(k)', NEW i \in DOMAIN new, IsResponse(m)
          PROVE  m.to # new[i].seq
      <3>1. CASE i \in DOMAIN old /\ new[i] = old[i]
        BY <1>1, <2>2, <3>1, NoneAnswered
      <3>2. CASE new[i] = r
        BY <1>1, <1>2, <1>6, <2>2, <3>2
      <3> QED BY <1>4, <3>1, <3>2
    <2> QED BY <2>1, <2>2 DEF InSequence
  <1>8. ASSUME NEW i \in DOMAIN new, NEW req, req = new[i]
        PROVE  Pending(req)' /\ \A m \in exec'.inbox : m.to # req.seq
    <2>1. CASE i \in DOMAIN old /\ new[i] = old[i]
      <3>1. /\ req \in RequestRecords /\ Pending(req) /\ req.seq < exec.next
            /\ \A q : Given(q) => q.to # req.seq
            /\ \A m \in Heard(k) : IsResponse(m) => m.to # req.seq
            /\ \A m \in exec.inbox : m.to # req.seq
        BY <1>1, <1>8, <2>1, NoneAnswered
      <3>2. Pending(req)'
        BY <1>1, <3>1, PendingTurns
      <3>3. ASSUME NEW m \in exec'.inbox PROVE m.to # req.seq
        <4>1. m \in exec.inbox \cup Heard(k) /\ IsResponse(m)
          BY <3>3 DEF Listens
        <4> QED BY <3>1, <4>1
      <3> QED BY <3>2, <3>3
    <2>2. CASE new[i] = r
      <3>1. ASSUME NEW m \in exec'.inbox PROVE m.to # req.seq
        <4>1. m \in exec.inbox \cup Heard(k)
          BY <3>1 DEF Listens
        <4> QED BY <1>2, <1>6, <1>8, <2>2, <4>1
      <3>2. CASE op'.waits = exec.next /\ op'.todo = op.todo /\ SameCall(op')
        <4>1. Current' = Current
          BY <3>2 DEF Current
        <4>2. req.command \in Changes => op.name \in {"launch", "sync"}
          BY <1>2, <1>3, <1>8, <2>2, Letters
        <4> QED BY <1>8, <2>2, <3>1, <3>2, <4>1, <4>2 DEF Pending, SameCall
      <3>3. CASE At("launch") /\ op'.waits = NoRequest
        <4>1. req.seq # op'.waits
          BY <1>2, <1>8, <2>2, <3>3 DEF NoRequest
        <4>2. req.command \notin Changes
          BY <1>3, <1>8, <2>2, <3>3 DEF Changes
        <4> QED BY <3>1, <4>1, <4>2 DEF Pending
      <3> QED BY <3>2, <3>3
    <2> QED BY <1>4, <2>1, <2>2
  <1>9. \A a \in DOMAIN adapters' : adapters'[a].open => InSequence(a)'
    BY <1>7, OthersInSequence
  <1>10. \A i \in DOMAIN adapters'[exec'.adapter].requests :
           LET req == adapters'[exec'.adapter].requests[i] IN
           /\ req.seq = op'.waits =>
                 Current'.command = req.command /\ Current'.on = req.on /\ Current'.points = req.points
           /\ req.command \in Changes =>
                 op'.name \in {"launch", "sync"} /\ (~op'.failing => op'.waits = req.seq)
           /\ \A m \in exec'.inbox : m.to # req.seq
    BY <1>1, <1>8 DEF Pending
  <1> QED BY <1>9, <1>10 DEF Asked, Pending

-----------------------------------------------------------------------------
(* The steps within an execution.                                            *)

LEMMA SameInbox ==
  ASSUME NEW x \in Executions, NEW r
  PROVE  /\ Failed(x).inbox = x.inbox /\ Finished(x).inbox = x.inbox
         /\ \A lost : Fails(x, lost) => exec'.inbox = x.inbox
         /\ Match(x, r) => exec'.inbox = x.inbox
  <1>1. Failed(x).inbox = x.inbox /\ Finished(x).inbox = x.inbox
    BY DEF Executions, Failed, Finished
  <1>2. \A lost : Fails(x, lost) => exec'.inbox = x.inbox
    BY <1>1 DEF Fails
  <1>3. ASSUME Match(x, r) PROVE exec'.inbox = x.inbox
    <2>1. \/ exec' = Finished(x)
          \/ exec' = x
          \/ exec' = [x EXCEPT !.thread = 1]
          \/ exec' = [x EXCEPT !.windows = @ \cup {op.page}, !.frames = op.page + 1,
                               !.whole = ~r.full]
          \/ exec' = [x EXCEPT !.read = @ \cup {Current.command}]
          \/ exec' = Configured(x, Current)
          \/ Fails(x, FALSE)
      BY Zenon, <1>3 DEF Match
    <2>2. /\ [x EXCEPT !.thread = 1].inbox = x.inbox
          /\ [x EXCEPT !.windows = @ \cup {op.page}, !.frames = op.page + 1,
                       !.whole = ~r.full].inbox = x.inbox
          /\ [x EXCEPT !.read = @ \cup {Current.command}].inbox = x.inbox
      BY DEF Executions
    <2>3. Configured(x, Current).inbox = x.inbox
      BY ConfiguredFields
    <2> QED BY <1>1, <1>2, <2>1, <2>2, <2>3
  <1> QED BY <1>1, <1>2, <1>3

\* What waits in the inbox was there, or is the message that was read.
LEMMA InboxOfStep ==
  ASSUME Typed, Has,
         SkipDisconnect \/ TimesOut \/ TakeBuffered \/ Receive \/ ReadEnd \/ WaitEnds
         \/ Outcome \/ LoadWindow
  PROVE  \A m \in exec'.inbox : m \in exec.inbox \cup Heard(exec.adapter)
  <1>1. exec \in Executions /\ Sound(exec)
    BY ExecTwin
  <1>2. ASSUME exec'.inbox = exec.inbox
        PROVE  \A m \in exec'.inbox : m \in exec.inbox \cup Heard(exec.adapter)
    BY <1>2
  <1>3. CASE SkipDisconnect \/ TimesOut \/ ReadEnd \/ WaitEnds \/ Outcome \/ LoadWindow
    <2>1. exec' \in {exec, Finished(exec), Failed(exec)} \/ \E lost : Fails(exec, lost)
      <3>1. CASE Outcome
        BY Zenon, <3>1 DEF Outcome
      <3> QED BY <1>3, <3>1 DEF SkipDisconnect, TimesOut, ReadEnd, WaitEnds, LoadWindow
    <2>2. exec'.inbox = exec.inbox
      BY <1>1, <2>1, SameInbox
    <2> QED BY <1>2, <2>2
  <1>4. CASE TakeBuffered
    <2> DEFINE r == Taken(exec.inbox, Awaits)
               inbox == Without(exec.inbox, r)
               x == [exec EXCEPT !.inbox = inbox]
    <2>1. inbox \subseteq exec.inbox
      BY DEF Without
    <2>2. Match(x, r)
      BY <1>4 DEF TakeBuffered
    <2> HIDE DEF r, inbox
    <2>3. x \in Executions /\ x.inbox = inbox
      BY <1>1, <2>1 DEF Executions
    <2> HIDE DEF x
    <2>4. exec'.inbox = inbox
      BY <2>2, <2>3, SameInbox
    <2> QED BY <2>1, <2>4
  <1>5. CASE Receive
    <2> DEFINE m == Head(adapters[exec.adapter].messages)
    <2>1. m \in Messages /\ m \in Heard(exec.adapter)
      BY <1>5, HeadMessage DEF Typed, ExecutionTyped, Receive
    <2>2. \/ Observe(m) \/ Match(exec, m) \/ Fails(exec, TRUE)
          \/ exec' = [exec EXCEPT !.inbox = @ \cup {m}]
      BY <1>5 DEF Receive
    <2> HIDE DEF m
    <2>3. CASE Observe(m)
      <3>1. \/ Fails(exec, At("stable") = FALSE)
            \/ exec' = Finished(Accepted(exec, m))
            \/ exec' = Accepted(exec, m)
        BY <2>3 DEF Observe
      <3>2. Accepted(exec, m) \in Executions /\ Accepted(exec, m).inbox = exec.inbox
        BY <1>1, <2>1, AcceptedIsSound DEF Sound, Like
      <3>3. exec'.inbox = exec.inbox
        BY <1>1, <3>1, <3>2, SameInbox
      <3> QED BY <1>2, <3>3
    <2>4. CASE Match(exec, m) \/ Fails(exec, TRUE)
      BY <1>1, <1>2, <2>4, SameInbox
    <2>5. CASE exec' = [exec EXCEPT !.inbox = @ \cup {m}]
      <3>1. exec'.inbox = exec.inbox \cup {m}
        BY <1>1, <2>5 DEF Executions
      <3> QED BY <2>1, <3>1
    <2> QED BY <2>2, <2>3, <2>4, <2>5
  <1> QED BY <1>3, <1>4, <1>5

LEMMA TurnKeeps ==
  ASSUME Typed, Typed', CInv, Turn, op.todo # <<>>, UNCHANGED <<applied, view>>,
         NEW k, Listens(k), Asked'
  PROVE  CInv'
  <1> DEFINE goal == Goal(op, applied)
             tables == targets[exec.adapter].tables
  <1>1. /\ op \in Operations /\ op' \in Operations /\ exec' \in Executions
        /\ Has /\ Has' /\ targets'[exec'.adapter] = targets[exec.adapter]
    BY ListensHeard DEF Typed, Operates, ExecutionTyped
  <1>2. Shaped(op, goal) /\ Shaped(op', Goal(op', applied'))
    BY <1>1, ShapeTurns DEF CInv
  <1>3. Reached(op', exec', view'.phase)
    BY <1>1, <1>2, ReachTurns DEF CInv
  <1>4. Windowed(op', exec', view')
    BY <1>1, <1>2, WindowTurns DEF CInv
  <1>5. Reflected'
    BY <1>2, ReflectedTurns DEF CInv
  <1>6. Progressed(op', exec', tables, Goal(op', applied'))
    <2>1. CASE op'.failing
      BY <2>1 DEF Progressed
    <2>2. CASE ~op'.failing
      <3>1. ~GivesUp
        BY <1>1, <2>2 DEF GivesUp, Operations, Follow
      <3>2. SameCall(op')
        BY <3>1 DEF Turn, Stays, Sends, Confirms, Advances, Detours, IsUnreadable, Reloads, Goes
      <3>3. Goal(op', applied') = goal
        BY <3>2 DEF Goal, SameCall
      <3>4. Progressed(op', exec', tables, goal)
        BY <1>1, <1>2, ProgressTurns DEF CInv, Progress
      <3> QED BY <3>3, <3>4
    <2> QED BY <2>1, <2>2
  <1>7. Progress'
    BY <1>1, <1>6 DEF Progress
  <1>8. Unprepared'
    <2>1. ASSUME NEW a \in DOMAIN adapters', adapters'[a].open, a # exec'.adapter
          PROVE  targets'[a].tables = {}
      <3>1. /\ a \in DOMAIN adapters /\ adapters'[a] = adapters[a] /\ targets'[a] = targets[a]
            /\ a # exec.adapter
        BY <2>1 DEF Listens
      <3> QED BY <2>1, <3>1 DEF CInv, Unprepared
    <2> QED BY <2>1 DEF Unprepared
  <1> QED BY <1>2, <1>3, <1>4, <1>5, <1>7, <1>8 DEF CInv

LEMMA OneListens ==
  ASSUME Typed, Typed', EndClosed, Has, NEW k, k = exec.adapter, exec'.adapter = k,
         \/ adapters' = adapters
         \/ \E p : /\ adapters' = [adapters EXCEPT ![k] = p]
                   /\ \A i \in DOMAIN p.messages : p.messages[i] \in Heard(k),
         \A m \in exec'.inbox : m \in exec.inbox \cup Heard(k)
  PROVE  Listens(k)
  <1>1. /\ AdaptersTyped /\ AdaptersTyped' /\ k \in DOMAIN adapters /\ adapters[k].open /\ k # 0
    BY DEF Typed, ExecutionTyped, Has
  <1>2. k \in DOMAIN adapters' /\ adapters'[k].open
    BY DEF Typed, ExecutionTyped, Has
  <1>3. \A a \in DOMAIN adapters' : a \in DOMAIN adapters /\ adapters'[a].open =>
               targets'[a] = targets[a]
    BY <1>1, EndClosedTyped DEF AdaptersTyped
  <1>4. /\ \A a \in DOMAIN adapters' : a # k => a \in DOMAIN adapters /\ adapters'[a] = adapters[a]
        /\ \A i \in DOMAIN adapters'[k].messages : adapters'[k].messages[i] \in Heard(k)
    <2>1. CASE adapters' = adapters
      BY <2>1 DEF Heard
    <2>2. ASSUME NEW p, adapters' = [adapters EXCEPT ![k] = p],
                 \A i \in DOMAIN p.messages : p.messages[i] \in Heard(k)
          PROVE  /\ \A a \in DOMAIN adapters' : a # k =>
                       a \in DOMAIN adapters /\ adapters'[a] = adapters[a]
                 /\ \A i \in DOMAIN adapters'[k].messages : adapters'[k].messages[i] \in Heard(k)
      BY <1>1, <2>2 DEF AdaptersTyped
    <2> QED BY <2>1, <2>2
  <1>5. \A m \in exec'.inbox : IsResponse(m)
    BY DEF Typed, ExecutionTyped, Coherent
  <1> QED BY <1>1, <1>2, <1>3, <1>4, <1>5 DEF Listens

LEMMA StepKeeps ==
  ASSUME IInv, Typed, CInv, EndClosed,
         SkipDisconnect \/ TimesOut \/ TakeBuffered \/ Receive \/ ReadEnd \/ WaitEnds
         \/ Outcome \/ LoadWindow
  PROVE  CInv'
  <1> DEFINE k == exec.adapter
  <1>1. Has
    BY NeedsExecution
    DEF IInv, SkipDisconnect, NothingToEnd, TimesOut, TakeBuffered, Receive, ReadEnd,
        WaitEnds, Outcome, LoadWindow
  <1>2. Typed'
    BY StepTyped
  <1>3. Turn
    BY <1>1, DisconnectTurns, TakeBufferedTurns, ReceiveTurns, WaitEndsTurns, OutcomeTurns,
       LoadWindowTurns
  <1>4. Progresses /\ exec'.adapter = k
    BY <1>1, SkipsProgress, TakeBufferedProgresses, ReceiveProgresses, ReadEndProgresses,
       WaitEndsProgresses, OutcomeProgresses, LoadWindowProgresses DEF Progresses
  <1>5. op.todo # <<>>
    <2>1. Waiting => op.todo # <<>>
      BY ExecIsAlike
    <2> QED BY <2>1 DEF SkipDisconnect, NothingToEnd, TimesOut, TakeBuffered, Receive, ReadEnd,
                        WaitEnds, Outcome, LoadWindow, At
  <1>6. UNCHANGED <<applied, view>>
    BY DEF SkipDisconnect, TimesOut, TakeBuffered, Receive, ReadEnd, WaitEnds, Outcome,
           LoadWindow
  <1>7. k \in DOMAIN adapters /\ AdaptersTyped
    BY <1>1 DEF Typed, ExecutionTyped
  <1>8. \/ adapters' = adapters
        \/ /\ adapters[k].messages # <<>>
           /\ adapters' = [adapters EXCEPT ![k] = Read(adapters[k])]
    <2>1. CASE Receive
      BY <1>7, <2>1 DEF Receive
    <2> QED BY <2>1 DEF SkipDisconnect, TimesOut, TakeBuffered, ReadEnd, WaitEnds, Outcome,
                        LoadWindow
  <1>9. /\ Read(adapters[k]).messages = Tail(adapters[k].messages)
        /\ Read(adapters[k]).requests = adapters[k].requests
    BY <1>7, AdapterTypes DEF Read, Processes
  <1>10. adapters[k].messages # <<>> =>
            \A i \in DOMAIN Read(adapters[k]).messages : Read(adapters[k]).messages[i] \in Heard(k)
    <2> SUFFICES ASSUME adapters[k].messages # <<>>, NEW i \in DOMAIN Tail(adapters[k].messages)
                 PROVE  Tail(adapters[k].messages)[i] \in Heard(k)
      BY <1>9
    <2>1. adapters[k].messages \in Seq(Messages)
      BY <1>7, AdapterTypes
    <2>2. i + 1 \in DOMAIN adapters[k].messages
          /\ Tail(adapters[k].messages)[i] = adapters[k].messages[i + 1]
      BY <2>1, TailSteps
    <2> QED BY <2>2 DEF Heard
  <1>11. \A m \in exec'.inbox : m \in exec.inbox \cup Heard(k)
    BY <1>1, InboxOfStep
  <1>12. adapters'[k].requests = adapters[k].requests
    BY <1>7, <1>8, <1>9 DEF AdaptersTyped
  <1> HIDE DEF k
  <1>13. ASSUME NEW n, n = k PROVE CInv'
    <2>1. Listens(n)
      BY <1>1, <1>2, <1>4, <1>8, <1>10, <1>11, <1>13, OneListens DEF k
    <2>2. Asked'
      BY <1>3, <1>5, <1>12, <1>13, <2>1, AskedTurns DEF CInv
    <2> QED BY <1>2, <1>3, <1>5, <1>6, <2>1, <2>2, TurnKeeps
  <1> QED BY <1>13

LEMMA SendKeeps ==
  ASSUME IInv, Typed, CInv, EndClosed, Send
  PROVE  CInv'
  <1> DEFINE k == exec.adapter
             r == Request(exec.next, Current.command, Current.on, Current.points, exec.thread)
             x == Sending(Current.command)
             p == Written(adapters[k], r)
  <1>1. Has
    BY NeedsExecution DEF IInv, Send, Awaited, Resumptions
  <1>2. Typed' /\ Turn /\ op.todo # <<>> /\ UNCHANGED <<applied, view>>
    BY SendTyped, SendTurns DEF Send
  <1>3. /\ k \in DOMAIN adapters /\ AdaptersTyped /\ exec \in Executions /\ op \in Operations
        /\ adapters[k] \in Processes
    BY <1>1, AdapterTypes DEF Typed, ExecutionTyped, Operates
  <1>4. Sound(exec) /\ Sound(x) /\ x \in Executions /\ Like(exec, x)
    BY ExecTwin, SendingIsSound DEF Sound
  <1>5. CASE MaySend(Current.command) /\ Writable(adapters[k])
    <2>1. /\ adapters' = [adapters EXCEPT ![k] = p]
          /\ exec' = [x EXCEPT !.next = @ + 1]
          /\ op' = IF At("launch") THEN [Advanced EXCEPT !.launch = exec.next]
                   ELSE [op EXCEPT !.waits = exec.next, !.stale = FALSE]
      BY <1>5 DEF Send
    <2>2. op.todo \in Seq(Steps) /\ Current \in StepRecords
      BY <1>2, <1>3, TailSteps DEF Operations, Current, Steps
    <2>3. /\ r \in RequestRecords /\ r.seq = exec.next /\ r.command = Current.command
          /\ r.on = Current.on /\ r.points = Current.points
      BY <1>3, <2>2 DEF Request, RequestRecords, StepRecords, Executions
    <2> HIDE DEF x, r
    <2>4. exec'.adapter = k /\ exec'.inbox = exec.inbox
      BY <1>4, <2>1 DEF Like, Executions
    <2>5. p.messages = adapters[k].messages /\ p.requests = Append(adapters[k].requests, r)
      BY <1>3 DEF Written, Processes
    <2>6. \/ op'.waits = exec.next /\ op'.todo = op.todo /\ SameCall(op')
          \/ At("launch") /\ op'.waits = NoRequest
      <3>1. CASE At("launch")
        BY <1>3, <2>1, <3>1, CallsGoOn DEF Goes
      <3>2. CASE ~At("launch")
        BY <1>3, <2>1, <3>2, CallsStay
      <3> QED BY <3>1, <3>2
    <2>7. adapters'[k] = p
      BY <1>3, <2>1 DEF AdaptersTyped
    <2> HIDE DEF p
    <2>8. \A i \in DOMAIN p.messages : p.messages[i] \in Heard(k)
      BY <2>5 DEF Heard
    <2>9. \A m \in exec'.inbox : m \in exec.inbox \cup Heard(k)
      BY <2>4
    <2>10. ASSUME NEW n, n = k, NEW q, q = r PROVE CInv'
      <3>1. Listens(n)
        BY <1>1, <1>2, <2>1, <2>4, <2>8, <2>9, <2>10, OneListens
      <3>2. /\ q \in RequestRecords /\ q.seq = exec.next /\ q.command = Current.command
            /\ q.on = Current.on /\ q.points = Current.points
            /\ adapters'[n].requests = Append(adapters[n].requests, q)
        BY <2>3, <2>5, <2>7, <2>10
      <3>3. Asked'
        BY <1>2, <2>6, <3>1, <3>2, AskedSends DEF CInv
      <3> QED BY <1>2, <3>1, <3>3, TurnKeeps
    <2> QED BY <2>10
  <1>6. CASE ~(MaySend(Current.command) /\ Writable(adapters[k]))
    <2>1. UNCHANGED adapters /\ (Fails(x, FALSE) \/ Fails(exec, FALSE))
      BY <1>6 DEF Send
    <2>2. exec'.inbox = exec.inbox
      <3>1. x.inbox = exec.inbox
        BY <1>4 DEF Like
      <3> QED BY <1>3, <1>4, <2>1, <3>1, SameInbox
    <2>3. exec'.adapter = k
      <3>1. Failed(x).adapter = k /\ Failed(exec).adapter = k /\ x.adapter = k
        BY <1>4, EndsAreSound DEF Like
      <3> HIDE DEF x
      <3> QED BY <2>1, <3>1 DEF Fails
    <2>4. \A m \in exec'.inbox : m \in exec.inbox \cup Heard(k)
      BY <2>2
    <2>5. ASSUME NEW n, n = k PROVE CInv'
      <3>1. Listens(n)
        BY <1>1, <1>2, <2>1, <2>3, <2>4, <2>5, OneListens
      <3>2. Asked'
        BY <1>2, <2>1, <2>5, <3>1, AskedTurns DEF CInv
      <3> QED BY <1>2, <3>1, <3>2, TurnKeeps
    <2> QED BY <2>5
  <1> QED BY <1>5, <1>6

-----------------------------------------------------------------------------
(* What an adapter does.                                                     *)

\* A request makes the breakpoints as its step wants them, and changes no others.
LEMMA TablesAgree ==
  ASSUME NEW s \in Steps, NEW goal, Aims(s, goal), NEW req \in RequestRecords,
         req.command = s.command, req.on = s.on, req.points = s.points, NEW old
  PROVE  /\ Agrees(s, Tables(old, req), goal)
         /\ \A p \in Points : p \notin Scope(s) => (p \in Tables(old, req) <=> p \in old)
  <1>1. CASE s.command = "setBreakpoints"
    <2>1. Tables(old, req) =
            {p \in old : Catalog[p].kind # "source" \/ Catalog[p].path # s.on} \cup s.points
      BY <1>1 DEF Tables
    <2>2. s.points = {p \in goal \cap OfKind("source") : Catalog[p].path = s.on}
      BY <1>1 DEF Aims, InPath
    <2>3. Scope(s) = {p \in Points : Catalog[p].kind = "source" /\ Catalog[p].path = s.on}
      BY <1>1 DEF Scope
    <2> QED BY <2>1, <2>2, <2>3 DEF Agrees, OfKind
  <1>2. CASE s.command = "setFunctionBreakpoints"
    <2>1. Tables(old, req) = (old \ OfKind("exact")) \cup s.points
      BY <1>2 DEF Tables
    <2>2. s.points = goal \cap OfKind("exact")
      BY <1>2 DEF Aims, Exacts
    <2>3. Scope(s) = {p \in Points : Catalog[p].kind = "exact"}
      BY <1>2 DEF Scope
    <2> QED BY <2>1, <2>2, <2>3 DEF Agrees, OfKind
  <1>3. CASE s.command = "evaluate" /\ s.on \in {"set", "enable"}
    <2>1. Tables(old, req) = old \cup s.points
      BY <1>3 DEF Tables
    <2>2. s.points \subseteq goal /\ Scope(s) = Points \cap s.points
      BY <1>3, ScopeOf DEF Aims
    <2> QED BY <2>1, <2>2 DEF Agrees
  <1>4. CASE s.command = "evaluate" /\ s.on \in {"disable", "delete"}
    <2>1. Tables(old, req) = old \ s.points
      BY <1>4 DEF Tables
    <2>2. s.points \cap goal = {} /\ Scope(s) = Points \cap s.points
      BY <1>4, ScopeOf DEF Aims
    <2> QED BY <2>1, <2>2 DEF Agrees
  <1>5. CASE ~(s.command \in {"setBreakpoints", "setFunctionBreakpoints"}
               \/ (s.command = "evaluate" /\ s.on \in {"set", "enable", "disable", "delete"}))
    <2>1. Tables(old, req) = old
      BY <1>5 DEF Tables
    <2>2. Scope(s) = {}
      BY <1>5 DEF Scope
    <2> QED BY <2>1, <2>2 DEF Agrees
  <1> QED BY <1>1, <1>2, <1>3, <1>4, <1>5

LEMMA OtherRequests ==
  ASSUME NEW req \in RequestRecords, req.command \notin Changes, NEW old
  PROVE  Tables(old, req) = old
  BY DEF Tables, Changes

LEMMA OneOfThem ==
  ASSUME AdaptersTyped, NEW a \in DOMAIN adapters, OneActs(a)
  PROVE  /\ DOMAIN adapters' = DOMAIN adapters
         /\ \A b \in DOMAIN adapters : adapters'[b].open = adapters[b].open
         /\ \A b \in DOMAIN adapters : b # a =>
               adapters'[b] = adapters[b] /\ targets'[b] = targets[b]
  BY DEF OneActs, AdaptersTyped

\* The head of the requests left is the oldest.
LEMMA FirstRequest ==
  ASSUME AdaptersTyped, NEW a \in DOMAIN adapters, adapters[a].requests # <<>>, InSequence(a)
  PROVE  LET requests == adapters[a].requests IN
         /\ Head(requests) \in RequestRecords
         /\ 1 \in DOMAIN requests /\ Head(requests) = requests[1]
         /\ \A i \in DOMAIN Tail(requests) :
               /\ i + 1 \in DOMAIN requests /\ Tail(requests)[i] = requests[i + 1]
               /\ Head(requests).seq < Tail(requests)[i].seq
  <1> DEFINE requests == adapters[a].requests
  <1>1. requests \in Seq(RequestRecords)
    BY AdapterTypes
  <1>2. /\ Head(requests) \in RequestRecords
        /\ 1 \in DOMAIN requests /\ Head(requests) = requests[1]
        /\ \A i \in DOMAIN Tail(requests) :
              i + 1 \in DOMAIN requests /\ Tail(requests)[i] = requests[i + 1]
        /\ Tail(requests) \in Seq(RequestRecords)
    BY <1>1, TailSteps
  <1>3. ASSUME NEW i \in DOMAIN Tail(requests) PROVE requests[1].seq < requests[i + 1].seq
    <2>1. i \in Nat /\ i >= 1
      BY <1>2
    <2>2. 1 < i + 1
      BY <2>1
    <2> QED BY <1>2, <2>2 DEF InSequence
  <1> QED BY <1>2, <1>3

LEMMA ActsInSequence ==
  ASSUME AdaptersTyped, NEW a \in DOMAIN adapters, InSequence(a), Serves(a) \/ Speaks(a)
  PROVE  /\ InSequence(a)'
         /\ \A i \in DOMAIN adapters'[a].requests :
               \E j \in DOMAIN adapters[a].requests : adapters'[a].requests[i] = adapters[a].requests[j]
  <1> DEFINE old == adapters[a].requests
             new == adapters'[a].requests
  <1>1. CASE Speaks(a)
    <2>1. new = old /\ \A m \in Heard(a)' : m \in Heard(a) \/ IsEvent(m)
      BY <1>1 DEF Speaks, Told
    <2>2. \A m \in Heard(a)' : IsResponse(m) => m \in Heard(a)
      BY <2>1 DEF IsResponse, IsEvent
    <2> QED BY <2>1, <2>2 DEF InSequence
  <1>2. CASE Serves(a)
    <2>1. /\ old # <<>> /\ new = Tail(old)
          /\ \A m \in Heard(a)' : m \in Heard(a) \/ IsEvent(m) \/ m.to = Head(old).seq
      BY <1>2 DEF Serves, Told, Replies
    <2>2. /\ Head(old) \in RequestRecords
          /\ \A i \in DOMAIN Tail(old) :
               /\ i + 1 \in DOMAIN old /\ Tail(old)[i] = old[i + 1]
               /\ Head(old).seq < Tail(old)[i].seq
          /\ DOMAIN Tail(old) \subseteq Nat
      <3>1. old \in Seq(RequestRecords)
        BY AdapterTypes
      <3>2. Tail(old) \in Seq(RequestRecords)
        BY <2>1, <3>1, TailSteps
      <3> QED BY <2>1, <3>2, FirstRequest
    <2>3. \A i \in DOMAIN new : old[i + 1] \in RequestRecords
      BY <2>1, <2>2, AdapterTypes
    <2>4. \A q \in RequestRecords : q.seq \in Nat
      BY DEF RequestRecords
    <2>5. ASSUME NEW i \in DOMAIN new, NEW j \in DOMAIN new, i < j
          PROVE  new[i].seq < new[j].seq
      <3>1. i + 1 < j + 1 /\ i + 1 \in DOMAIN old /\ j + 1 \in DOMAIN old
        BY <2>1, <2>2, <2>5
      <3> QED BY <2>1, <2>2, <3>1 DEF InSequence
    <2>6. ASSUME NEW m \in Heard(a)', NEW i \in DOMAIN new, IsResponse(m)
          PROVE  m.to # new[i].seq
      <3>1. CASE m \in Heard(a)
        BY <2>1, <2>2, <2>6, <3>1 DEF InSequence
      <3>2. CASE m.to = Head(old).seq
        BY <2>1, <2>2, <2>3, <2>4, <3>2
      <3> QED BY <2>1, <2>6, <3>1, <3>2 DEF IsEvent, IsResponse
    <2> QED BY <2>1, <2>2, <2>5, <2>6 DEF InSequence
  <1> QED BY <1>1, <1>2

LEMMA ActsAsked ==
  ASSUME Typed, Asked, NEW a \in DOMAIN adapters, adapters[a].open, Serves(a) \/ Speaks(a),
         UNCHANGED <<exec, op>>
  PROVE  Asked'
  <1>1. AdaptersTyped /\ OneActs(a)
    BY DEF Typed, Serves, Speaks
  <1>2. /\ InSequence(a)'
        /\ \A i \in DOMAIN adapters'[a].requests :
               \E j \in DOMAIN adapters[a].requests : adapters'[a].requests[i] = adapters[a].requests[j]
    BY <1>1, ActsInSequence DEF Asked
  <1>3. /\ DOMAIN adapters' = DOMAIN adapters
        /\ \A b \in DOMAIN adapters : adapters'[b].open = adapters[b].open
        /\ \A b \in DOMAIN adapters : b # a => adapters'[b] = adapters[b] /\ targets'[b] = targets[b]
    BY <1>1, OneOfThem
  <1>4. ASSUME NEW b \in DOMAIN adapters', adapters'[b].open PROVE InSequence(b)'
    <2>1. CASE b # a
      <3>1. Heard(b)' = Heard(b)
        BY <1>3, <1>4, <2>1 DEF Heard
      <3>2. InSequence(b)
        BY <1>3, <1>4 DEF Asked
      <3> QED BY <1>3, <1>4, <2>1, <3>1, <3>2 DEF InSequence
    <2> QED BY <1>2, <2>1
  <1>5. ASSUME Has, NEW i \in DOMAIN adapters'[exec.adapter].requests
        PROVE  \E j \in DOMAIN adapters[exec.adapter].requests :
                  adapters'[exec.adapter].requests[i] = adapters[exec.adapter].requests[j]
    <2>1. exec.adapter \in DOMAIN adapters
      BY <1>5 DEF Typed, ExecutionTyped
    <2> QED BY <1>2, <1>3, <1>5, <2>1
  <1>6. Has' = Has /\ Current' = Current
    BY DEF Has, Current
  <1> QED BY <1>4, <1>5, <1>6 DEF Asked, Pending

\* The request it serves is the one that is awaited, or changes no breakpoints.
LEMMA ActsChange ==
  ASSUME Typed, CInv, Has, NEW a, a = exec.adapter, adapters[a].requests # <<>>
  PROVE  LET req == Head(adapters[a].requests) IN
         /\ req \in RequestRecords
         /\ \A m \in Heard(a) \cup exec.inbox : IsResponse(m) => m.to # req.seq
         /\ req.seq = op.waits \/ (req.command \in Changes /\ ~op.failing) =>
               /\ req.seq = op.waits /\ op.todo # <<>> /\ Current \in Steps
               /\ Aims(Current, Goal(op, applied)) \/ req.command \notin Changes
               /\ req.command = Current.command /\ req.on = Current.on
               /\ req.points = Current.points
  <1> DEFINE req == Head(adapters[a].requests)
  <1>1. a \in DOMAIN adapters /\ adapters[a].open /\ AdaptersTyped /\ op \in Operations
    BY DEF Typed, ExecutionTyped, Operates
  <1>2. /\ req \in RequestRecords /\ 1 \in DOMAIN adapters[a].requests
        /\ req = adapters[a].requests[1]
    BY <1>1, FirstRequest DEF CInv, Asked
  <1>3. /\ Pending(req)
        /\ \A m \in Heard(a) : IsResponse(m) => m.to # req.seq
        /\ \A m \in exec.inbox : m.to # req.seq
    BY <1>2, NoneAnswered DEF CInv
  <1>4. req.seq \in Nat
    BY <1>2 DEF RequestRecords
  <1>5. ASSUME req.seq = op.waits \/ (req.command \in Changes /\ ~op.failing)
        PROVE  /\ req.seq = op.waits /\ op.todo # <<>> /\ Current \in Steps
               /\ Aims(Current, Goal(op, applied)) \/ req.command \notin Changes
               /\ req.command = Current.command /\ req.on = Current.on
               /\ req.points = Current.points
    <2>1. req.seq = op.waits
      BY <1>3, <1>5 DEF Pending
    <2>2. op.todo # <<>>
      BY <1>4, <2>1 DEF Typed, Operates, NoRequest
    <2>3. Current \in Steps /\ Belongs(Current, op, Goal(op, applied))
      BY <1>1, <2>2, HeadBelongs DEF CInv
    <2> QED BY <1>3, <2>1, <2>2, <2>3 DEF Pending, Belongs
  <1> QED BY <1>2, <1>3, <1>5

LEMMA ActsKeep ==
  ASSUME IInv, Typed, CInv, AdaptersAct
  PROVE  CInv'
  <1> DEFINE goal == Goal(op, applied)
  <1>1. PICK a \in DOMAIN adapters : AdapterActs(a)
    BY DEF AdaptersAct
  <1>2. UNCHANGED <<exec, applied, op, view>>
    BY DEF AdaptersAct
  <1>3. Serves(a) \/ Speaks(a)
    BY <1>1, ActsServeOrSpeak DEF Typed
  <1>4. adapters[a].open /\ AdaptersTyped /\ OneActs(a)
    BY <1>1, <1>3 DEF AdapterActs, Typed, Serves, Speaks
  <1>5. /\ DOMAIN adapters' = DOMAIN adapters
        /\ \A b \in DOMAIN adapters : adapters'[b].open = adapters[b].open
        /\ \A b \in DOMAIN adapters : b # a => adapters'[b] = adapters[b] /\ targets'[b] = targets[b]
    BY <1>4, OneOfThem
  <1>6. Asked'
    BY <1>2, <1>3, <1>4, ActsAsked DEF CInv
  <1>7. Unprepared'
    <2>1. ASSUME NEW b \in DOMAIN adapters', adapters'[b].open, b # exec'.adapter
          PROVE  targets'[b].tables = {}
      <3>1. b \in DOMAIN adapters /\ adapters[b].open /\ b # exec.adapter /\ targets[b].tables = {}
        BY <1>2, <1>5, <2>1 DEF CInv, Unprepared
      <3>2. CASE b # a
        BY <1>5, <3>1, <3>2
      <3>3. CASE b = a /\ Speaks(a)
        BY <3>1, <3>3 DEF Speaks
      <3>4. CASE b = a /\ Serves(a)
        <4> DEFINE req == Head(adapters[a].requests)
        <4>1. adapters[a].requests \in Seq({InitialRequest}) /\ adapters[a].requests # <<>>
          BY <3>1, <3>4 DEF IInv, AdaptersAreOwned, Untouched, Serves
        <4>2. req = InitialRequest
          BY <4>1
        <4>3. req.command \notin Changes
          BY <4>2 DEF InitialRequest, Request, Changes
        <4>4. Tables(targets[a].tables, req) = targets[a].tables
          BY <4>3 DEF Tables, Changes
        <4> QED BY <3>1, <3>4, <4>4 DEF Serves
      <3> QED BY <1>3, <3>2, <3>3, <3>4
    <2> QED BY <2>1 DEF Unprepared
  <1>8. ASSUME a # exec.adapter PROVE Reflected' /\ Progress'
    <2>1. Has => exec.adapter \in DOMAIN adapters
      BY DEF Typed, ExecutionTyped
    <2>2. Has' = Has /\ Current' = Current
      BY <1>2 DEF Has, Current
    <2>3. Has => targets'[exec.adapter] = targets[exec.adapter]
      BY <1>5, <1>8, <2>1
    <2>4. Has => Heard(exec.adapter)' = Heard(exec.adapter)
      BY <1>2, <1>5, <1>8, <2>1 DEF Heard
    <2>5. Progress'
      BY <1>2, <2>2, <2>3 DEF CInv, Progress
    <2>6. Reflected'
      BY <1>2, <2>2, <2>3, <2>4 DEF CInv, Reflected
    <2> QED BY <2>5, <2>6
  <1>9. ASSUME a = exec.adapter, Has PROVE Reflected' /\ Progress'
    <2> DEFINE req == Head(adapters[a].requests)
               old == targets[a].tables
               new == targets'[a].tables
    <2>1. /\ Has' /\ Current' = Current /\ Goal(op', applied') = goal
          /\ exec'.adapter = a
      BY <1>2, <1>9 DEF Has, Current
    <2>2. CASE Speaks(a)
      <3>1. new = old /\ \A m \in Heard(a)' : IsResponse(m) => m \in Heard(a)
        BY <2>2 DEF Speaks, Told, IsEvent, IsResponse
      <3>2. Progress'
        BY <1>2, <1>9, <2>1, <3>1 DEF CInv, Progress
      <3>3. Heard(exec.adapter)' = Heard(a)'
        BY <2>1 DEF Heard
      <3>4. Reflected'
        BY <1>2, <1>9, <2>1, <3>1, <3>3 DEF CInv, Reflected
      <3> QED BY <3>2, <3>4
    <2>3. CASE Serves(a)
      <3>1. /\ adapters[a].requests # <<>>
            /\ new \in {old, Tables(old, req)}
            /\ \A m \in Heard(a)' : IsResponse(m) =>
                  \/ m \in Heard(a)
                  \/ m.to = req.seq /\ (m.ok /\ req.command \in Changes => new = Tables(old, req))
        BY <2>3 DEF Serves, Told, Replies, IsEvent, IsResponse
      <3>2. /\ req \in RequestRecords
            /\ \A m \in Heard(a) \cup exec.inbox : IsResponse(m) => m.to # req.seq
            /\ req.seq = op.waits \/ (req.command \in Changes /\ ~op.failing) =>
                 /\ req.seq = op.waits /\ op.todo # <<>> /\ Current \in Steps
                 /\ Aims(Current, goal) \/ req.command \notin Changes
                 /\ req.command = Current.command /\ req.on = Current.on
                 /\ req.points = Current.points
        BY <1>9, <3>1, ActsChange
      <3> HIDE DEF req, old, new, goal
      <3>3. req.command \notin Changes => new = old
        BY <3>1, <3>2, OtherRequests
      <3>4. req.command \in Changes /\ ~op.failing =>
              /\ req.seq = op.waits /\ op.todo # <<>> /\ Current.command \in Changes
              /\ Agrees(Current, Tables(old, req), goal)
              /\ \A p \in Points : p \notin Scope(Current) => (p \in new <=> p \in old)
        BY <3>1, <3>2, TablesAgree
      <3>5. Progressed(op, exec, new, goal)
        <4>1. CASE new = old
          BY <1>9, <4>1 DEF CInv, Progress, old, goal
        <4>2. CASE op.failing
          BY <4>2 DEF Progressed
        <4>3. CASE ~op.failing /\ req.command \in Changes
          <5>1. op \in Operations
            BY DEF Typed, Operates
          <5>2. op.todo \in Seq(Steps) /\ op.todo # <<>>
            BY <3>4, <4>3, <5>1 DEF Operations
          <5>3. \A p \in Scope(Current) : Covers(op.todo, p)
            BY <5>2, TailSteps DEF Covers, Current
          <5>4. \A p \in Points : p \notin Scope(Current) /\ SettledIn(p, exec, old, goal) =>
                   SettledIn(p, exec, new, goal)
            BY <3>4, <4>3 DEF SettledIn
          <5>5. Progressed(op, exec, old, goal)
            BY <1>9 DEF CInv, Progress, old, goal
          <5> QED BY <5>3, <5>4, <5>5 DEF Progressed
        <4> QED BY <3>3, <4>1, <4>2, <4>3
      <3>6. Progress'
        BY <1>2, <1>9, <2>1, <3>5 DEF Progress, new
      <3>7. ASSUME ~op.failing, op.waits # NoRequest, Current.command \in Changes,
                   NEW m \in Heard(a)' \cup exec.inbox, IsResponse(m), m.to = op.waits, m.ok
            PROVE  Agrees(Current, new, goal)
        <4>1. CASE m \in Heard(a) \cup exec.inbox
          <5>1. Agrees(Current, old, goal)
            BY <1>9, <3>7, <4>1 DEF CInv, Reflected, old, goal
          <5>2. req.seq # op.waits
            BY <3>2, <3>7, <4>1
          <5> QED BY <3>2, <3>3, <3>7, <5>1, <5>2
        <4>2. CASE m.to = req.seq /\ (m.ok /\ req.command \in Changes => new = Tables(old, req))
          BY <3>2, <3>4, <3>7, <4>2
        <4> QED BY <3>1, <3>7, <4>1, <4>2
      <3>8. Heard(exec.adapter)' = Heard(a)'
        BY <2>1 DEF Heard
      <3>9. Reflected'
        BY <1>2, <2>1, <3>7, <3>8 DEF Reflected, new
      <3> QED BY <3>6, <3>9
    <2> QED BY <1>3, <2>2, <2>3
  <1>10. Reflected' /\ Progress'
    <2>1. CASE ~Has
      <3>1. ~Has'
        BY <1>2, <2>1 DEF Has
      <3> QED BY <3>1 DEF Reflected, Progress
    <2> QED BY <1>8, <1>9, <2>1
  <1>11. /\ Shaped(op', Goal(op', applied')) /\ Reached(op', exec', view'.phase)
         /\ Windowed(op', exec', view')
    BY <1>2 DEF CInv
  <1> QED BY <1>6, <1>7, <1>10, <1>11 DEF CInv

-----------------------------------------------------------------------------
(* The user's calls, and the ends of operations.                             *)

\* What an operation begins with.
Begun(o, name, todo, page) ==
    /\ o.name = name /\ o.todo = todo /\ o.page = page /\ o.waits = NoRequest
    /\ ~o.settling /\ ~o.failing

LEMMA DoingBegins ==
  ASSUME NEW name, NEW todo
  PROVE  /\ Begun(Doing(name, todo), name, todo, 0)
         /\ \A b : Begun([Doing(name, todo) EXCEPT !.filter = b], name, todo, 0)
         /\ \A n : Begun([Doing(name, todo) EXCEPT !.page = n], name, todo, n)
         /\ \A w : /\ Begun([Doing(name, todo) EXCEPT !.want = w], name, todo, 0)
                   /\ [Doing(name, todo) EXCEPT !.want = w].want = w
  BY DEF Begun, Doing

LEMMA IdleBegins == Begun(Idle, "idle", <<>>, 0)
  BY DoingBegins DEF Idle

\* Steps that configure nothing are in order.
LEMMA PlainShape ==
  ASSUME NEW o, NEW name, NEW C, NEW todo \in Seq({Step(c) : c \in C}), NEW page,
         Begun(o, name, todo, page), name \notin {"idle", "quit"},
         C \subseteq Alphabet(o), C \cap (Changes \cup {"release", "prepare"}) = {}, NEW goal
  PROVE  Shaped(o, goal)
  <1> DEFINE K == {Step(c) : c \in C}
  <1>1. \A s \in K : s.command \in C
    BY DEF Step
  <1> HIDE DEF K
  <1>2. \A i \in DOMAIN o.todo : o.todo[i].command \in C
    BY <1>1 DEF Begun, K
  <1>3. \A i \in DOMAIN o.todo : Belongs(o.todo[i], o, goal)
    BY <1>2 DEF Belongs
  <1>4. Ordered(o.todo)
    BY <1>2 DEF Ordered
  <1> QED BY <1>3, <1>4 DEF Shaped, Begun, Closes, Expects

\* An idle backend has nothing in order.
LEMMA IdleShape ==
  ASSUME NEW goal
  PROVE  Shaped(Idle, goal)
  BY IdleBegins DEF Shaped, Begun, Ordered, Closes, Expects

\* When nothing is left to do, the breakpoints are as they are wanted.
LEMMA AtRest ==
  ASSUME Typed, CInv, Has, op.todo = <<>>, ~op.failing, op.name = "sync" \/ ~Over(exec)
  PROVE  \A p \in Points : SettledIn(p, exec, targets[exec.adapter].tables, Goal(op, applied))
  BY DEF CInv, Progress, Progressed, Has, Covers, Releases

\* The adapters stay, and nothing is awaited.
LEMMA RestKeeps ==
  ASSUME Typed, CInv, UNCHANGED adapters,
         \A a \in DOMAIN adapters : adapters[a].open => targets'[a] = targets[a],
         exec'.adapter = exec.adapter, exec'.inbox = exec.inbox, op'.waits = NoRequest,
         ~op.failing,
         op.waits = NoRequest \/ (op.todo # <<>> /\ Current.command \notin Changes)
  PROVE  /\ Asked' /\ Unprepared' /\ Reflected'
         /\ Has' = Has /\ (Has => targets'[exec'.adapter] = targets[exec.adapter])
  <1>1. Has' = Has /\ (Has => exec.adapter \in DOMAIN adapters /\ adapters[exec.adapter].open)
    BY DEF Has, Typed, ExecutionTyped
  <1>2. \A a \in DOMAIN adapters : adapters[a].open => Heard(a)' = Heard(a)
    BY DEF Heard
  <1>3. \A a \in DOMAIN adapters' : adapters'[a].open => InSequence(a)'
    BY <1>2 DEF CInv, Asked, InSequence
  <1>4. ASSUME Has, NEW i \in DOMAIN adapters[exec.adapter].requests
        PROVE  LET req == adapters[exec.adapter].requests[i] IN
               req.seq # op'.waits /\ req.command \notin Changes /\ \A m \in exec'.inbox : m.to # req.seq
    <2> DEFINE req == adapters[exec.adapter].requests[i]
    <2>1. /\ req \in RequestRecords /\ Pending(req)
          /\ \A m \in exec.inbox : m.to # req.seq
      BY <1>4, NoneAnswered DEF CInv
    <2>2. req.seq \in Nat
      BY <2>1 DEF RequestRecords
    <2>3. req.seq # NoRequest
      BY <2>2 DEF NoRequest
    <2> HIDE DEF req
    <2>4. req.command \notin Changes
      BY <2>1, <2>3 DEF Pending
    <2> QED BY <2>1, <2>3, <2>4 DEF req
  <1>5. Asked'
    BY <1>1, <1>3, <1>4 DEF Asked, Pending
  <1>6. Unprepared'
    BY DEF CInv, Unprepared
  <1>7. Reflected'
    BY DEF Reflected
  <1> QED BY <1>1, <1>5, <1>6, <1>7

\* The user calls from the prompt, where the breakpoints are as they are wanted.
LEMMA PromptIs ==
  ASSUME Typed, CInv, AtPrompt
  PROVE  /\ Begun(op, "idle", <<>>, 0) /\ Goal(op, applied) = applied
         /\ Has => InReach(exec)
         /\ Has /\ ~Over(exec) =>
               \A p \in Points : SettledIn(p, exec, targets[exec.adapter].tables, applied)
         /\ view.phase = "Stopped" => Has /\ view.windows >= 1 /\ Seen(exec, view)
  <1>1. Begun(op, "idle", <<>>, 0)
    BY IdleBegins DEF AtPrompt
  <1>2. Goal(op, applied) = applied
    BY <1>1 DEF Begun, Goal
  <1>3. Has => InReach(exec)
    BY <1>1 DEF CInv, Reached, Begun, Has
  <1>4. Has /\ ~Over(exec) =>
          \A p \in Points : SettledIn(p, exec, targets[exec.adapter].tables, applied)
    BY <1>1, <1>2, AtRest DEF Begun
  <1>5. view.phase = "Stopped" => Has /\ view.windows >= 1 /\ Seen(exec, view)
    BY <1>1 DEF CInv, Reached, Windowed, Begun, Has
  <1> QED BY <1>1, <1>2, <1>3, <1>4, <1>5

\* A call that begins with a stop and its breakpoints as they are.
LEMMA LookKeeps ==
  ASSUME Typed, CInv, AtPrompt, UNCHANGED <<adapters, targets, exec, applied>>,
         NEW name, NEW todo, NEW page, Begun(op', name, todo, page),
         name \notin {"sync", "launch"}, Shaped(op', applied),
         Reached(op', exec, view'.phase), Windowed(op', exec, view')
  PROVE  CInv'
  <1>1. /\ Begun(op, "idle", <<>>, 0) /\ Goal(op, applied) = applied
        /\ Has /\ ~Over(exec) =>
              \A p \in Points : SettledIn(p, exec, targets[exec.adapter].tables, applied)
    BY PromptIs
  <1>2. Asked' /\ Unprepared' /\ Reflected'
    BY <1>1, RestKeeps DEF Begun
  <1>3. Goal(op', applied') = applied
    BY DEF Goal, Begun
  <1>4. Progress'
    BY <1>1, <1>3 DEF Progress, Progressed, Begun, Has
  <1> QED BY <1>2, <1>3, <1>4 DEF CInv

LEMMA RefuseKeeps ==
  ASSUME Typed, CInv, AtPrompt, UNCHANGED <<adapters, targets, exec, applied, op>>,
         view' = view \/ view' = Viewing("Ready")
  PROVE  CInv'
  <1>1. /\ Begun(op, "idle", <<>>, 0) /\ (Has => InReach(exec))
        /\ view.phase = "Stopped" => Has /\ view.windows >= 1 /\ Seen(exec, view)
    BY PromptIs
  <1>2. Begun(op', "idle", <<>>, 0) /\ Shaped(op', applied)
    BY IdleShape, IdleBegins DEF AtPrompt
  <1>3. Viewing("Ready").phase = "Ready"
    BY DEF Viewing
  <1>4. Reached(op', exec, view'.phase)
    BY <1>1, <1>2, <1>3 DEF Reached, Begun, LooksAt, First, StopNames, Has, CInv
  <1>5. Windowed(op', exec, view')
    BY <1>1, <1>2, <1>3 DEF Windowed, Begun
  <1> QED BY <1>2, <1>4, <1>5, LookKeeps

LEMMA LaunchKeeps ==
  ASSUME Typed, CInv, UNCHANGED targets, NEW want \in Configurations, Launch(want)
  PROVE  CInv'
  <1> DEFINE todo == IF Has /\ exec.state = "Stopped"
                     THEN <<Step("disconnect"), Step("release")>>
                     ELSE <<Step("prepare")>>
             goal == Goal(op', applied')
  <1>1. /\ Begun(op, "idle", <<>>, 0) /\ (Has => InReach(exec))
        /\ ~op.failing /\ op.waits = NoRequest
    BY PromptIs DEF Launch, Begun
  <1>2. Begun(op', "launch", todo, 0) /\ view'.phase = "Running"
    <2>1. Viewing("Running").phase = "Running"
      BY DEF Viewing
    <2> QED BY <2>1, DoingBegins DEF Launch, Begins
  <1>3. CASE Has /\ exec.state = "Stopped"
    <2>1. /\ op'.todo = <<Step("disconnect"), Step("release")>>
          /\ DOMAIN op'.todo = {1, 2} /\ op'.todo[1].command = "disconnect"
          /\ op'.todo[2].command = "release" /\ op'.todo # <<>>
          /\ Head(op'.todo).command = "disconnect"
      BY <1>2, <1>3 DEF Begun, Step
    <2>2. {"disconnect", "release"} \subseteq Alphabet(op')
      BY <1>2 DEF Alphabet, Begun, LaunchCommands
    <2>3. \A i \in DOMAIN op'.todo : Belongs(op'.todo[i], op', goal)
      BY <2>1, <2>2 DEF Belongs, Changes
    <2>4. Ordered(op'.todo)
      BY <2>1 DEF Ordered, Changes
    <2>5. Shaped(op', goal)
      BY <1>2, <2>3, <2>4 DEF Shaped, Begun, Closes, Expects
    <2>6. Reached(op', exec', view'.phase)
      BY <1>2, <2>1 DEF Reached, Begun, LooksAt, First
    <2>7. Windowed(op', exec', view')
      BY <1>2, <2>1 DEF Windowed, Begun
    <2>8. Progress'
      BY <2>1 DEF Progress, Progressed, Releases
    <2>9. Asked' /\ Unprepared' /\ Reflected'
      <3>1. op'.waits = NoRequest /\ UNCHANGED <<adapters, exec>>
        BY <1>2 DEF Begun, Launch
      <3> QED BY <1>1, <3>1, RestKeeps
    <2> QED BY <2>5, <2>6, <2>7, <2>8, <2>9 DEF CInv
  <1>4. CASE ~(Has /\ exec.state = "Stopped")
    <2>1. /\ op'.todo = <<Step("prepare")>> /\ op'.todo # <<>>
          /\ \A i \in DOMAIN op'.todo : i = 1 /\ op'.todo[i].command = "prepare"
          /\ 1 \in DOMAIN op'.todo /\ Head(op'.todo).command = "prepare"
      BY <1>2, <1>4 DEF Begun, Step
    <2>2. "prepare" \in Alphabet(op')
      BY <1>2 DEF Alphabet, Begun, LaunchCommands
    <2>3. \A i \in DOMAIN op'.todo : Belongs(op'.todo[i], op', goal)
      BY <2>1, <2>2 DEF Belongs, Changes
    <2>4. Ordered(op'.todo)
      BY <2>1 DEF Ordered, Changes
    <2>5. Shaped(op', goal)
      BY <1>2, <2>3, <2>4 DEF Shaped, Begun, Closes, Expects
    <2>6. Has => exec.state = "Exited"
      BY <1>1, <1>4 DEF InReach
    <2>7. Reached(op', exec', view'.phase)
      BY <1>2, <2>1, <2>6 DEF Reached, Begun, LooksAt, First, Launch, Has
    <2>8. Windowed(op', exec', view')
      BY <1>2, <2>1 DEF Windowed, Begun
    <2>9. Progress'
      BY <1>2, <2>6 DEF Progress, Progressed, Over, Launch, Has, Begun
    <2>10. Asked' /\ Unprepared' /\ Reflected'
      <3>1. op'.waits = NoRequest /\ UNCHANGED <<adapters, exec>>
        BY <1>2 DEF Begun, Launch
      <3> QED BY <1>1, <3>1, RestKeeps
    <2> QED BY <2>5, <2>7, <2>8, <2>9, <2>10 DEF CInv
  <1> QED BY <1>3, <1>4

LEMMA ResumeKeeps ==
  ASSUME Typed, CInv, UNCHANGED targets, NEW command \in {"continue", "next"}, Resume(command)
  PROVE  CInv'
  <1> DEFINE todo == <<Step(command), Step("stable"), Step("outcome")>>
             C == {command, "stable", "outcome"}
  <1>1. CASE ~InStop
    BY <1>1, RefuseKeeps DEF Resume, InvokeInStop, Refuse
  <1>2. CASE InStop
    <2>1. /\ Begun(op', "resume", todo, 0) /\ view'.phase = "Running"
      <3>1. Viewing("Running").phase = "Running"
        BY DEF Viewing
      <3> QED BY <1>2, <3>1, DoingBegins DEF Resume, InvokeInStop, Begins
    <2>2. C \subseteq Alphabet(op') /\ C \cap (Changes \cup {"release", "prepare"}) = {}
      BY <2>1 DEF Alphabet, Begun, Resumptions, RunSteps, Changes
    <2>3. todo \in Seq({Step(c) : c \in C}) /\ todo # <<>> /\ Head(todo).command = command
      BY DEF Step
    <2> HIDE DEF todo, C
    <2>4. Shaped(op', applied)
      BY <2>1, <2>2, <2>3, PlainShape
    <2>5. Reached(op', exec, view'.phase)
      BY <2>1, <2>3 DEF Reached, Begun, LooksAt, First
    <2>6. Windowed(op', exec, view')
      BY <2>1, <2>3 DEF Windowed, Begun, Resumptions
    <2>7. AtPrompt /\ UNCHANGED <<adapters, exec, applied>>
      BY <1>2 DEF Resume, InvokeInStop
    <2> QED BY <2>1, <2>4, <2>5, <2>6, <2>7, LookKeeps
  <1> QED BY <1>1, <1>2

LEMMA InspectKeeps ==
  ASSUME Typed, CInv, UNCHANGED targets, NEW name \in {"find", "locals"}, Inspect(name)
  PROVE  CInv'
  <1> DEFINE C == {"scopes", "variables"}
             scopes == IF "scopes" \in exec.read THEN <<>> ELSE <<Step("scopes")>>
             variables == IF "variables" \in exec.read THEN <<>> ELSE <<Step("variables")>>
             todo == scopes \o variables
             K == {Step(c) : c \in C}
  <1>1. CASE ~InStop
    BY <1>1, RefuseKeeps DEF Inspect, InvokeInStop, Refuse
  <1>2. CASE InStop
    <2>1. Begun(op', name, todo, 0) /\ view' = view /\ view.phase = "Stopped"
      BY <1>2, DoingBegins DEF Inspect, InvokeInStop, Begins
    <2>2. C \subseteq Alphabet(op') /\ C \cap (Changes \cup {"release", "prepare"}) = {}
      BY <2>1 DEF Alphabet, Begun, Changes
    <2>3. todo \in Seq(K)
      <3>1. Step("scopes") \in K /\ Step("variables") \in K
        OBVIOUS
      <3> HIDE DEF K
      <3>2. scopes \in Seq(K) /\ variables \in Seq(K)
        BY <3>1
      <3> QED BY <3>2
    <2>4. \A s \in K : s.command \in C
      BY DEF Step
    <2> HIDE DEF todo
    <2>5. todo # <<>> => Head(todo).command \in C
      <3> HIDE DEF K, C
      <3> QED BY <2>3, <2>4
    <2>6. Shaped(op', applied)
      <3> HIDE DEF C
      <3> QED BY <2>1, <2>2, <2>3, PlainShape
    <2>7. InReach(exec) /\ exec.state = "Stopped" /\ exec.adapter # 0
      BY <1>2 DEF InStop, InReach, Has
    <2>8. Reached(op', exec, view'.phase)
      BY <2>1, <2>5, <2>7 DEF Reached, Begun, LooksAt, First, StopNames
    <2>9. AtPrompt /\ UNCHANGED <<adapters, exec, applied>>
      BY <1>2 DEF Inspect, InvokeInStop
    <2>10. Windowed(op', exec, view')
      BY <2>1, <2>9, PromptIs DEF Windowed, Begun
    <2> QED BY <2>1, <2>6, <2>8, <2>9, <2>10, LookKeeps
  <1> QED BY <1>1, <1>2

LEMMA ExtendKeeps ==
  ASSUME Typed, CInv, UNCHANGED targets, Extend
  PROVE  CInv'
  <1> DEFINE todo == <<Step("window")>>
             C == {"window"}
  <1>1. /\ Begun(op', "stack", todo, view.windows) /\ view' = view
        /\ view.phase = "Stopped" /\ ~view.whole /\ Has
        /\ AtPrompt /\ UNCHANGED <<adapters, exec, applied>>
    BY DoingBegins DEF Extend, Begins
  <1>2. C \subseteq Alphabet(op') /\ C \cap (Changes \cup {"release", "prepare"}) = {}
    BY <1>1 DEF Alphabet, Begun, Changes
  <1>3. /\ todo \in Seq({Step(c) : c \in C}) /\ todo # <<>>
        /\ Head(todo).command = "window" /\ Tail(todo) = <<>>
    BY DEF Step
  <1> HIDE DEF todo, C
  <1>4. Shaped(op', applied)
    BY <1>1, <1>2, <1>3, PlainShape
  <1>5. InReach(exec) /\ view.windows >= 1 /\ Seen(exec, view)
    BY <1>1, PromptIs
  <1>6. Reached(op', exec, view'.phase)
    BY <1>1, <1>3, <1>5 DEF Reached, Begun, LooksAt, First, StopNames, Has
  <1>7. Windowed(op', exec, view')
    BY <1>1, <1>3, <1>5 DEF Windowed, Begun
  <1> QED BY <1>1, <1>4, <1>6, <1>7, LookKeeps

LEMMA QuitKeeps ==
  ASSUME Typed, CInv, UNCHANGED targets, Quit
  PROVE  CInv'
  <1> DEFINE todo == IF Has THEN <<Step("disconnect"), Step("close")>> ELSE <<Step("close")>>
  <1>1. /\ Begun(op', "quit", todo, 0) /\ view'.phase = "Exited"
        /\ AtPrompt /\ UNCHANGED <<adapters, exec, applied>>
    <2>1. Viewing("Exited").phase = "Exited"
      BY DEF Viewing
    <2> QED BY <2>1, DoingBegins DEF Quit, Begins
  <1>2. /\ todo # <<>> /\ \A i \in DOMAIN todo : todo[i].command \in {"disconnect", "close"}
        /\ todo[Len(todo)].command = "close"
        /\ Head(todo).command \in {"disconnect", "close"}
    <2>1. CASE Has
      <3>1. Len(todo) = 2 /\ todo[1] = Step("disconnect") /\ todo[2] = Step("close")
            /\ DOMAIN todo = {1, 2} /\ todo # <<>> /\ Head(todo) = todo[1]
        BY <2>1
      <3> HIDE DEF todo
      <3> QED BY <3>1 DEF Step
    <2>2. CASE ~Has
      <3>1. Len(todo) = 1 /\ todo[1] = Step("close") /\ DOMAIN todo = {1} /\ todo # <<>>
            /\ Head(todo) = todo[1]
        BY <2>2
      <3> HIDE DEF todo
      <3> QED BY <3>1 DEF Step
    <2> QED BY <2>1, <2>2
  <1> HIDE DEF todo
  <1>3. Shaped(op', applied)
    <2>1. \A i \in DOMAIN op'.todo : Belongs(op'.todo[i], op', applied)
      BY <1>1, <1>2 DEF Belongs, Begun, Alphabet, Changes
    <2>2. Ordered(op'.todo)
      BY <1>1, <1>2 DEF Ordered, Begun, Changes
    <2> QED BY <1>1, <1>2, <2>1, <2>2 DEF Shaped, Begun, Closes, Expects
  <1>4. Reached(op', exec, view'.phase)
    BY <1>1, <1>2 DEF Reached, Begun, LooksAt, First
  <1>5. Windowed(op', exec, view')
    BY <1>1 DEF Windowed, Begun
  <1> QED BY <1>1, <1>3, <1>4, <1>5, LookKeeps

\* The steps of a synchronization cover what it changes.
LEMMA SynchronizeKeeps ==
  ASSUME Typed, CInv, UNCHANGED targets, NEW want \in Wants, Synchronize(want)
  PROVE  CInv'
  <1>1. CASE ~(Has /\ exec.state = "Stopped")
    BY <1>1, RefuseKeeps DEF Synchronize
  <1>2. CASE Has /\ exec.state = "Stopped"
    <2> DEFINE todo == SynchronizationSteps(want)
               tables == targets[exec.adapter].tables
    <2>1. /\ Begun(op', "sync", todo, 0) /\ op'.want = want
          /\ view' = view /\ view.phase = "Stopped"
          /\ AtPrompt /\ UNCHANGED <<adapters, exec, applied>>
      <3>1. /\ op' = [Doing("sync", todo) EXCEPT !.want = want] /\ view' = view
            /\ view.phase = "Stopped" /\ AtPrompt /\ UNCHANGED <<adapters, exec, applied>>
        BY <1>2 DEF Synchronize, Begins
      <3> HIDE DEF todo
      <3> QED BY <3>1, DoingBegins
    <2>2. /\ Begun(op, "idle", <<>>, 0) /\ ~op.failing /\ op.waits = NoRequest
          /\ InReach(exec) /\ view.windows >= 1 /\ Seen(exec, view)
          /\ \A p \in Points : SettledIn(p, exec, tables, applied)
      BY <1>2, <2>1, PromptIs DEF Over, Begun
    <2>3. /\ want \in Configurations /\ want.on \cap Families \subseteq want.known
          /\ applied \in SUBSET Points /\ exec.handles \in SUBSET Families
          /\ exec.active \in SUBSET Families /\ exec.active \subseteq exec.handles
      BY DEF Typed, ExecutionTyped, Executions, Coherent, Wants
    <2>4. applied \cap Families = exec.active
      BY <2>2, <2>3 DEF SettledIn, Families, OfKind
    <2>5. /\ todo \in Seq(ChangeSteps(want.on))
          /\ \A p \in Points : (p \in applied) # (p \in want.on) => Covers(todo, p)
      BY <2>3, <2>4, SynchronizationCovers
    <2> HIDE DEF todo, tables
    <2>6. Goal(op', applied') = want.on
      BY <2>1 DEF Goal, Begun
    <2>7. \A i \in DOMAIN todo : todo[i].command \in Changes /\ Aims(todo[i], want.on)
      BY <2>5 DEF ChangeSteps
    <2>8. Shaped(op', want.on)
      <3>1. \A i \in DOMAIN op'.todo : Belongs(op'.todo[i], op', want.on)
        BY <2>1, <2>7 DEF Belongs, Begun, Alphabet
      <3>2. Ordered(op'.todo)
        BY <2>1, <2>7 DEF Ordered, Begun, Changes
      <3> QED BY <2>1, <3>1, <3>2 DEF Shaped, Begun, Closes, Expects
    <2>9. todo # <<>> => Head(todo).command \in Changes
      <3>1. todo # <<>> => Head(todo) \in ChangeSteps(want.on)
        BY <2>5
      <3> QED BY <3>1 DEF ChangeSteps
    <2>10. Reached(op', exec, view'.phase)
      BY <1>2, <2>1, <2>2, <2>9 DEF Reached, Begun, LooksAt, First, StopNames, Has, Changes
    <2>11. Windowed(op', exec, view')
      BY <2>1, <2>2 DEF Windowed, Begun
    <2>12. /\ Asked' /\ Unprepared' /\ Reflected'
           /\ targets'[exec'.adapter].tables = tables
      BY <1>2, <2>1, <2>2, RestKeeps DEF Begun, tables
    <2>13. Progress'
      <3>1. ASSUME NEW p \in Points
            PROVE  SettledIn(p, exec, tables, want.on) \/ Covers(todo, p)
        BY <2>2, <2>5 DEF SettledIn
      <3> QED BY <2>1, <2>6, <2>12, <3>1 DEF Progress, Progressed, Begun, Has
    <2> QED BY <2>1, <2>6, <2>8, <2>10, <2>11, <2>12, <2>13 DEF CInv
  <1> QED BY <1>1, <1>2

LEMMA UserKeeps ==
  ASSUME Typed, CInv, UserCalls
  PROVE  CInv'
  <1>1. UNCHANGED targets
    BY DEF UserCalls
  <1>2. ASSUME NEW want \in Wants, Launch(want) \/ Synchronize(want)  PROVE CInv'
    <2>1. want \in Configurations
      BY DEF Wants
    <2> QED BY <1>1, <1>2, <2>1, LaunchKeeps, SynchronizeKeeps
  <1>3. ASSUME NEW command \in {"continue", "next"}, Resume(command)  PROVE CInv'
    BY <1>1, <1>3, ResumeKeeps
  <1>4. ASSUME NEW name \in {"find", "locals"}, Inspect(name)  PROVE CInv'
    BY <1>1, <1>4, InspectKeeps
  <1>5. CASE Extend \/ Quit
    BY <1>1, <1>5, ExtendKeeps, QuitKeeps
  <1> QED BY <1>2, <1>3, <1>4, <1>5 DEF UserCalls

-----------------------------------------------------------------------------
(* The preparation, and the ends of executions.                              *)

\* An adapter is as it was, but for what was read, or it was just started.
Remains(a) ==
    \/ /\ a \in DOMAIN adapters /\ adapters[a].open
       /\ adapters'[a].requests = adapters[a].requests
       /\ \A i \in DOMAIN adapters'[a].messages : adapters'[a].messages[i] \in Heard(a)
    \/ /\ a \notin DOMAIN adapters
       /\ adapters'[a].requests = <<InitialRequest>> /\ adapters'[a].messages = <<>>

LEMMA AdaptersRemain ==
  ASSUME Typed, Typed', CInv, EndClosed,
         \A a \in DOMAIN adapters' : adapters'[a].open =>
             Remains(a) /\ (a = exec.adapter => exec'.adapter = a)
  PROVE  /\ \A a \in DOMAIN adapters' : adapters'[a].open => InSequence(a)'
         /\ Unprepared'
  <1>1. /\ \A a \in DOMAIN adapters' : a \in DOMAIN adapters /\ adapters'[a].open =>
               targets'[a] = targets[a]
        /\ \A a \in DOMAIN adapters' : a \notin DOMAIN adapters => targets'[a] = Target
    BY EndClosedTyped DEF Typed, AdaptersTyped
  <1>2. Target.tables = {} /\ Target.owed = <<>>
    BY DEF Target
  <1>3. ASSUME NEW a \in DOMAIN adapters', adapters'[a].open
        PROVE  /\ InSequence(a)'
               /\ a # exec'.adapter => targets'[a].tables = {}
    <2>1. CASE a \in DOMAIN adapters
      <3>1. /\ adapters[a].open /\ adapters'[a].requests = adapters[a].requests
            /\ \A i \in DOMAIN adapters'[a].messages : adapters'[a].messages[i] \in Heard(a)
            /\ targets'[a] = targets[a]
        BY <1>1, <1>3, <2>1 DEF Remains
      <3>2. Heard(a)' \subseteq Heard(a)
        BY <3>1 DEF Heard
      <3>3. InSequence(a)'
        BY <2>1, <3>1, <3>2 DEF InSequence, CInv, Asked
      <3>4. a # exec'.adapter => targets[a].tables = {}
        BY <1>3, <2>1, <3>1 DEF CInv, Unprepared
      <3> QED BY <3>1, <3>3, <3>4
    <2>2. CASE a \notin DOMAIN adapters
      <3>1. /\ adapters'[a].requests = <<InitialRequest>> /\ adapters'[a].messages = <<>>
            /\ targets'[a].tables = {} /\ targets'[a].owed = <<>>
        BY <1>1, <1>2, <1>3, <2>2 DEF Remains
      <3>2. Heard(a)' = {}
        BY <3>1 DEF Heard
      <3>3. \A i, j \in DOMAIN adapters'[a].requests : ~(i < j)
        BY <3>1
      <3> QED BY <3>1, <3>2, <3>3 DEF InSequence
    <2> QED BY <2>1, <2>2
  <1> QED BY <1>3 DEF Unprepared

LEMMA UnchangedRemain ==
  ASSUME UNCHANGED adapters, NEW a \in DOMAIN adapters, adapters[a].open
  PROVE  Remains(a)
  BY DEF Remains, Heard

\* No execution is held.
LEMMA HeldByNone ==
  ASSUME Typed, Typed', CInv, EndClosed, exec'.adapter = 0,
         \A a \in DOMAIN adapters' : adapters'[a].open => Remains(a) /\ a # exec.adapter,
         Shaped(op, Goal(op, applied))', Reached(op, exec, view.phase)',
         Windowed(op, exec, view)'
  PROVE  CInv'
  <1>1. /\ \A a \in DOMAIN adapters' : adapters'[a].open => InSequence(a)'
        /\ Unprepared'
    BY AdaptersRemain
  <1>2. ~Has'
    BY DEF Has
  <1>3. Asked' /\ Reflected' /\ Progress'
    BY <1>1, <1>2 DEF Asked, Reflected, Progress
  <1> QED BY <1>1, <1>3 DEF CInv

LEMMA NoAdapterIsZero ==
  ASSUME Typed
  PROVE  0 \notin DOMAIN adapters
  BY DEF Typed, AdaptersTyped

\* The preparation goes on by itself while there is no execution.
LEMMA BackgroundKeeps ==
  ASSUME IInv, Typed, CInv, EndClosed, PrepareStart \/ PrepareRead \/ SpawnFails
  PROVE  CInv'
  <1>1. UNCHANGED <<exec, applied, op, view>>
    BY DEF PrepareStart, PrepareRead, SpawnFails
  <1>2. ~Has
    BY DEF IInv, OneAtATime, NoPreparation, Spawned, PrepareStart, PrepareRead, SpawnFails
  <1>3. Typed'
    BY PrepareStartTyped, PrepareReadTyped, TimeTyped
  <1>4. 0 \notin DOMAIN adapters' /\ 0 \notin DOMAIN adapters
    BY <1>3, NoAdapterIsZero DEF Typed, AdaptersTyped
  <1>5. ASSUME NEW a \in DOMAIN adapters', adapters'[a].open
        PROVE  Remains(a)
    <2>1. CASE PrepareStart
      <3> DEFINE p == Written(Process, InitialRequest)
      <3>1. adapters' = Append(adapters, p) /\ adapters \in Seq(Processes)
        BY <2>1 DEF PrepareStart, InitialRequest, Typed, AdaptersTyped
      <3>2. p.requests = <<InitialRequest>> /\ p.messages = <<>>
        BY DEF Written, Process
      <3> HIDE DEF p
      <3>3. /\ a \in DOMAIN adapters => adapters'[a] = adapters[a]
            /\ a \notin DOMAIN adapters => adapters'[a] = p
        BY <3>1
      <3> QED BY <1>5, <3>2, <3>3 DEF Remains, Heard
    <2>2. CASE SpawnFails
      <3>1. UNCHANGED adapters
        BY <2>2 DEF SpawnFails
      <3> QED BY <1>5, <3>1, UnchangedRemain
    <2>3. CASE PrepareRead
      <3> DEFINE k == prep.adapter
      <3>1. /\ \/ /\ adapters[k].messages # <<>>
                  /\ adapters' = [adapters EXCEPT ![k] = Read(adapters[k])]
               \/ adapters' = [adapters EXCEPT ![k] = Closed(adapters[k])]
            /\ k \in DOMAIN adapters /\ adapters[k].open
        BY <2>3 DEF PrepareRead, IInv, OneAtATime
      <3>2. a \in DOMAIN adapters /\ adapters[a] \in Processes
        BY <3>1, AdapterTypes DEF Typed
      <3> HIDE DEF k
      <3>3. CASE a # k
        <4>1. adapters'[a] = adapters[a]
          BY <3>1, <3>3
        <4> QED BY <1>5, <3>2, <4>1 DEF Remains, Heard
      <3>4. CASE a = k
        <4>1. ~Closed(adapters[k]).open
          BY DEF Closed
        <4>2. adapters'[k] = Read(adapters[k]) /\ adapters[k].messages # <<>>
          BY <1>5, <3>1, <3>4, <4>1
        <4>3. /\ Read(adapters[k]).requests = adapters[k].requests
              /\ Read(adapters[k]).messages = Tail(adapters[k].messages)
              /\ adapters[k].messages \in Seq(Messages)
          <5> HIDE DEF Messages, RequestRecords
          <5> QED BY <3>2, <3>4 DEF Read, Processes
        <4>4. \A i \in DOMAIN Tail(adapters[k].messages) :
                 Tail(adapters[k].messages)[i] \in Heard(k)
          BY <4>2, <4>3, TailSteps DEF Heard
        <4> QED BY <3>1, <3>2, <3>4, <4>2, <4>3, <4>4 DEF Remains
      <3> QED BY <3>3, <3>4
    <2> QED BY <2>1, <2>2, <2>3
  <1>6. exec.adapter = 0 /\ exec'.adapter = 0
    BY <1>1, <1>2 DEF Has
  <1>7. Shaped(op, Goal(op, applied))' /\ Reached(op, exec, view.phase)'
        /\ Windowed(op, exec, view)'
    BY <1>1 DEF CInv
  <1> QED BY <1>3, <1>4, <1>5, <1>6, <1>7, HeldByNone

\* Nothing is left of an execution when an operation ends without a stop.
LEMMA EndKeeps ==
  ASSUME Typed, Typed', CInv, EndClosed, op' = Idle, exec'.adapter = 0,
         view'.phase # "Stopped",
         \A a \in DOMAIN adapters' : adapters'[a].open => Remains(a) /\ a # exec.adapter
  PROVE  CInv'
  <1>1. Begun(op', "idle", <<>>, 0) /\ Shaped(op', Goal(op', applied'))
    BY IdleBegins, IdleShape
  <1>2. Reached(op', exec', view'.phase)
    BY <1>1 DEF Reached, Begun, LooksAt, First
  <1>3. Windowed(op', exec', view')
    BY <1>1 DEF Windowed, Begun
  <1> QED BY <1>1, <1>2, <1>3, HeldByNone

\* The operation of a step, where its name tells.
LEMMA StepNames ==
  ASSUME CInv, op.todo # <<>>, op \in Operations
  PROVE  /\ Current.command \in Alphabet(op)
         /\ At("close") => op.name = "quit"
         /\ At("prepare") \/ At("release") => op.name = "launch" /\ ~op.failing /\ ~op.settling
         /\ At("unreadable") => op.name = "find" /\ ~op.failing
         /\ Current.command \notin Awaited => op.waits = NoRequest
  <1>1. 1 \in DOMAIN op.todo /\ Current = op.todo[1]
    BY TailSteps DEF Operations, Current
  <1>2. Current.command \in Alphabet(op)
    BY <1>1 DEF CInv, Shaped, Belongs
  <1>3. Current.command \notin Awaited => op.waits = NoRequest
    BY DEF CInv, Shaped, Expects, Current
  <1>4. \A c : At(c) => Current.command = c
    BY DEF At, Current
  <1> QED BY <1>2, <1>3, <1>4
          DEF Alphabet, Changes, Resumptions, RunSteps, LaunchCommands

LEMMA LetGoRemains ==
  ASSUME Typed, Has, LetGo, NEW a \in DOMAIN adapters', adapters'[a].open
  PROVE  Remains(a) /\ a # exec.adapter
  <1>1. adapters' = [adapters EXCEPT ![exec.adapter] = Closed(adapters[exec.adapter])]
    BY DEF LetGo
  <1>2. ~Closed(adapters[exec.adapter]).open
    BY DEF Closed
  <1>3. a \in DOMAIN adapters /\ exec.adapter \in DOMAIN adapters
    BY <1>1 DEF Typed, ExecutionTyped
  <1>4. a # exec.adapter /\ adapters'[a] = adapters[a]
    BY <1>1, <1>2, <1>3
  <1> QED BY <1>3, <1>4 DEF Remains, Heard

LEMMA EndingsKeep ==
  ASSUME IInv, Typed, CInv, EndClosed, Complete \/ Discard \/ Close \/ GiveUpPreparation
  PROVE  CInv'
  <1>1. Viewing("Ready").phase = "Ready" /\ NoExecution.adapter = 0
    BY DEF Viewing, NoExecution, Fresh
  <1>2. Typed'
    BY EndsTyped, CloseTyped, TimeTyped
  <1>3. op' = Idle
    BY DEF Complete, Discard, Close, GiveUpPreparation, Answers
  <1>4. CASE Complete \/ Discard
    <2>1. LetGo /\ view' = Viewing("Ready") /\ exec' = NoExecution /\ Has
      BY <1>4, NeedsExecution DEF Complete, Discard, Answers, LetGo, IInv
    <2> QED BY <1>1, <1>2, <1>3, <2>1, LetGoRemains, EndKeeps
  <1>5. CASE Close
    <2>1. op.name = "quit"
      BY <1>5, StepNames DEF Close, At, Typed, Operates
    <2>2. view'.phase # "Stopped"
      BY <1>5, <2>1 DEF Close, Answers, CInv, Reached, StopNames
    <2>3. \A a \in DOMAIN adapters' : ~adapters'[a].open
      <3>1. adapters' = [a \in DOMAIN adapters |-> Closed(adapters[a])]
        BY <1>5 DEF Close
      <3>2. \A q : ~Closed(q).open
        BY DEF Closed
      <3> QED BY <3>1, <3>2
    <2>4. exec'.adapter = 0
      BY <1>1, <1>5 DEF Close
    <2> QED BY <1>2, <1>3, <2>2, <2>3, <2>4, EndKeeps
  <1>6. CASE GiveUpPreparation
    <2> DEFINE k == prep.adapter
    <2>1. /\ ~Has /\ view' = Viewing("Ready") /\ UNCHANGED exec
          /\ \/ UNCHANGED adapters
             \/ adapters' = [adapters EXCEPT ![k] = Closed(adapters[k])] /\ k \in DOMAIN adapters
      BY <1>6 DEF GiveUpPreparation, Answers, IInv, OneAtATime
    <2> HIDE DEF k
    <2>2. ASSUME NEW a \in DOMAIN adapters', adapters'[a].open
          PROVE  Remains(a) /\ a # exec.adapter
      <3>1. ~Closed(adapters[k]).open
        BY DEF Closed
      <3>2. a \in DOMAIN adapters /\ adapters'[a] = adapters[a]
        BY <2>1, <2>2, <3>1
      <3> QED BY <2>1, <2>2, <3>2, NoAdapterIsZero DEF Remains, Heard, Has
    <2> QED BY <1>1, <1>2, <1>3, <2>1, <2>2, EndKeeps DEF Has
  <1> QED BY <1>4, <1>5, <1>6

LEMMA ReleaseKeeps ==
  ASSUME IInv, Typed, CInv, EndClosed, Release
  PROVE  CInv'
  <1> DEFINE todo == <<Step("prepare")>>
  <1>1. Typed' /\ Has
    BY EndsTyped, NeedsExecution DEF Release, IInv
  <1>2. NoExecution.adapter = 0
    BY DEF NoExecution, Fresh
  <1>3. /\ LetGo /\ op' = Follow(todo) /\ exec' = NoExecution /\ UNCHANGED <<applied, view>>
        /\ At("release")
    BY DEF Release, LetGo
  <1>4. /\ op \in Operations /\ op.name = "launch" /\ ~op.failing /\ ~op.settling
    BY <1>3, StepNames DEF At, Typed, Operates
  <1>5. SameCall(op') /\ op'.todo = todo /\ op'.waits = NoRequest
    BY <1>3, <1>4, CallsGoOn DEF Goes
  <1>6. /\ op'.todo # <<>> /\ Head(op'.todo).command = "prepare"
        /\ \A i \in DOMAIN op'.todo : i = 1 /\ op'.todo[i].command = "prepare"
        /\ 1 \in DOMAIN op'.todo
    BY <1>5 DEF Step
  <1> HIDE DEF todo
  <1>7. op'.name = "launch" /\ ~op'.failing /\ ~op'.settling /\ op'.page = op.page
    BY <1>4, <1>5 DEF SameCall
  <1>8. Shaped(op', Goal(op', applied'))
    <2>1. "prepare" \in Alphabet(op')
      BY <1>7 DEF Alphabet, LaunchCommands
    <2>2. \A i \in DOMAIN op'.todo : Belongs(op'.todo[i], op', Goal(op', applied'))
      BY <1>6, <2>1 DEF Belongs, Changes
    <2>3. Ordered(op'.todo)
      BY <1>6 DEF Ordered, Changes
    <2> QED BY <1>5, <1>6, <1>7, <2>2, <2>3 DEF Shaped, Closes, Expects
  <1>9. view.phase # "Stopped"
    BY <1>4 DEF CInv, Reached, StopNames
  <1>10. Reached(op', exec', view'.phase)
    BY <1>2, <1>3, <1>6, <1>7, <1>9 DEF Reached, LooksAt, First
  <1>11. Windowed(op', exec', view')
    BY <1>2, <1>3, <1>4, <1>7, <1>9 DEF Windowed, CInv
  <1> QED BY <1>1, <1>2, <1>3, <1>8, <1>10, <1>11, LetGoRemains, HeldByNone

\* The execution is kept when an operation ends.
LEMMA RestsAtPrompt ==
  ASSUME Typed, Typed', CInv, EndClosed, UNCHANGED adapters, op' = Idle, Has, InReach(exec),
         ~op.failing, op.waits = NoRequest,
         exec'.adapter = exec.adapter, exec'.state = exec.state, exec'.thread = exec.thread,
         exec'.inbox = exec.inbox, exec'.active = exec.active,
         exec'.windows = exec.windows, exec'.whole = exec.whole,
         ~Over(exec) => \A p \in Points :
                            SettledIn(p, exec, targets[exec.adapter].tables, applied'),
         view'.phase = "Stopped" => view'.windows >= 1 /\ Seen(exec, view')
  PROVE  CInv'
  <1>1. Begun(op', "idle", <<>>, 0) /\ Shaped(op', Goal(op', applied'))
        /\ Goal(op', applied') = applied'
    BY IdleBegins, IdleShape DEF Goal, Begun
  <1>2. Reached(op', exec', view'.phase)
    BY <1>1 DEF Reached, Begun, LooksAt, First, InReach, StopNames, Has
  <1>3. Windowed(op', exec', view')
    BY <1>1 DEF Windowed, Begun, Seen
  <1>4. \A a \in DOMAIN adapters : adapters[a].open => targets'[a] = targets[a]
    BY DEF EndClosed
  <1>5. /\ Asked' /\ Unprepared' /\ Reflected'
        /\ Has' = Has /\ (Has => targets'[exec'.adapter] = targets[exec.adapter])
    BY <1>1, <1>4, RestKeeps DEF Begun
  <1>6. Progress'
    <2>1. Over(exec') = Over(exec)
      BY DEF Over
    <2>2. \A p \in Points : SettledIn(p, exec, targets[exec.adapter].tables, applied') =>
              SettledIn(p, exec', targets'[exec'.adapter].tables, applied')
      BY <1>5 DEF SettledIn
    <2> QED BY <1>1, <1>5, <2>1, <2>2 DEF Progress, Progressed, Begun
  <1> QED BY <1>1, <1>2, <1>3, <1>5, <1>6 DEF CInv

LEMMA UnreadableKeeps ==
  ASSUME IInv, Typed, CInv, EndClosed, Unreadable
  PROVE  CInv'
  <1>1. Typed'
    BY UnreadableTyped
  <1>2. /\ At("unreadable") /\ op' = Idle /\ UNCHANGED <<adapters, exec, applied, view>>
    BY DEF Unreadable, Answers
  <1>3. /\ Has /\ op.todo # <<>> /\ Current.command = "unreadable"
    BY <1>2, NeedsExecution DEF IInv, At, Current
  <1>4. /\ op \in Operations /\ op.name = "find" /\ ~op.failing /\ op.waits = NoRequest
    BY <1>2, <1>3, StepNames DEF At, Typed, Operates, Awaited, Resumptions
  <1>5. /\ InReach(exec) /\ exec.state = "Stopped"
        /\ view.phase = "Stopped" => view.windows >= 1 /\ Seen(exec, view)
    BY <1>3, <1>4 DEF CInv, Reached, LooksAt, First, Windowed, Current
  <1>6. Goal(op, applied) = applied /\ ~Over(exec)
    BY <1>4, <1>5 DEF Goal, Over
  <1>7. \A i \in DOMAIN op.todo : op.todo[i].command \notin Changes \cup {"release"}
    BY <1>4 DEF CInv, Shaped, Belongs, Alphabet, Changes
  <1>8. \A p : ~Covers(op.todo, p) /\ ~Releases(op.todo)
    BY <1>7, ScopeOf DEF Covers, Releases
  <1>9. \A p \in Points : SettledIn(p, exec, targets[exec.adapter].tables, applied)
    BY <1>3, <1>4, <1>6, <1>8 DEF CInv, Progress, Progressed, Has
  <1> QED BY <1>1, <1>2, <1>3, <1>4, <1>5, <1>9, RestsAtPrompt

\* What begins with a new execution: the steps of a launch.
LEMMA LaunchOrder ==
  ASSUME applied \in SUBSET Points
  PROVE  /\ LaunchSteps \in Seq(Steps) /\ LaunchSteps # <<>> /\ Head(LaunchSteps).command = "launch"
         /\ \A i \in DOMAIN LaunchSteps :
               /\ LaunchSteps[i].command \in LaunchCommands \cup Changes \cup RunSteps
               /\ LaunchSteps[i].command \notin {"release", "prepare"}
               /\ LaunchSteps[i].command \in Changes => Aims(LaunchSteps[i], applied)
         /\ Ordered(LaunchSteps)
         /\ \A p \in applied : Covers(LaunchSteps, p)
  <1> DEFINE A == <<Step("launch"), Step("initialized")>>
             B == ConfigurationSteps(applied)
             C == <<Step("configurationDone"), Step("launched"), Step("stable"), Step("outcome")>>
             Firsts == {"launch", "initialized"}
             Lasts == {"configurationDone", "launched", "stable", "outcome"}
             KA == {s \in Steps : s.command \in Firsts}
             KC == {s \in Steps : s.command \in Lasts}
  <1>1. A \in Seq(KA) /\ Len(A) = 2 /\ A[1] = Step("launch")
    <2>1. Step("launch") \in KA /\ Step("initialized") \in KA
      BY PlainSteps DEF Commands
    <2> HIDE DEF KA
    <2> QED BY <2>1
  <1>2. B \in Seq(ChangeSteps(applied)) /\ \A p \in applied : Covers(B, p)
    <2> DEFINE K == {s \in ChangeSteps(applied) : s.command = "evaluate" => s.on = "set"}
    <2>1. B \in Seq(K) /\ \A p \in applied : Covers(B, p)
      BY ConfigurationCovers
    <2>2. K \subseteq ChangeSteps(applied)
      OBVIOUS
    <2> HIDE DEF K, B
    <2> QED BY <2>1, <2>2
  <1>3. C \in Seq(KC)
    <2>1. /\ Step("configurationDone") \in KC /\ Step("launched") \in KC
          /\ Step("stable") \in KC /\ Step("outcome") \in KC
      BY PlainSteps DEF Commands
    <2> HIDE DEF KC
    <2> QED BY <2>1
  <1>4. LaunchSteps = A \o B \o C
    BY DEF LaunchSteps
  <1>5. ChangeSteps(applied) \subseteq Steps /\ KA \subseteq Steps /\ KC \subseteq Steps
    BY DEF ChangeSteps
  <1>6. \A s \in ChangeSteps(applied) : s.command \in Changes /\ Aims(s, applied)
    BY DEF ChangeSteps
  <1>7. /\ \A s \in KA : s.command \in Firsts
        /\ \A s \in KC : s.command \in Lasts
    OBVIOUS
  <1> HIDE DEF A, B, C, KA, KC
  <1> DEFINE s == A \o B \o C
             b == Len(B)
  <1>8. /\ s \in Seq(Steps) /\ b \in Nat /\ Len(s) = 2 + b + Len(C) /\ Len(C) \in Nat
        /\ s[1] = Step("launch") /\ s # <<>> /\ Head(s) = Step("launch")
        /\ DOMAIN s = 1 .. Len(s)
    <2>1. A \in Seq(Steps) /\ B \in Seq(Steps) /\ C \in Seq(Steps)
      BY <1>1, <1>2, <1>3, <1>5
    <2>2. /\ A \o B \in Seq(Steps) /\ Len(A \o B) = 2 + b /\ b \in Nat
          /\ (A \o B)[1] = A[1] /\ Len(C) \in Nat
      <3>2. /\ A \o B \in Seq(Steps) /\ Len(A \o B) = Len(A) + Len(B)
            /\ \A i \in 1 .. Len(A) + Len(B) : (A \o B)[i] =
                     IF i <= Len(A) THEN A[i] ELSE B[i - Len(A)]
        BY <2>1, ConcatProperties
      <3>3. Len(A) = 2 /\ Len(B) \in Nat /\ Len(C) \in Nat
        BY <1>1, <2>1
      <3> QED BY <3>2, <3>3
    <2> DEFINE t == A \o B
    <2> HIDE DEF t
    <2>3. /\ s \in Seq(Steps) /\ Len(s) = 2 + b + Len(C) /\ s[1] = t[1]
      <3>1. t \in Seq(Steps) /\ Len(t) = 2 + b
        BY <2>2 DEF t
      <3>2. s = t \o C
        BY DEF t
      <3>3. /\ t \o C \in Seq(Steps) /\ Len(t \o C) = Len(t) + Len(C)
            /\ \A i \in 1 .. Len(t) + Len(C) : (t \o C)[i] =
                     IF i <= Len(t) THEN t[i] ELSE C[i - Len(t)]
        BY ZenonT(60), <2>1, <3>1, ConcatProperties
      <3> HIDE DEF s, b
      <3> QED BY <2>2, <3>1, <3>2, <3>3
    <2>4. s[1] = Step("launch")
      BY <1>1, <2>2, <2>3 DEF t
    <2> HIDE DEF s, b
    <2> QED BY <2>2, <2>3, <2>4
  <1>9. ASSUME NEW i \in DOMAIN s
        PROVE  \/ i <= 2 /\ s[i] \in KA
               \/ i > 2 /\ i <= 2 + b /\ s[i] \in ChangeSteps(applied)
               \/ i > 2 + b /\ s[i] \in KC
    <2>1. CASE i <= 2
      <3>1. i \in DOMAIN A /\ s[i] = A[i]
        BY <1>1, <1>2, <1>3, <1>8, <2>1
      <3>2. A[i] \in KA
        <4>1. A \in Seq(KA)
          BY <1>1
        <4> QED BY <3>1, <4>1
      <3> QED BY <2>1, <3>1, <3>2
    <2>2. CASE i > 2 /\ i <= 2 + b
      <3>1. i - 2 \in DOMAIN B /\ s[i] = B[i - 2]
        BY <1>1, <1>2, <1>3, <1>8, <2>2
      <3>2. B[i - 2] \in ChangeSteps(applied)
        BY <1>2, <3>1
      <3> QED BY <2>2, <3>1, <3>2
    <2>3. CASE i > 2 + b
      <3>1. i - 2 - b \in DOMAIN C /\ s[i] = C[i - 2 - b]
        BY <1>1, <1>2, <1>3, <1>8, <2>3
      <3>2. C[i - 2 - b] \in KC
        BY <1>3, <3>1
      <3> QED BY <2>3, <3>1, <3>2
    <2> QED BY <1>8, <2>1, <2>2, <2>3
  <1>10. \A p \in applied : Covers(s, p)
    <2>1. A \o B \in Seq(Steps) /\ C \in Seq(Steps) /\ A \in Seq(Steps) /\ B \in Seq(Steps)
      BY <1>1, <1>2, <1>3, <1>5
    <2>2. \A p \in applied : Covers(A \o B, p)
      BY <1>2, <2>1, ConcatCovers
    <2> QED BY <2>1, <2>2, ConcatCovers
  <1> HIDE DEF s
  <1>11. \A i \in DOMAIN s :
             /\ s[i].command \in Firsts \cup Lasts \cup Changes
             /\ s[i].command \in Changes => Aims(s[i], applied)
             /\ s[i].command \in Changes => i > 2 /\ i <= 2 + b
             /\ i <= 2 => s[i].command \in Firsts
             /\ i > 2 /\ i <= 2 + b => s[i].command \in Changes
    BY <1>6, <1>7, <1>8, <1>9 DEF Changes
  <1>12. \A i \in DOMAIN s : s[i].command \notin {"release", "prepare"}
    BY <1>11 DEF Changes
  <1>13. Ordered(s)
    BY <1>8, <1>11, <1>12 DEF Ordered
  <1>14. Head(s).command = "launch"
    BY <1>8 DEF Step
  <1>15. s = LaunchSteps
    BY <1>4 DEF s
  <1> QED BY <1>8, <1>10, <1>11, <1>12, <1>13, <1>14, <1>15 DEF LaunchCommands, RunSteps

\* A new execution has no breakpoints, and the steps of the launch install those
\* there are to be.
LEMMA StartKeeps ==
  ASSUME IInv, Typed, Typed', CInv, EndClosed, At("prepare"), ~Has, prep.status = "ready",
         exec' = Fresh(prep.adapter), op' = Follow(LaunchSteps),
         UNCHANGED <<adapters, applied, view>>
  PROVE  CInv'
  <1> DEFINE k == prep.adapter
             todo == LaunchSteps
  <1>1. /\ op \in Operations /\ op.todo # <<>> /\ op.name = "launch"
        /\ ~op.failing /\ ~op.settling /\ op.page = 0 /\ view.phase # "Stopped"
        /\ applied \in SUBSET Points
    <2>1. op \in Operations /\ op.todo # <<>> /\ op.name = "launch" /\ ~op.failing /\ ~op.settling
      BY StepNames DEF At, Typed, Operates
    <2> QED BY <2>1 DEF CInv, Windowed, Reached, StopNames, Typed
  <1>2. /\ todo \in Seq(Steps) /\ todo # <<>> /\ Head(todo).command = "launch"
        /\ \A i \in DOMAIN todo :
              /\ todo[i].command \in LaunchCommands \cup Changes \cup RunSteps
              /\ todo[i].command \notin {"release", "prepare"}
              /\ todo[i].command \in Changes => Aims(todo[i], applied)
        /\ Ordered(todo)
        /\ \A p \in applied : Covers(todo, p)
    BY <1>1, LaunchOrder
  <1> HIDE DEF todo
  <1>3. SameCall(op') /\ op'.todo = todo /\ op'.waits = NoRequest
    BY <1>1, CallsGoOn DEF Goes, todo
  <1>4. op'.name = "launch" /\ ~op'.failing /\ ~op'.settling /\ op'.page = 0
    BY <1>1, <1>3 DEF SameCall
  <1>5. /\ exec'.adapter = k /\ exec'.state = "Ready" /\ exec'.inbox = {}
        /\ exec'.windows = {} /\ exec'.active = {}
    BY DEF Fresh
  <1>6. /\ k \in DOMAIN adapters /\ adapters[k].open /\ k # 0 /\ exec.adapter = 0
        /\ k # exec.adapter
    <2>1. k \in DOMAIN adapters /\ adapters[k].open
      BY DEF IInv, OneAtATime
    <2> QED BY <2>1, NoAdapterIsZero DEF Has
  <1> HIDE DEF k
  <1>7. Goal(op', applied') = applied
    BY <1>4 DEF Goal
  <1>8. Shaped(op', applied)
    <2>1. \A i \in DOMAIN todo : todo[i].command \in Alphabet(op')
      BY <1>2, <1>4 DEF Alphabet
    <2>2. \A i \in DOMAIN op'.todo : Belongs(op'.todo[i], op', applied)
      BY <1>2, <1>3, <2>1 DEF Belongs
    <2> QED BY <1>2, <1>3, <1>4, <2>2 DEF Shaped, Closes, Expects
  <1>9. Reached(op', exec', view'.phase)
    BY <1>1, <1>2, <1>3, <1>4 DEF Reached, LooksAt, First
  <1>10. Windowed(op', exec', view')
    BY <1>1, <1>4, <1>5 DEF Windowed
  <1>11. \A a \in DOMAIN adapters' : adapters'[a].open =>
             Remains(a) /\ (a = exec.adapter => exec'.adapter = a)
    BY <1>6, NoAdapterIsZero, UnchangedRemain
  <1>12. (\A a \in DOMAIN adapters' : adapters'[a].open => InSequence(a)') /\ Unprepared'
    BY <1>11, AdaptersRemain
  <1>13. Asked'
    <2>1. \A i \in DOMAIN adapters[k].requests : adapters[k].requests[i] = InitialRequest
      BY <1>6 DEF IInv, AdaptersAreOwned, Untouched
    <2>2. InitialRequest.seq # NoRequest /\ InitialRequest.command = "initialize"
      BY DEF InitialRequest, Request, NoRequest
    <2>3. "initialize" \notin Changes
      BY DEF Changes
    <2> QED BY <1>3, <1>5, <1>12, <2>1, <2>2, <2>3 DEF Asked, Pending
  <1>14. targets'[k].tables = {}
    BY <1>6 DEF EndClosed, CInv, Unprepared
  <1>15. Progress'
    <2>1. ASSUME NEW p \in Points
          PROVE  SettledIn(p, exec', {}, applied) \/ Covers(todo, p)
      BY <1>2, <1>5 DEF SettledIn
    <2> QED BY <1>3, <1>5, <1>7, <1>14, <2>1 DEF Progress, Progressed
  <1>16. Reflected'
    BY <1>3 DEF Reflected
  <1> QED BY <1>7, <1>8, <1>9, <1>10, <1>12, <1>13, <1>15, <1>16 DEF CInv

LEMMA TakePreparationKeeps ==
  ASSUME IInv, Typed, CInv, EndClosed, TakePreparation
  PROVE  CInv'
  <1>1. Viewing("Ready").phase = "Ready"
    BY DEF Viewing
  <1>2. Typed' /\ At("prepare") /\ UNCHANGED <<adapters, applied>>
    BY TakePreparationTyped DEF TakePreparation
  <1>3. CASE Has
    <2>1. op' = Idle /\ view' = Viewing("Ready") /\ UNCHANGED exec
      BY <1>3 DEF TakePreparation, Answers
    <2>2. ~op.failing /\ op.waits = NoRequest
      BY <1>2, StepNames DEF At, Typed, Operates, Awaited, Resumptions, Current
    <2>3. exec.state = "Exited"
      BY <1>2, <1>3 DEF CInv, Reached, First, At, Has
    <2>4. InReach(exec) /\ Over(exec)
      BY <2>3 DEF InReach, Over
    <2> QED BY <1>1, <1>2, <1>3, <2>1, <2>2, <2>4, RestsAtPrompt
  <1>4. CASE ~Has /\ prep.status = "failed"
    <2>1. op' = Idle /\ view' = Viewing("Ready") /\ exec' = exec
      BY <1>4 DEF TakePreparation, Answers
    <2>2. \A a \in DOMAIN adapters' : adapters'[a].open => Remains(a) /\ a # exec.adapter
      BY <1>2, <1>4, NoAdapterIsZero, UnchangedRemain DEF Has
    <2> QED BY <1>1, <1>2, <1>4, <2>1, <2>2, EndKeeps DEF Has
  <1>5. CASE ~Has /\ prep.status = "ready"
    <2>1. exec' = Fresh(prep.adapter) /\ op' = Follow(LaunchSteps) /\ UNCHANGED view
      BY <1>5 DEF TakePreparation
    <2> QED BY <1>2, <1>5, <2>1, StartKeeps
  <1> QED BY <1>3, <1>4, <1>5 DEF TakePreparation

-----------------------------------------------------------------------------
(* The answers.                                                              *)

LEMMA SettleKeeps ==
  ASSUME IInv, Typed, CInv, EndClosed, Return, op.name \in {"launch", "resume"}, ~op.settling
  PROVE  CInv'
  <1> DEFINE todo == <<Step("window")>>
             old == op
  <1>1. /\ op' = [Follow(todo) EXCEPT !.settling = TRUE] /\ op.todo = <<>>
        /\ UNCHANGED <<adapters, applied, exec, view>>
    BY DEF Return
  <1>2. /\ Typed' /\ Has /\ op \in Operations
    BY ReturnTyped, NeedsExecution DEF Return, Typed, Operates, IInv
  <1>3. /\ op'.name = op.name /\ op'.page = op.page /\ op'.settling /\ op'.failing = op.failing
        /\ op'.todo = todo /\ op'.waits = NoRequest
    BY <1>1, <1>2 DEF Follow, Operations
  <1>4. /\ todo # <<>> /\ Head(todo).command = "window" /\ 1 \in DOMAIN todo
        /\ \A i \in DOMAIN todo : i = 1 /\ todo[i].command = "window"
    BY DEF Step
  <1> HIDE DEF todo
  <1>5. /\ ~op.failing /\ op.waits = NoRequest /\ op.page = 0 /\ exec.windows \subseteq {0}
        /\ view.phase # "Stopped"
    <2>1. ~op.failing /\ op.waits = NoRequest
      BY <1>1 DEF CInv, Shaped, Closes, Expects
    <2> QED BY <1>1, <1>2, <2>1 DEF CInv, Windowed, Reached, StopNames, Has
  <1>6. Goal(op', applied') = applied /\ Goal(op, applied) = applied
    BY <1>1, <1>3 DEF Goal
  <1>7. Shaped(op', applied)
    <2>1. "window" \in Alphabet(op')
      BY <1>3, <1>5 DEF Alphabet
    <2>2. \A i \in DOMAIN op'.todo : Belongs(op'.todo[i], op', applied)
      BY <1>3, <1>4, <2>1 DEF Belongs, Changes
    <2>3. Ordered(op'.todo)
      BY <1>3, <1>4 DEF Ordered, Changes
    <2> QED BY <1>3, <1>4, <1>5, <2>2, <2>3 DEF Shaped, Closes, Expects
  <1>8. Reached(op', exec', view'.phase)
    BY <1>1, <1>3, <1>4, <1>5 DEF Reached, LooksAt, First
  <1>9. Windowed(op', exec', view')
    BY <1>1, <1>3, <1>5 DEF Windowed
  <1>10. \A a \in DOMAIN adapters : adapters[a].open => targets'[a] = targets[a]
    BY <1>1 DEF EndClosed
  <1>11. /\ Asked' /\ Unprepared' /\ Reflected'
         /\ Has' = Has /\ (Has => targets'[exec'.adapter] = targets[exec.adapter])
    BY <1>1, <1>3, <1>5, <1>10, RestKeeps
  <1>12. Progress'
    <2>1. ~Over(exec) =>
            \A p \in Points : SettledIn(p, exec, targets[exec.adapter].tables, applied)
      BY <1>1, <1>2, <1>5, <1>6, AtRest
    <2> QED BY <1>1, <1>3, <1>6, <1>11, <2>1 DEF Progress, Progressed, Over
  <1> QED BY <1>6, <1>7, <1>8, <1>9, <1>11, <1>12 DEF CInv

LEMMA ReturnKeeps ==
  ASSUME IInv, Typed, CInv, EndClosed, Return
  PROVE  CInv'
  <1>1. CASE op.name \in {"launch", "resume"} /\ ~op.settling
    BY <1>1, SettleKeeps
  <1>2. CASE ~(op.name \in {"launch", "resume"} /\ ~op.settling)
    <2>1. /\ Typed' /\ Has /\ op \in Operations /\ op.todo = <<>> /\ op.name # "idle"
          /\ UNCHANGED adapters
      BY ReturnTyped, NeedsExecution DEF Return, Typed, Operates, IInv
    <2>2. ~op.failing /\ op.name # "quit" /\ op.waits = NoRequest
          /\ (op.settling => op.name \in {"launch", "resume"})
      BY <2>1 DEF CInv, Shaped, Closes, Expects
    <2>3. LooksAt(op)
      BY <1>2, <2>1, <2>2 DEF LooksAt, First, Operations
    <2>4. /\ InReach(exec)
          /\ op.name # "sync" => exec.state = "Stopped"
      BY <2>1, <2>3 DEF CInv, Reached
    <2>5. op' = Idle
      <3>1. /\ op.name \in {"launch", "resume"} => op.settling
            /\ op.name # "stack" \/ op.name \notin {"launch", "resume"}
        BY <1>2
      <3> QED BY Zenon, <3>1 DEF Return, Answers
    <2>6. /\ exec'.adapter = exec.adapter /\ exec'.state = exec.state
          /\ exec'.thread = exec.thread /\ exec'.inbox = exec.inbox
          /\ exec'.active = exec.active /\ exec'.windows = exec.windows
          /\ exec'.whole = exec.whole
      <3>1. exec \in Executions
        BY DEF Typed, ExecutionTyped
      <3>2. exec' = exec \/ \E outcomes : exec' = [exec EXCEPT !.outcomes = outcomes]
        BY DEF Return
      <3> QED BY <3>1, <3>2 DEF Executions
    <2>7. applied' = Goal(op, applied)
      BY DEF Return, Goal
    <2>8. ~Over(exec) => \A p \in Points :
              SettledIn(p, exec, targets[exec.adapter].tables, applied')
      BY <2>1, <2>2, <2>7, AtRest
    <2>9. view'.phase = "Stopped" => view'.windows >= 1 /\ Seen(exec, view')
      <3>1. view \in Views /\ Coherent(exec)
        BY DEF Typed, ExecutionTyped
      <3>2. CASE op.name \in {"launch", "resume"}
        <4>1. view' = [phase |-> "Stopped", windows |-> 1, whole |-> exec.whole]
          BY <1>2, <3>2 DEF Return, Answers
        <4>2. exec.windows \subseteq {0} /\ exec \in Executions
          BY <2>1, <2>2, <3>2 DEF CInv, Windowed, Has, Typed, ExecutionTyped
        <4>3. view'.windows = 1 /\ view'.whole = exec.whole
          BY <4>1
        <4>4. exec.windows = {} \/ exec.windows = 0 .. 1 - 1
          BY <4>2
        <4> QED BY <4>3, <4>4 DEF Seen
      <3>3. CASE op.name = "stack"
        <4>1. view' = [view EXCEPT !.windows = op.page + 1, !.whole = exec.whole]
          BY <3>3 DEF Return, Answers
        <4>2. view'.windows = op.page + 1 /\ view'.whole = exec.whole
          BY <3>1, <4>1 DEF Views
        <4>3. op.page >= 1 /\ exec.windows = 0 .. op.page /\ op.page \in Nat
          BY <2>1, <2>2, <3>3 DEF CInv, Windowed, Operations
        <4>4. view'.windows - 1 = op.page
          BY <4>2, <4>3
        <4> QED BY <4>2, <4>3, <4>4 DEF Seen
      <3>4. CASE op.name \in {"sync", "find", "locals"}
        <4>1. view' = view
          BY <2>2, <3>4 DEF Return, Answers
        <4> QED BY <2>2, <3>4, <4>1 DEF CInv, Windowed
      <3> QED BY <2>1, <2>2, <3>2, <3>3, <3>4 DEF Operations
    <2> QED BY <2>1, <2>2, <2>4, <2>5, <2>6, <2>8, <2>9, RestsAtPrompt
  <1> QED BY <1>1, <1>2

-----------------------------------------------------------------------------
(* The invariant holds.                                                      *)

LEMMA CInvAtFirst ==
  ASSUME SystemInit
  PROVE  CInv
  <1>1. /\ op = Idle /\ view = Viewing("Ready") /\ adapters = <<>> /\ exec = NoExecution
    BY DEF SystemInit, Init
  <1>2. Viewing("Ready").phase = "Ready" /\ exec.adapter = 0
    BY <1>1 DEF Viewing, NoExecution, Fresh
  <1>3. Begun(op, "idle", <<>>, 0) /\ Shaped(op, Goal(op, applied))
    BY <1>1, IdleBegins, IdleShape
  <1>4. Reached(op, exec, view.phase) /\ Windowed(op, exec, view)
    BY <1>1, <1>2, <1>3 DEF Reached, LooksAt, First, Windowed, Begun
  <1>5. Asked /\ Unprepared /\ Reflected /\ Progress
    BY <1>1, <1>2 DEF Asked, Unprepared, Reflected, Progress, Has
  <1> QED BY <1>3, <1>4, <1>5 DEF CInv

LEMMA ClientKeeps ==
  ASSUME IInv, Typed, CInv, ClientActs
  PROVE  CInv'
  <1>1. EndClosed
    BY DEF ClientActs
  <1>2. CASE PrepareStart \/ PrepareRead
    BY <1>1, <1>2, BackgroundKeeps
  <1>3. CASE TakePreparation
    BY <1>1, <1>3, TakePreparationKeeps
  <1>4. CASE Send
    BY <1>1, <1>4, SendKeeps
  <1>5. CASE SkipDisconnect \/ TakeBuffered \/ Receive \/ ReadEnd \/ WaitEnds \/ Outcome
             \/ LoadWindow
    BY <1>1, <1>5, StepKeeps
  <1>6. CASE Release
    BY <1>1, <1>6, ReleaseKeeps
  <1>7. CASE Complete \/ Discard \/ Close
    BY <1>1, <1>7, EndingsKeep
  <1>8. CASE Unreadable
    BY <1>1, <1>8, UnreadableKeeps
  <1>9. CASE Return
    BY <1>1, <1>9, ReturnKeeps
  <1> QED BY <1>2, <1>3, <1>4, <1>5, <1>6, <1>7, <1>8, <1>9 DEF ClientActs, Proceed

LEMMA StutterKeeps ==
  ASSUME CInv, UNCHANGED system
  PROVE  CInv'
  <1>1. UNCHANGED <<adapters, exec, applied, op, view, targets>>
    BY DEF system
  <1>2. Shaped(op, Goal(op, applied))' /\ Reached(op, exec, view.phase)'
        /\ Windowed(op, exec, view)'
    BY <1>1 DEF CInv
  <1>3. Has' = Has /\ Current' = Current
    BY <1>1 DEF Has, Current
  <1>4. \A a : Heard(a)' = Heard(a)
    BY <1>1 DEF Heard
  <1>5. Asked'
    <2>1. \A a \in DOMAIN adapters : adapters[a].open => InSequence(a)'
      BY <1>1, <1>4 DEF CInv, Asked, InSequence
    <2>2. ASSUME Has, NEW i \in DOMAIN adapters[exec.adapter].requests
          PROVE  LET req == adapters[exec.adapter].requests[i] IN
                 /\ Pending(req)'
                 /\ \A m \in exec.inbox : m.to # req.seq
      BY <1>1, <1>3, <2>2 DEF CInv, Asked, Pending
    <2> QED BY <1>1, <1>3, <2>1, <2>2 DEF Asked, Pending
  <1>6. Unprepared'
    BY <1>1 DEF CInv, Unprepared
  <1>7. Reflected'
    BY <1>1, <1>3, <1>4 DEF CInv, Reflected
  <1>8. Progress'
    BY <1>1, <1>3 DEF CInv, Progress
  <1> QED BY <1>2, <1>5, <1>6, <1>7, <1>8 DEF CInv

LEMMA NextKeeps ==
  ASSUME IInv, Typed, CInv, [Next]_system
  PROVE  CInv'
  <1>1. CASE UserCalls
    BY <1>1, UserKeeps
  <1>2. CASE ClientActs
    BY <1>2, ClientKeeps
  <1>3. CASE TimeActs
    <2>1. EndClosed
      BY <1>3 DEF TimeActs
    <2>2. CASE TimesOut
      BY <2>1, <2>2, StepKeeps
    <2>3. CASE GiveUpPreparation
      BY <2>1, <2>3, EndingsKeep
    <2>4. CASE SpawnFails
      BY <2>1, <2>4, BackgroundKeeps
    <2> QED BY <1>3, <2>2, <2>3, <2>4 DEF TimeActs
  <1>4. CASE AdaptersAct
    BY <1>4, ActsKeep
  <1>5. CASE UNCHANGED system
    BY <1>5, StutterKeeps
  <1> QED BY <1>1, <1>2, <1>3, <1>4, <1>5 DEF Next

\* Every step of an operation leads to the breakpoints that were asked for, and the
\* windows of frames are those DebugSession counts on.
THEOREM BreakpointsAreFollowed == Spec => []CInv
  <1>1. SystemInit => CInv
    BY CInvAtFirst
  <1>2. IInv /\ Typed /\ CInv /\ [Next]_system => CInv'
    BY NextKeeps
  <1> QED BY <1>1, <1>2, Invariant, TypesHold, PTL DEF Spec

\* The frames DebugSession shows are those of the stop the backend is at, without a
\* gap (stack.mbt).
THEOREM ViewStaysCurrent == Spec => []ViewIsCurrent
  <1>1. CInv => ViewIsCurrent
    <2> SUFFICES ASSUME CInv, AtPrompt, view.phase = "Stopped", exec.windows # {}
                 PROVE  exec.windows = 0 .. view.windows - 1 /\ view.whole = exec.whole
      BY DEF ViewIsCurrent
    <2>1. Begun(op, "idle", <<>>, 0)
      BY IdleBegins DEF AtPrompt
    <2> QED BY <2>1 DEF CInv, Windowed, Begun, Seen
  <1> QED BY <1>1, BreakpointsAreFollowed, PTL

-----------------------------------------------------------------------------
(* What DebugBackend sees of the backend, and its steps in these terms.       *)

NoCallNow == [name |-> "none", want |-> {}]
CallNow ==
    [name |-> IF AtPrompt THEN "none" ELSE op.name,
     want |-> CASE op.name = "launch" -> applied
                [] op.name = "sync" -> op.want.on
                [] OTHER -> {}]
Ended == Has /\ exec.state = "Exited"
Installed == IF Has THEN targets[exec.adapter].tables ELSE {}
Reply == IF answer = "timed out" THEN "failed" ELSE answer

SeenSame == Has' = Has /\ Ended' = Ended /\ Installed' = Installed

LEMMA SeesNothing ==
  ASSUME UNCHANGED <<CallNow, Has, Ended, Installed, Reply>>
  PROVE  UNCHANGED Contract!contract
  BY DEF Contract!contract, CallNow, Ended, Installed, Reply

LEMMA SeesWork ==
  ASSUME CallNow # NoCallNow, CallNow' = CallNow, Reply' = Reply,
         Has' => Has \/ CallNow.name = "launch",
         \/ CallNow.name \in {"launch", "sync"} /\ Installed' \in SUBSET Points
         \/ Installed' = IF Has' THEN Installed ELSE {}
  PROVE  Contract!Next
  <1>1. Contract!Work
    BY DEF Contract!Work, Contract!Waiting, Contract!NoCall, CallNow, Ended, Installed, Reply,
           Has, NoCallNow
  <1> QED BY <1>1 DEF Contract!Next

LEMMA SeesCall ==
  ASSUME NEW name \in {"launch", "resume", "sync", "find", "locals", "stack", "quit"},
         NEW want \in SUBSET Points, CallNow = NoCallNow,
         name \notin {"launch", "quit", "stack"} => Has /\ ~Ended,
         CallNow' = [name |-> name, want |-> want], Reply' = "none", SeenSame
  PROVE  Contract!Next
  <1>1. Contract!Call(name, want)
    BY DEF Contract!Call, Contract!Waiting, Contract!NoCall, CallNow, Ended, Installed, Reply,
           NoCallNow, SeenSame
  <1> QED BY <1>1 DEF Contract!Next

LEMMA SeesRefuse ==
  ASSUME Has, Ended, CallNow' = NoCallNow, Reply' \in {"refused", "rejected"}, SeenSame
  PROVE  Contract!Next
  <1>1. Contract!Refuse
    BY DEF Contract!Refuse, Contract!NoCall, CallNow, Ended, Installed, Reply, NoCallNow, SeenSame
  <1> QED BY <1>1 DEF Contract!Next

LEMMA SeesStopped ==
  ASSUME CallNow # NoCallNow, CallNow.name \in {"launch", "resume"}, Has, ~Ended,
         CallNow.name = "launch" => Installed = CallNow.want,
         CallNow' = NoCallNow, Reply' = "stopped", SeenSame
  PROVE  Contract!Next
  <1>1. Contract!AnswerStopped
    BY DEF Contract!AnswerStopped, Contract!Answer, Contract!Waiting, Contract!NoCall, CallNow,
           Ended, Installed, Reply, NoCallNow, SeenSame
  <1> QED BY <1>1 DEF Contract!Next

LEMMA SeesDone ==
  ASSUME CallNow # NoCallNow, CallNow.name \notin {"launch", "resume", "quit"}, Has,
         CallNow.name = "sync" => Installed = CallNow.want,
         CallNow.name # "sync" => ~Ended,
         CallNow' = NoCallNow, Reply' = "done", SeenSame
  PROVE  Contract!Next
  <1>1. Contract!AnswerDone
    BY DEF Contract!AnswerDone, Contract!Answer, Contract!Waiting, Contract!NoCall, CallNow,
           Ended, Installed, Reply, NoCallNow, SeenSame
  <1> QED BY <1>1 DEF Contract!Next

LEMMA SeesUnreadable ==
  ASSUME CallNow # NoCallNow, CallNow.name = "find", Has, ~Ended,
         CallNow' = NoCallNow, Reply' = "unreadable", SeenSame
  PROVE  Contract!Next
  <1>1. Contract!AnswerUnreadable
    BY DEF Contract!AnswerUnreadable, Contract!Answer, Contract!Waiting, Contract!NoCall,
           CallNow, Ended, Installed, Reply, NoCallNow, SeenSame
  <1> QED BY <1>1 DEF Contract!Next

LEMMA SeesEnd ==
  ASSUME CallNow # NoCallNow, ~Has', CallNow' = NoCallNow,
         Reply' \in {"exited", "failed", "closed"}
  PROVE  Contract!Next
  <1>1. \A is : Reply' = is => Contract!Answer(is)
    BY DEF Contract!Answer, Contract!Waiting, Contract!NoCall, CallNow, Reply, NoCallNow
  <1>2. PICK is \in {"exited", "failed", "closed"} : Contract!Answer(is)
    BY <1>1
  <1>3. (~Has' /\ Ended' = FALSE /\ Installed' = {})
    BY DEF Ended, Installed
  <1>4. Contract!AnswerEnded
    BY <1>2, <1>3 DEF Contract!AnswerEnded, Ended, Installed
  <1> QED BY <1>4 DEF Contract!Next

\* The call in progress.
LEMMA CallIs ==
  ASSUME Typed, CInv
  PROVE  /\ AtPrompt => CallNow = NoCallNow
         /\ ~AtPrompt => /\ CallNow # NoCallNow /\ CallNow.name = op.name /\ op.name # "idle"
                         /\ op.name = "launch" => CallNow.want = applied
                         /\ op.name = "sync" => CallNow.want = op.want.on
         /\ op.todo # <<>> => ~AtPrompt
         /\ op.name # "idle" => ~AtPrompt
  <1>1. Idle.name = "idle" /\ Idle.todo = <<>>
    BY IdleBegins DEF Begun
  <1>2. ~AtPrompt => op.name # "idle"
    BY DEF CInv, Shaped, AtPrompt
  <1>3. op.name # "none"
    BY DEF Typed, Operates, Operations
  <1>4. AtPrompt => CallNow = NoCallNow
    BY <1>1 DEF AtPrompt, CallNow, NoCallNow
  <1>5. /\ ~AtPrompt => CallNow.name = op.name
        /\ op.name = "launch" => CallNow.want = applied
        /\ op.name = "sync" => CallNow.want = op.want.on
    BY DEF CallNow
  <1>6. NoCallNow.name = "none"
    BY DEF NoCallNow
  <1> QED BY <1>1, <1>2, <1>3, <1>4, <1>5, <1>6 DEF AtPrompt

\* The same call goes on.
LEMMA CallGoesOn ==
  ASSUME ~AtPrompt, op.name # "idle", op'.name = op.name, op'.want = op.want, UNCHANGED applied
  PROVE  CallNow' = CallNow
  <1>1. ~AtPrompt'
    BY IdleBegins DEF AtPrompt, Begun
  <1> QED BY <1>1 DEF CallNow

LEMMA CallEnds ==
  ASSUME op' = Idle
  PROVE  CallNow' = NoCallNow
  BY IdleBegins DEF AtPrompt, CallNow, NoCallNow, Begun

-----------------------------------------------------------------------------
(* Each action is a step of DebugBackend, or none.                            *)

LEMMA BeginsCall ==
  ASSUME Typed, CInv, AtPrompt, UNCHANGED <<exec, targets>>, answer' = "none",
         NEW name \in {"launch", "resume", "sync", "find", "locals", "stack", "quit"},
         NEW want \in SUBSET Points,
         op'.name = name, name \notin {"launch", "quit", "stack"} => Has /\ ~Ended,
         name = "launch" => applied' = want, name = "sync" => op'.want.on = want,
         name \notin {"launch", "sync"} => want = {}
  PROVE  Contract!Next
  <1>1. CallNow = NoCallNow
    BY CallIs
  <1>2. ~AtPrompt'
    BY IdleBegins DEF AtPrompt, Begun
  <1>3. CallNow' = [name |-> name, want |-> want]
    BY <1>2 DEF CallNow
  <1>4. Reply' = "none" /\ SeenSame
    BY DEF Reply, SeenSame, Has, Ended, Installed
  <1> QED BY <1>1, <1>3, <1>4, SeesCall

LEMMA BeginsLook ==
  ASSUME Typed, CInv, AtPrompt, UNCHANGED <<exec, targets>>, answer' = "none",
         op'.name \in {"resume", "find", "locals", "stack", "quit"},
         op'.name \notin {"quit", "stack"} => Has /\ ~Ended
  PROVE  Contract!Next
  <1> DEFINE name == op'.name
  <1>1. CallNow = NoCallNow
    BY CallIs
  <1>2. ~AtPrompt'
    BY IdleBegins DEF AtPrompt, Begun
  <1>3. CallNow' = [name |-> name, want |-> {}]
    BY <1>2 DEF CallNow
  <1>4. Reply' = "none" /\ SeenSame
    BY DEF Reply, SeenSame, Has, Ended, Installed
  <1>5. {} \in SUBSET Points
    OBVIOUS
  <1> HIDE DEF name
  <1>6. /\ name \in {"launch", "resume", "sync", "find", "locals", "stack", "quit"}
        /\ name \notin {"launch", "quit", "stack"} => Has /\ ~Ended
    BY DEF name
  <1> QED BY <1>1, <1>3, <1>4, <1>5, <1>6, SeesCall

LEMMA RefusesCall ==
  ASSUME Typed, CInv, AtPrompt, view.phase = "Stopped", ~InStop \/ exec.state # "Stopped",
         UNCHANGED <<exec, targets, op>>, answer' \in {"refused", "rejected"}
  PROVE  Contract!Next
  <1>1. Has /\ InReach(exec)
    BY PromptIs
  <1>2. Ended
    BY <1>1 DEF InReach, InStop, Ended, Has
  <1>3. CallNow' = NoCallNow
    BY CallEnds DEF AtPrompt
  <1>4. Reply' \in {"refused", "rejected"} /\ SeenSame
    BY DEF Reply, SeenSame, Has, Ended, Installed
  <1> QED BY <1>1, <1>2, <1>3, <1>4, SeesRefuse

LEMMA UserIsAllowed ==
  ASSUME Typed, CInv, UserCalls
  PROVE  Contract!Next
  <1>1. UNCHANGED targets
    BY DEF UserCalls
  <1>2. ASSUME NEW want \in Wants, Launch(want)  PROVE Contract!Next
    <2>1. want.on \in SUBSET Points
      BY DEF Wants, Configurations
    <2>2. /\ AtPrompt /\ UNCHANGED exec /\ answer' = "none" /\ op'.name = "launch"
          /\ applied' = want.on
      BY <1>2, DoingBegins DEF Launch, Begins, Begun
    <2> QED BY <1>1, <2>1, <2>2, BeginsCall
  <1>3. ASSUME NEW want \in Wants, Synchronize(want)  PROVE Contract!Next
    <2>1. want.on \in SUBSET Points
      BY DEF Wants, Configurations
    <2>2. AtPrompt /\ UNCHANGED exec /\ view.phase = "Stopped"
      BY <1>3 DEF Synchronize
    <2>3. CASE Has /\ exec.state = "Stopped"
      <3> DEFINE todo == SynchronizationSteps(want)
      <3>1. answer' = "none" /\ op' = [Doing("sync", todo) EXCEPT !.want = want]
        BY <1>3, <2>3 DEF Synchronize, Begins
      <3> HIDE DEF todo
      <3>2. op'.name = "sync" /\ op'.want.on = want.on
        BY <3>1, DoingBegins DEF Begun
      <3> QED BY <1>1, <2>1, <2>2, <2>3, <3>1, <3>2, BeginsCall DEF Ended
    <2>4. CASE ~(Has /\ exec.state = "Stopped")
      <3>1. answer' = "rejected" /\ op' = op
        BY <1>3, <2>4 DEF Synchronize
      <3> QED BY <1>1, <2>2, <2>4, <3>1, RefusesCall DEF InStop
    <2> QED BY <2>3, <2>4
  <1>4. ASSUME ~InStop, Refuse, AtPrompt, view.phase = "Stopped"  PROVE Contract!Next
    BY <1>1, <1>4, RefusesCall DEF Refuse
  <1>5. ASSUME NEW command \in {"continue", "next"}, Resume(command)  PROVE Contract!Next
    <2>1. CASE InStop
      <3> DEFINE todo == <<Step(command), Step("stable"), Step("outcome")>>
                 b == (command = "continue")
      <3>1. /\ AtPrompt /\ UNCHANGED exec /\ answer' = "none"
            /\ op' = [Doing("resume", todo) EXCEPT !.filter = b]
        BY <1>5, <2>1 DEF Resume, InvokeInStop, Begins
      <3> HIDE DEF todo, b
      <3>2. op'.name = "resume"
        BY <3>1, DoingBegins DEF Begun
      <3> QED BY <1>1, <2>1, <3>1, <3>2, BeginsLook DEF InStop, Ended
    <2>2. CASE ~InStop
      BY <1>4, <1>5, <2>2 DEF Resume, InvokeInStop
    <2> QED BY <2>1, <2>2
  <1>6. ASSUME NEW name \in {"find", "locals"}, Inspect(name)  PROVE Contract!Next
    <2>1. CASE InStop
      <3>1. /\ AtPrompt /\ UNCHANGED exec /\ answer' = "none" /\ op'.name = name
        BY <1>6, <2>1, DoingBegins DEF Inspect, InvokeInStop, Begins, Begun
      <3> QED BY <1>1, <2>1, <3>1, BeginsLook DEF InStop, Ended
    <2>2. CASE ~InStop
      BY <1>4, <1>6, <2>2 DEF Inspect, InvokeInStop
    <2> QED BY <2>1, <2>2
  <1>7. CASE Extend
    <2>1. /\ AtPrompt /\ UNCHANGED exec /\ answer' = "none" /\ op'.name = "stack"
      BY <1>7, DoingBegins DEF Extend, Begins, Begun
    <2> QED BY <1>1, <2>1, BeginsLook
  <1>8. CASE Quit
    <2>1. /\ AtPrompt /\ UNCHANGED exec /\ answer' = "none" /\ op'.name = "quit"
      BY <1>8, DoingBegins DEF Quit, Begins, Begun
    <2> QED BY <1>1, <2>1, BeginsLook
  <1> QED BY <1>2, <1>3, <1>5, <1>6, <1>7, <1>8 DEF UserCalls

\* A call that goes on with its execution.
LEMMA GoesOnIsWork ==
  ASSUME Typed, CInv, EndClosed, ~AtPrompt, op'.name = op.name, op'.want = op.want,
         UNCHANGED <<applied, answer>>, exec'.adapter = exec.adapter,
         Has => /\ exec.adapter \in DOMAIN adapters'
                /\ adapters'[exec.adapter].open
  PROVE  Contract!Next
  <1>1. CallNow' = CallNow /\ CallNow # NoCallNow
    BY CallIs, CallGoesOn
  <1>2. Reply' = Reply /\ Has' = Has
    BY DEF Reply, Has
  <1>3. Installed' = IF Has' THEN Installed ELSE {}
    BY <1>2 DEF Installed, EndClosed, Typed, ExecutionTyped
  <1> QED BY <1>1, <1>2, <1>3, SeesWork

LEMMA TurnNames ==
  ASSUME Typed, Turn
  PROVE  op'.name = op.name /\ op'.want = op.want /\ exec'.adapter = exec.adapter
  <1>1. op \in Operations
    BY DEF Typed, Operates
  <1>2. GivesUp => op'.name = op.name /\ op'.want = op.want
    BY <1>1 DEF GivesUp, Follow, Operations
  <1>3. op'.name = op.name /\ op'.want = op.want
    BY <1>2 DEF Turn, Stays, Sends, Confirms, Advances, Detours, IsUnreadable, Reloads,
                Goes, SameCall
  <1>4. exec'.adapter = exec.adapter
    BY DEF Turn, GivesUp, Stays, Sends, Confirms, Advances, Detours, IsUnreadable, Reloads,
           Drifts, Twin
  <1> QED BY <1>3, <1>4

LEMMA StepIsWork ==
  ASSUME IInv, Typed, CInv, EndClosed,
         Send \/ SkipDisconnect \/ TimesOut \/ TakeBuffered \/ Receive \/ ReadEnd \/ WaitEnds
         \/ Outcome \/ LoadWindow
  PROVE  Contract!Next
  <1>1. Has
    BY NeedsExecution
    DEF IInv, Send, SkipDisconnect, NothingToEnd, TimesOut, TakeBuffered, Receive, ReadEnd,
        WaitEnds, Outcome, LoadWindow, Awaited, Resumptions
  <1>2. Typed'
    BY StepTyped, SendTyped
  <1>3. Turn
    BY <1>1, DisconnectTurns, TakeBufferedTurns, ReceiveTurns, WaitEndsTurns, OutcomeTurns,
       LoadWindowTurns, SendTurns
  <1>4. op'.name = op.name /\ op'.want = op.want /\ exec'.adapter = exec.adapter
    BY <1>3, TurnNames
  <1>5. op.todo # <<>>
    <2>1. Waiting => op.todo # <<>>
      BY ExecIsAlike
    <2> QED BY <2>1 DEF Send, SkipDisconnect, NothingToEnd, TimesOut, TakeBuffered, Receive,
                        ReadEnd, WaitEnds, Outcome, LoadWindow, At
  <1>6. UNCHANGED <<applied, answer>>
    BY DEF Send, SkipDisconnect, TimesOut, TakeBuffered, Receive, ReadEnd, WaitEnds, Outcome,
           LoadWindow
  <1>7. exec.adapter \in DOMAIN adapters' /\ adapters'[exec.adapter].open
    BY <1>1, <1>2, <1>4 DEF Typed, ExecutionTyped, Has
  <1> QED BY <1>3, <1>4, <1>5, <1>6, <1>7, CallIs, GoesOnIsWork

LEMMA BackgroundIsUnseen ==
  ASSUME IInv, PrepareStart \/ PrepareRead \/ SpawnFails
  PROVE  UNCHANGED Contract!contract
  <1>1. UNCHANGED <<exec, applied, op, answer>>
    BY DEF PrepareStart, PrepareRead, SpawnFails
  <1>2. ~Has
    BY DEF IInv, OneAtATime, NoPreparation, Spawned, PrepareStart, PrepareRead, SpawnFails
  <1>3. Has' = Has /\ Ended' = Ended /\ Installed' = Installed
    BY <1>1, <1>2 DEF Has, Ended, Installed
  <1>4. CallNow' = CallNow /\ Reply' = Reply
    BY <1>1 DEF CallNow, Reply, AtPrompt
  <1> QED BY <1>3, <1>4, SeesNothing

LEMMA EndIsAllowed ==
  ASSUME IInv, Typed, CInv, Complete \/ Discard \/ Close \/ GiveUpPreparation
  PROVE  Contract!Next
  <1>1. ~AtPrompt
    BY CallIs DEF Complete, Discard, Close, GiveUpPreparation, At
  <1>2. op' = Idle
    BY DEF Complete, Discard, Close, GiveUpPreparation, Answers
  <1>3. NoExecution.adapter = 0
    BY DEF NoExecution, Fresh
  <1>4. exec'.adapter = 0
    BY <1>3 DEF Complete, Discard, Close, GiveUpPreparation, LetGo, Has
  <1>5. Reply' \in {"exited", "failed", "closed"}
    BY DEF Complete, Discard, Close, GiveUpPreparation, Answers, Reply
  <1>6. CallNow # NoCallNow /\ CallNow' = NoCallNow
    BY <1>1, <1>2, CallIs, CallEnds
  <1> QED BY <1>4, <1>5, <1>6, SeesEnd DEF Has

LEMMA ReleaseIsWork ==
  ASSUME IInv, Typed, CInv, Release
  PROVE  Contract!Next
  <1>1. NoExecution.adapter = 0
    BY DEF NoExecution, Fresh
  <1>2. /\ op.todo # <<>> /\ op \in Operations /\ op' = Follow(<<Step("prepare")>>)
        /\ UNCHANGED <<applied, answer>> /\ ~Has'
    BY <1>1 DEF Release, At, Typed, Operates, LetGo, Has
  <1>3. op'.name = op.name /\ op'.want = op.want
    BY <1>2, CallsGoOn DEF Goes, SameCall
  <1>4. CallNow # NoCallNow /\ CallNow' = CallNow
    BY <1>2, <1>3, CallIs, CallGoesOn
  <1>5. Reply' = Reply /\ Installed' = {}
    BY <1>2 DEF Reply, Installed
  <1> QED BY <1>2, <1>4, <1>5, SeesWork

LEMMA TakePreparationIsAllowed ==
  ASSUME IInv, Typed, CInv, EndClosed, TakePreparation
  PROVE  Contract!Next
  <1>1. /\ At("prepare") /\ op.todo # <<>> /\ op \in Operations /\ op.name = "launch"
        /\ UNCHANGED <<adapters, applied>>
    BY StepNames DEF TakePreparation, At, Typed, Operates
  <1>2. ~AtPrompt /\ CallNow # NoCallNow /\ CallNow.name = "launch" /\ op.name # "idle"
    BY <1>1, CallIs
  <1>3. CASE Has
    <2>1. op' = Idle /\ answer' = "refused" /\ UNCHANGED exec
      BY <1>3 DEF TakePreparation, Answers
    <2>2. Ended
      BY <1>1, <1>3 DEF CInv, Reached, First, At, Has, Ended
    <2>3. \A a \in DOMAIN adapters : adapters[a].open => targets'[a] = targets[a]
      BY <1>1 DEF EndClosed
    <2>4. SeenSame
      BY <1>3, <2>1, <2>3 DEF SeenSame, Has, Ended, Installed, Typed, ExecutionTyped
    <2>5. Reply' = "refused" /\ CallNow' = NoCallNow
      BY <2>1, CallEnds DEF Reply
    <2> QED BY <1>3, <2>2, <2>4, <2>5, SeesRefuse
  <1>4. CASE ~Has /\ prep.status = "failed"
    <2>1. op' = Idle /\ answer' = "failed" /\ UNCHANGED exec
      BY <1>4 DEF TakePreparation, Answers
    <2>2. Reply' = "failed" /\ CallNow' = NoCallNow /\ ~Has'
      BY <1>4, <2>1, CallEnds DEF Reply, Has
    <2> QED BY <1>2, <2>2, SeesEnd
  <1>5. CASE ~Has /\ prep.status = "ready"
    <2> DEFINE todo == LaunchSteps
    <2>1. op' = Follow(todo) /\ UNCHANGED answer /\ ~Has
      BY <1>5 DEF TakePreparation
    <2> HIDE DEF todo
    <2>2. op'.name = op.name /\ op'.want = op.want
      BY <1>1, <2>1, CallsGoOn DEF Goes, SameCall
    <2>3. CallNow' = CallNow
      BY <1>1, <1>2, <2>2, CallGoesOn
    <2>4. Installed' \in SUBSET Points
      <3>1. Typed'
        BY TakePreparationTyped
      <3>2. ~Has' \/ exec'.adapter \in DOMAIN targets'
        BY <3>1 DEF Typed, AdaptersTyped, ExecutionTyped
      <3>3. \A a \in DOMAIN targets' : targets'[a] \in Targets
        BY <3>1 DEF Typed, AdaptersTyped
      <3> QED BY <3>2, <3>3 DEF Installed, Targets
    <2>5. Reply' = Reply
      BY <2>1 DEF Reply
    <2> QED BY <1>2, <2>3, <2>4, <2>5, SeesWork
  <1> QED BY <1>3, <1>4, <1>5 DEF TakePreparation

LEMMA UnreadableIsAllowed ==
  ASSUME IInv, Typed, CInv, EndClosed, Unreadable
  PROVE  Contract!Next
  <1>1. /\ At("unreadable") /\ op' = Idle /\ answer' = "unreadable"
        /\ UNCHANGED <<adapters, exec>>
    BY DEF Unreadable, Answers
  <1>2. /\ Has /\ op.todo # <<>> /\ op.name = "find"
    BY <1>1, NeedsExecution, StepNames DEF IInv, At, Typed, Operates
  <1>3. exec.state = "Stopped"
    BY <1>1 DEF CInv, Reached, First, At
  <1>4. CallNow # NoCallNow /\ CallNow.name = "find" /\ CallNow' = NoCallNow
    BY <1>1, <1>2, CallIs, CallEnds
  <1>5. \A a \in DOMAIN adapters : adapters[a].open => targets'[a] = targets[a]
    BY <1>1 DEF EndClosed
  <1>6. SeenSame /\ ~Ended /\ Reply' = "unreadable"
    BY <1>1, <1>2, <1>3, <1>5 DEF SeenSame, Has, Ended, Installed, Typed, ExecutionTyped, Reply
  <1> QED BY <1>2, <1>4, <1>6, SeesUnreadable

\* What is installed is what the call asked for.
LEMMA InstalledIsWanted ==
  ASSUME Typed, CInv, Has, op.todo = <<>>, ~op.failing, op.name = "sync" \/ ~Over(exec)
  PROVE  Installed = Goal(op, applied)
  <1> DEFINE tables == targets[exec.adapter].tables
             goal == Goal(op, applied)
  <1>1. \A p \in Points : p \in tables <=> p \in goal
    BY AtRest DEF SettledIn
  <1>2. tables \subseteq Points
    <2>1. exec.adapter \in DOMAIN targets
      BY DEF Typed, AdaptersTyped, ExecutionTyped
    <2>2. targets[exec.adapter] \in Targets
      BY <2>1 DEF Typed, AdaptersTyped
    <2> QED BY <2>2 DEF Targets
  <1>3. goal \subseteq Points
    BY DEF Goal, Typed, Operates, Operations, Configurations
  <1>4. tables = goal
    BY <1>1, <1>2, <1>3
  <1> QED BY <1>4 DEF Installed

LEMMA ReturnIsAllowed ==
  ASSUME IInv, Typed, CInv, EndClosed, Return
  PROVE  Contract!Next
  <1>1. /\ Has /\ op.todo = <<>> /\ op.name # "idle" /\ op \in Operations /\ UNCHANGED adapters
    BY NeedsExecution DEF Return, IInv, Typed, Operates
  <1>2. ~op.failing /\ op.name # "quit"
    BY <1>1 DEF CInv, Shaped, Closes
  <1>3. /\ ~AtPrompt /\ CallNow # NoCallNow /\ CallNow.name = op.name
        /\ op.name = "launch" => CallNow.want = applied
        /\ op.name = "sync" => CallNow.want = op.want.on
    BY <1>1, CallIs
  <1>4. exec'.adapter = exec.adapter /\ exec'.state = exec.state
    <2>1. exec \in Executions
      BY DEF Typed, ExecutionTyped
    <2>2. exec' = exec \/ \E outcomes : exec' = [exec EXCEPT !.outcomes = outcomes]
      BY DEF Return
    <2> QED BY <2>1, <2>2 DEF Executions
  <1>5. \A a \in DOMAIN adapters : adapters[a].open => targets'[a] = targets[a]
    BY <1>1 DEF EndClosed
  <1>6. SeenSame
    BY <1>1, <1>4, <1>5 DEF SeenSame, Has, Ended, Installed, Typed, ExecutionTyped
  <1>7. CASE op.name \in {"launch", "resume"} /\ ~op.settling
    <2> DEFINE todo == <<Step("window")>>
    <2>1. op' = [Follow(todo) EXCEPT !.settling = TRUE] /\ UNCHANGED <<answer, applied>>
      BY <1>7 DEF Return
    <2> HIDE DEF todo
    <2>2. op'.name = op.name /\ op'.want = op.want
      BY <1>1, <2>1 DEF Follow, Operations
    <2>3. exec.adapter \in DOMAIN adapters' /\ adapters'[exec.adapter].open
      BY <1>1 DEF Typed, ExecutionTyped
    <2> QED BY <1>3, <1>4, <2>1, <2>2, <2>3, GoesOnIsWork
  <1>8. CASE ~(op.name \in {"launch", "resume"} /\ ~op.settling)
    <2>1. LooksAt(op)
      <3>1. op.settling => op.name \in {"launch", "resume"}
        BY DEF CInv, Shaped
      <3> QED BY <1>1, <1>2, <1>8, <3>1 DEF LooksAt, First, Operations
    <2>2. op.name # "sync" => exec.state = "Stopped"
      BY <1>1, <2>1 DEF CInv, Reached
    <2>3. Installed = Goal(op, applied)
      BY <1>1, <1>2, <2>2, InstalledIsWanted DEF Over
    <2>4. op.name # "sync" => ~Ended
      BY <2>2 DEF Ended
    <2>5. CASE op.name \in {"launch", "resume"}
      <3>1. op' = Idle /\ answer' = "stopped"
        BY <1>8, <2>5 DEF Return, Answers
      <3>2. CallNow' = NoCallNow /\ Reply' = "stopped"
        BY <3>1, CallEnds DEF Reply
      <3>3. op.name = "launch" => Installed = CallNow.want
        BY <1>3, <2>3 DEF Goal
      <3> QED BY <1>1, <1>3, <1>6, <2>4, <2>5, <3>2, <3>3, SeesStopped
    <2>6. CASE op.name \notin {"launch", "resume"}
      <3>1. op' = Idle /\ answer' = "done"
        BY Zenon, <2>6 DEF Return, Answers
      <3>2. CallNow' = NoCallNow /\ Reply' = "done"
        BY <3>1, CallEnds DEF Reply
      <3>3. op.name = "sync" => Installed = CallNow.want
        BY <1>3, <2>3 DEF Goal
      <3> QED BY <1>1, <1>2, <1>3, <1>6, <2>4, <2>6, <3>2, <3>3, SeesDone
    <2> QED BY <2>5, <2>6
  <1> QED BY <1>7, <1>8

\* An adapter changes the breakpoints of a launch or a synchronization only.
LEMMA ActsAreAllowed ==
  ASSUME IInv, Typed, CInv, AdaptersAct
  PROVE  [Contract!Next]_(Contract!contract)
  <1>1. PICK a \in DOMAIN adapters : AdapterActs(a)
    BY DEF AdaptersAct
  <1>2. UNCHANGED <<exec, applied, op, answer>>
    BY DEF AdaptersAct
  <1>3. Serves(a) \/ Speaks(a)
    BY <1>1, ActsServeOrSpeak DEF Typed
  <1>4. adapters[a].open /\ AdaptersTyped /\ OneActs(a)
    BY <1>1, <1>3 DEF AdapterActs, Typed, Serves, Speaks
  <1>5. \A b \in DOMAIN adapters : b # a => targets'[b] = targets[b]
    BY <1>4, OneOfThem
  <1>6. Has' = Has /\ Ended' = Ended /\ Reply' = Reply /\ CallNow' = CallNow
    BY <1>2 DEF Has, Ended, Reply, CallNow, AtPrompt
  <1>7. Has => exec.adapter \in DOMAIN adapters
    BY DEF Typed, ExecutionTyped
  <1>8. CASE Installed' = Installed
    BY <1>6, <1>8, SeesNothing
  <1>9. CASE Installed' # Installed
    <2> DEFINE req == Head(adapters[a].requests)
    <2>1. Has /\ a = exec.adapter /\ targets'[a].tables # targets[a].tables
      BY <1>2, <1>5, <1>6, <1>7, <1>9 DEF Installed
    <2>2. /\ Serves(a) /\ adapters[a].requests # <<>>
          /\ targets'[a].tables = Tables(targets[a].tables, req)
      BY <1>3, <2>1 DEF Speaks, Serves
    <2>3. req.command \in Changes
      BY <2>1, <2>2 DEF Tables, Changes
    <2>4. 1 \in DOMAIN adapters[a].requests /\ req = adapters[a].requests[1]
      BY <1>4, <2>2, FirstRequest DEF CInv, Asked
    <2>5. op.name \in {"launch", "sync"}
      BY <2>1, <2>3, <2>4 DEF CInv, Asked, Pending
    <2>6. CallNow # NoCallNow /\ CallNow.name \in {"launch", "sync"}
      BY <2>5, CallIs
    <2>7. Installed' \in SUBSET Points
      BY <1>2, <1>4, <2>1 DEF Installed, OneActs, Targets, Has
    <2> QED BY <1>6, <2>1, <2>6, <2>7, SeesWork
  <1> QED BY <1>8, <1>9

LEMMA StepIsAllowed ==
  ASSUME IInv, Typed, CInv, [Next]_system
  PROVE  [Contract!Next]_(Contract!contract)
  <1>1. CASE UserCalls
    BY <1>1, UserIsAllowed
  <1>2. ASSUME EndClosed, PrepareStart \/ PrepareRead \/ SpawnFails
        PROVE  [Contract!Next]_(Contract!contract)
    BY <1>2, BackgroundIsUnseen
  <1>3. ASSUME EndClosed, TakePreparation \/ Unreadable \/ Return  PROVE Contract!Next
    BY <1>3, TakePreparationIsAllowed, UnreadableIsAllowed, ReturnIsAllowed
  <1>4. ASSUME EndClosed,
               Send \/ SkipDisconnect \/ TimesOut \/ TakeBuffered \/ Receive \/ ReadEnd
               \/ WaitEnds \/ Outcome \/ LoadWindow
        PROVE  Contract!Next
    BY <1>4, StepIsWork
  <1>5. ASSUME Complete \/ Discard \/ Close \/ GiveUpPreparation \/ Release
        PROVE  Contract!Next
    BY <1>5, EndIsAllowed, ReleaseIsWork
  <1>6. CASE ClientActs
    BY <1>2, <1>3, <1>4, <1>5, <1>6 DEF ClientActs, Proceed
  <1>7. CASE TimeActs
    BY <1>2, <1>4, <1>5, <1>7 DEF TimeActs
  <1>8. CASE AdaptersAct
    BY <1>8, ActsAreAllowed
  <1>9. CASE UNCHANGED system
    <2>1. UNCHANGED <<CallNow, Has, Ended, Installed, Reply>>
      BY <1>9 DEF system, CallNow, Has, Ended, Installed, Reply, AtPrompt
    <2> QED BY <2>1, SeesNothing
  <1> QED BY <1>1, <1>6, <1>7, <1>8, <1>9 DEF Next

\* The lldb-dap backend does what DebugSession counts on, whatever the adapters do
\* (src/debugger/backend.mbt): it implements DebugBackend.
THEOREM ContractIsKept == Spec => KeepsContract
  <1>1. SystemInit => Contract!Init
    BY DEF SystemInit, Init, Contract!Init, Contract!NoCall, NoExecution, Fresh, Has, AtPrompt,
           Idle, Doing
  <1>2. IInv /\ Typed /\ CInv /\ [Next]_system => [Contract!Next]_(Contract!contract)
    BY StepIsAllowed
  <1> QED BY <1>1, <1>2, BreakpointsAreFollowed, Invariant, TypesHold, PTL
          DEF Spec, KeepsContract, Contract!Spec

=============================================================================
