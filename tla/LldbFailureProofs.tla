-------------------------- MODULE LldbFailureProofs --------------------------
(***************************************************************************)
(* Without a fault no operation of the lldb-dap backend fails, is refused or *)
(* rejected, or finds an answer missing: FailsForCause of LldbSystem, for any *)
(* breakpoints and any number of operations and adapters.                    *)
(*                                                                         *)
(* The argument follows one adapter.  One request at a time is on its way,    *)
(* and what the backend takes the program to be is what it is, or what the    *)
(* reports still unread make of it; so no report surprises the backend and no *)
(* response is a failure.  The steps left follow each other as those of a     *)
(* launch, a resume or a look at a stop do, so each finds the execution in a   *)
(* state it is allowed in, and the stop an operation ends with has a frame.   *)
(***************************************************************************)
EXTENDS LldbContractProofs

-----------------------------------------------------------------------------
(* What an execution without faults keeps.                                   *)

\* The requests that responses answer, each once, and none as a failure.
Tos(s) == {s[i].to : i \in {j \in DOMAIN s : IsResponse(s[j])}}
Once(s) ==
    \A i, j \in DOMAIN s :
        i < j /\ IsResponse(s[i]) /\ IsResponse(s[j]) => s[i].to # s[j].to
Fine(s) == Once(s) /\ \A i \in DOMAIN s : s[i].ok

\* Every response on its way, owed or in the inbox is the only one to its request.
Answerable(messages, owed, inbox) ==
    /\ Fine(messages) /\ Fine(owed)
    /\ Tos(messages) \cap Tos(owed) = {}
    /\ \A m \in inbox : m.ok /\ m.to \notin Tos(messages) \cup Tos(owed)

\* What messages tell of a program: nothing, one thing, or its end only.
Silent(s) == \A i \in DOMAIN s : IsResponse(s[i])
Single(s, name) ==
    \A i \in DOMAIN s : IsEvent(s[i]) =>
        s[i].name = name /\ \A j \in DOMAIN s : IsEvent(s[j]) => i = j
Ending(s) == \A i \in DOMAIN s : IsEvent(s[i]) => s[i].name \in Ends

\* The next step.
Ahead(o) == IF o.todo = <<>> THEN "done" ELSE Head(o.todo).command

\* One request at a time is on its way: the one that is awaited, or the launch.
Outstanding(requests, o, state) ==
    /\ Len(requests) <= 1
    /\ requests # <<>> =>
          \/ o.waits # NoRequest /\ Head(requests).seq = o.waits
          \/ /\ o.waits = NoRequest /\ Ahead(o) = "initialized" /\ state = "Preparing"
             /\ Head(requests).command = "launch"

\* Where the backend takes the program to be, where it is, and what of it is still
\* to be heard.
Known(state, requests, messages, program) ==
    CASE state = "Ready" -> requests = <<>> /\ messages = <<>> /\ program = "none"
      [] state = "Preparing" ->
            IF requests # <<>> THEN program = "none" /\ Silent(messages)
            ELSE program = "loaded" /\ Single(messages, "initialized")
      [] state = "Configuring" -> program = "loaded" /\ Silent(messages)
      [] state = "Running" ->
            IF requests # <<>>
            THEN /\ program \in {"loaded", "stopped"} /\ Silent(messages)
                 /\ Head(requests).command \in Resumptions => program = "stopped"
            ELSE \/ program = "running" /\ Silent(messages)
                 \/ program = "stopped" /\ Single(messages, "stopped")
                 \/ program = "gone" /\ Ending(messages)
      [] state = "Stopped" ->
            /\ program = "stopped" /\ Silent(messages)
            /\ requests # <<>> =>
                  Head(requests).command \notin Resumptions \cup {"configurationDone"}
      [] state = "Exited" -> program = "gone" /\ requests = <<>> /\ Ending(messages)
      [] OTHER -> FALSE

\* An adapter that is up until it is disconnected.
Connected(x, o, a, t) ==
    \/ Ahead(o) \in {"release", "close"}
    \/ /\ Answerable(a.messages, t.owed, x.inbox)
       /\ Silent(t.owed)
       /\ Outstanding(a.requests, o, x.state)
       /\ \/ IsUp(a) /\ Known(x.state, a.requests, a.messages, t.program)
          \/ /\ ~IsUp(a) /\ t.program = "gone" /\ Silent(a.messages)
             /\ Ahead(o) = "disconnect" /\ o.waits # NoRequest

\* What may follow a step.
Then(name, command) ==
    CASE command = "launch" -> {"initialized"}
      [] command \in {"initialized"} \cup Changes ->
            Changes \cup {IF name = "sync" THEN "done" ELSE "configurationDone"}
      [] command = "configurationDone" -> {"launched"}
      [] command \in Resumptions \cup {"launched"} -> {"stable"}
      [] command = "stable" -> {"outcome"}
      [] command = "threads" -> {"window"}
      [] command \in {"window", "stackTrace"} -> {"condition", "done"}
      [] command = "scopes" -> {"variables", "done"}
      [] command \in {"condition", "variables"} -> {"done"}
      [] command = "disconnect" -> {"release", "close"}
      [] command \in {"prepare", "outcome", "complete", "unreadable", "release", "close"} ->
            {"done"}
      [] OTHER -> {}

Chained(o) ==
    \A i \in DOMAIN o.todo :
        IF i = Len(o.todo) THEN "done" \in Then(o.name, o.todo[i].command)
        ELSE o.todo[i + 1].command \in Then(o.name, o.todo[i].command)

\* Where the backend takes the program to be before a step, or once it is sent.
Where(name, command, sent) ==
    CASE command = "launch" -> {"Ready"}
      [] command = "initialized" -> {"Preparing", "Configuring"}
      [] command \in Changes -> {IF name = "sync" THEN "Stopped" ELSE "Configuring"}
      [] command = "configurationDone" /\ ~sent -> {"Configuring"}
      [] command \in Resumptions /\ ~sent -> {"Stopped"}
      [] command \in Resumptions \cup {"configurationDone"} /\ sent ->
            {"Running", "Stopped", "Exited"}
      [] command \in {"launched", "stable"} -> {"Running", "Stopped", "Exited"}
      [] command = "outcome" -> {"Stopped", "Exited"}
      [] command \in {"complete", "release", "close"} -> {"Exited"}
      [] command \in {"threads", "window", "stackTrace", "condition", "scopes", "variables",
                      "unreadable", "disconnect", "done"} -> {"Stopped"}
      [] OTHER -> {}

\* An operation goes on from where the execution is.
Planned(o, x) ==
    /\ ~o.failing
    /\ Chained(o)
    /\ x.state \in Where(o.name, Ahead(o), o.waits # NoRequest)
    /\ Ahead(o) \in {"window", "stackTrace", "condition", "done"} => x.thread # NoThread
    /\ o.name \in {"find", "locals"} => ~o.stale

\* The windows of a stop are those whose frames are known.
Framed(o, x, v) ==
    /\ x.state = "Stopped" => x.windows = 0 .. x.frames - 1
    /\ x.state = "Stopped" /\ x.whole => x.frames >= 1
    /\ o.name \in {"launch", "resume"} /\ Ahead(o) \in {"condition", "done"} => x.frames >= 1
    /\ Ahead(o) = "stackTrace" => o.page = x.frames
    /\ v.phase = "Stopped" \/ o.name = "stack" => x.frames >= 1

\* An adapter that is prepared answers its first request and is then left alone.
Clear(p) ==
    LET a == adapters[p] t == targets[p] IN
    /\ IsUp(a) /\ t.program = "none" /\ t.owed = <<>>
    /\ \/ prep.status = "initializing" /\ Len(a.requests) = 1 /\ a.messages = <<>>
       \/ /\ prep.status = "initializing" /\ a.requests = <<>>
          /\ a.messages = <<Response(InitialRequest, TRUE)>>
       \/ prep.status = "ready" /\ a.requests = <<>> /\ a.messages = <<>>

\* All is well with the preparation, the execution and the last operation, and so it
\* stays without a fault.
Clean ==
    /\ prep.status # "failed"
    /\ prep.status \in {"initializing", "ready"} => Clear(prep.adapter)
    /\ Has => /\ Connected(exec, op, adapters[exec.adapter], targets[exec.adapter])
              /\ Planned(op, exec)
              /\ Framed(op, exec, view)
    /\ answer \notin {"failed", "timed out", "refused", "rejected"}

CleanInv == faults = 0 => Clean

-----------------------------------------------------------------------------
(* Sequences of messages.                                                    *)

LEMMA JoinedSequences ==
  ASSUME NEW T, NEW s \in Seq(T), NEW t \in Seq(T)
  PROVE  /\ s \o t \in Seq(T)
         /\ \A i \in DOMAIN s : i \in DOMAIN (s \o t) /\ (s \o t)[i] = s[i]
         /\ \A i \in DOMAIN t : Len(s) + i \in DOMAIN (s \o t) /\ (s \o t)[Len(s) + i] = t[i]
         /\ \A i \in DOMAIN (s \o t) :
               \/ i \in DOMAIN s
               \/ i > Len(s) /\ i - Len(s) \in DOMAIN t /\ (s \o t)[i] = t[i - Len(s)]
  <1> DEFINE u == s \o t
  <1>1. /\ u \in Seq(T) /\ Len(u) = Len(s) + Len(t)
        /\ \A i \in 1 .. Len(s) + Len(t) : u[i] = IF i <= Len(s) THEN s[i] ELSE t[i - Len(s)]
    BY ConcatProperties
  <1>2. /\ Len(s) \in Nat /\ Len(t) \in Nat /\ DOMAIN s = 1 .. Len(s) /\ DOMAIN t = 1 .. Len(t)
        /\ DOMAIN u = 1 .. Len(s) + Len(t)
    BY <1>1
  <1> HIDE DEF u
  <1>3. \A i \in DOMAIN s : i \in DOMAIN u /\ u[i] = s[i]
    BY <1>1, <1>2
  <1>4. \A i \in DOMAIN t : Len(s) + i \in DOMAIN u /\ u[Len(s) + i] = t[i]
    <2>1. ASSUME NEW i \in DOMAIN t PROVE Len(s) + i \in DOMAIN u /\ u[Len(s) + i] = t[i]
      <3>1. Len(s) + i \in 1 .. Len(s) + Len(t) /\ ~(Len(s) + i <= Len(s)) /\ Len(s) + i - Len(s) = i
        BY <1>2
      <3> QED BY <1>1, <1>2, <3>1
    <2> QED BY <2>1
  <1>5. \A i \in DOMAIN u :
               \/ i \in DOMAIN s
               \/ i > Len(s) /\ i - Len(s) \in DOMAIN t /\ u[i] = t[i - Len(s)]
    BY <1>1, <1>2
  <1> QED BY <1>1, <1>3, <1>4, <1>5 DEF u

LEMMA JoinedAnswers ==
  ASSUME NEW s \in Seq(Messages), NEW t \in Seq(Messages)
  PROVE  /\ s \o t \in Seq(Messages)
         /\ Tos(s \o t) = Tos(s) \cup Tos(t)
         /\ Fine(s) /\ Fine(t) /\ Tos(s) \cap Tos(t) = {} => Fine(s \o t)
  <1> DEFINE u == s \o t
             n == Len(s)
  <1>1. /\ u \in Seq(Messages) /\ n \in Nat
        /\ \A i \in DOMAIN s : i \in DOMAIN u /\ u[i] = s[i] /\ i \in 1 .. n
        /\ \A i \in DOMAIN t : n + i \in DOMAIN u /\ u[n + i] = t[i]
        /\ \A i \in DOMAIN u :
               \/ i \in DOMAIN s
               \/ i > n /\ i - n \in DOMAIN t /\ u[i] = t[i - n]
        /\ DOMAIN u \subseteq Nat
    <2> HIDE DEF Messages
    <2> QED BY JoinedSequences
  <1> HIDE DEF u, n
  <1>2. Tos(u) = Tos(s) \cup Tos(t)
    BY <1>1 DEF Tos
  <1>3. ASSUME Fine(s), Fine(t), Tos(s) \cap Tos(t) = {}
        PROVE  Fine(u)
    <2>1. \A i \in DOMAIN u : u[i].ok
      BY <1>1, <1>3 DEF Fine
    <2>2. ASSUME NEW i \in DOMAIN u, NEW j \in DOMAIN u, i < j, IsResponse(u[i]), IsResponse(u[j])
          PROVE  u[i].to # u[j].to
      <3>1. CASE i \in DOMAIN s /\ j \in DOMAIN s
        BY <1>1, <1>3, <2>2, <3>1 DEF Fine, Once
      <3>2. CASE i \in DOMAIN s /\ j \notin DOMAIN s
        <4>1. u[i].to \in Tos(s) /\ u[j].to \in Tos(t)
          BY <1>1, <2>2, <3>2 DEF Tos
        <4> QED BY <1>3, <4>1
      <3>3. CASE i \notin DOMAIN s /\ j \notin DOMAIN s
        <4>1. /\ i - n \in DOMAIN t /\ j - n \in DOMAIN t
              /\ u[i] = t[i - n] /\ u[j] = t[j - n] /\ i \in Nat /\ j \in Nat
          BY <1>1, <3>3
        <4>2. i - n < j - n
          BY <1>1, <2>2, <4>1
        <4> QED BY <1>3, <2>2, <4>1, <4>2 DEF Fine, Once
      <3>4. CASE i \notin DOMAIN s /\ j \in DOMAIN s
        <4>1. i > n /\ j <= n /\ i \in Nat /\ j \in Nat
          BY <1>1, <3>4
        <4> QED BY <1>1, <2>2, <4>1
      <3> QED BY <3>1, <3>2, <3>3, <3>4
    <2> QED BY <2>1, <2>2 DEF Fine, Once
  <1> QED BY <1>1, <1>2, <1>3 DEF u

LEMMA JoinedNews ==
  ASSUME NEW s \in Seq(Messages), NEW t \in Seq(Messages)
  PROVE  /\ Silent(s) /\ Silent(t) => Silent(s \o t)
         /\ Ending(s) /\ Ending(t) => Ending(s \o t)
         /\ \A name : Silent(s) /\ Single(t, name) => Single(s \o t, name)
         /\ \A name : Single(s, name) /\ Silent(t) => Single(s \o t, name)
         /\ Silent(s) => Ending(s) /\ \A name : Single(s, name)
  <1> DEFINE u == s \o t
             n == Len(s)
  <1>1. /\ n \in Nat
        /\ \A i \in DOMAIN s : i \in DOMAIN u /\ u[i] = s[i]
        /\ \A i \in DOMAIN u :
               \/ i \in DOMAIN s
               \/ i > n /\ i - n \in DOMAIN t /\ u[i] = t[i - n]
        /\ DOMAIN u \subseteq Nat
    <2> HIDE DEF Messages
    <2> QED BY JoinedSequences
  <1>2. \A m : ~(IsResponse(m) /\ IsEvent(m))
    BY DEF IsResponse, IsEvent
  <1> HIDE DEF u, n
  <1>3. Silent(s) /\ Silent(t) => Silent(u)
    BY <1>1 DEF Silent
  <1>4. Ending(s) /\ Ending(t) => Ending(u)
    BY <1>1 DEF Ending
  <1>5. ASSUME NEW name, Silent(s), Single(t, name) PROVE Single(u, name)
    <2>1. ASSUME NEW i \in DOMAIN u, IsEvent(u[i])
          PROVE  i > n /\ i - n \in DOMAIN t /\ u[i] = t[i - n]
      BY <1>1, <1>2, <1>5, <2>1 DEF Silent
    <2>2. ASSUME NEW i \in DOMAIN u, IsEvent(u[i]), NEW j \in DOMAIN u, IsEvent(u[j])
          PROVE  i = j
      <3>1. i - n = j - n
        BY <1>5, <2>1, <2>2 DEF Single
      <3> QED BY <1>1, <3>1
    <2> QED BY <1>5, <2>1, <2>2 DEF Single
  <1>6. ASSUME NEW name, Single(s, name), Silent(t) PROVE Single(u, name)
    <2>1. ASSUME NEW i \in DOMAIN u, IsEvent(u[i]) PROVE i \in DOMAIN s /\ u[i] = s[i]
      BY <1>1, <1>2, <1>6, <2>1 DEF Silent
    <2> QED BY <1>6, <2>1 DEF Single
  <1>7. Silent(s) => Ending(s) /\ \A name : Single(s, name)
    BY <1>2 DEF Silent, Ending, Single
  <1> QED BY <1>3, <1>4, <1>5, <1>6, <1>7 DEF u

\* One message, and none.
LEMMA OneMessage ==
  ASSUME NEW m \in Messages
  PROVE  /\ <<m>> \in Seq(Messages)
         /\ IsResponse(m) => Tos(<<m>>) = {m.to} /\ Silent(<<m>>)
         /\ IsEvent(m) => /\ Tos(<<m>>) = {} /\ Single(<<m>>, m.name)
                          /\ m.name \in Ends => Ending(<<m>>)
         /\ m.ok => Fine(<<m>>)
  <1>1. <<m>> \in Seq(Messages) /\ DOMAIN <<m>> = {1} /\ <<m>>[1] = m
    <2> HIDE DEF Messages
    <2> QED OBVIOUS
  <1> DEFINE s == <<m>>
  <1>2. s \in Seq(Messages) /\ DOMAIN s = {1} /\ s[1] = m
    BY <1>1
  <1> HIDE DEF s
  <1>3. \A x : ~(IsResponse(x) /\ IsEvent(x))
    BY DEF IsResponse, IsEvent
  <1>4. IsResponse(m) => Tos(s) = {m.to} /\ Silent(s)
    BY <1>2 DEF Tos, Silent
  <1>5. IsEvent(m) => Tos(s) = {} /\ Single(s, m.name)
    BY <1>2, <1>3 DEF Tos, Single
  <1>6. m.name \in Ends => Ending(s)
    BY <1>2 DEF Ending
  <1>7. m.ok => Fine(s)
    BY <1>2 DEF Fine, Once
  <1> QED BY <1>2, <1>4, <1>5, <1>6, <1>7 DEF s

LEMMA NoMessage ==
  /\ <<>> \in Seq(Messages) /\ Tos(<<>>) = {} /\ Fine(<<>>) /\ Silent(<<>>) /\ Ending(<<>>)
  /\ \A name : Single(<<>>, name)
  BY DEF Tos, Fine, Once, Silent, Ending, Single

\* What is left when a message was read.
LEMMA ReadMessages ==
  ASSUME NEW s \in Seq(Messages), s # <<>>, Fine(s)
  PROVE  /\ Tail(s) \in Seq(Messages) /\ Head(s) \in Messages /\ Head(s).ok
         /\ Fine(Tail(s)) /\ Tos(Tail(s)) \subseteq Tos(s)
         /\ IsResponse(Head(s)) => Head(s).to \in Tos(s) /\ Head(s).to \notin Tos(Tail(s))
         /\ Silent(s) => Silent(Tail(s)) /\ IsResponse(Head(s))
         /\ Ending(s) => Ending(Tail(s)) /\ (IsEvent(Head(s)) => Head(s).name \in Ends)
         /\ \A name : Single(s, name) =>
               /\ Single(Tail(s), name)
               /\ IsEvent(Head(s)) => Head(s).name = name /\ Silent(Tail(s))
         /\ IsResponse(Head(s)) \/ IsEvent(Head(s))
  <1> DEFINE t == Tail(s)
             h == Head(s)
  <1>1. /\ t \in Seq(Messages) /\ h \in Messages
        /\ 1 \in DOMAIN s /\ h = s[1]
        /\ \A i \in DOMAIN t : i + 1 \in DOMAIN s /\ t[i] = s[i + 1] /\ i \in Nat \ {0}
    <2> HIDE DEF Messages
    <2>1. DOMAIN Tail(s) \subseteq Nat \ {0}
      OBVIOUS
    <2> QED BY <2>1, TailSteps
  <1> HIDE DEF t, h
  <1>2. \A m : ~(IsResponse(m) /\ IsEvent(m))
    BY DEF IsResponse, IsEvent
  <1>3. \A m \in Messages : IsResponse(m) \/ IsEvent(m)
    BY DEF Messages, IsResponse, IsEvent
  <1>4. h.ok
    BY <1>1 DEF Fine
  <1>5. Fine(t)
    <2>1. \A i \in DOMAIN t : t[i].ok
      BY <1>1 DEF Fine
    <2>2. ASSUME NEW i \in DOMAIN t, NEW j \in DOMAIN t, i < j, IsResponse(t[i]), IsResponse(t[j])
          PROVE  t[i].to # t[j].to
      <3>1. i + 1 < j + 1
        BY <1>1, <2>2
      <3> QED BY <1>1, <2>2, <3>1 DEF Fine, Once
    <2> QED BY <2>1, <2>2 DEF Fine, Once
  <1>6. Tos(t) \subseteq Tos(s)
    BY <1>1 DEF Tos
  <1>7. ASSUME IsResponse(h) PROVE h.to \in Tos(s) /\ h.to \notin Tos(t)
    <2>1. h.to \in Tos(s)
      BY <1>1, <1>7 DEF Tos
    <2>2. ASSUME NEW i \in DOMAIN t, IsResponse(t[i]) PROVE t[i].to # h.to
      <3>1. 1 < i + 1
        BY <1>1, <2>2
      <3> QED BY <1>1, <1>7, <2>2, <3>1 DEF Fine, Once
    <2>3. h.to \notin Tos(t)
      BY <2>2 DEF Tos
    <2> QED BY <2>1, <2>3
  <1>8. Silent(s) => Silent(t) /\ IsResponse(h)
    BY <1>1 DEF Silent
  <1>9. Ending(s) => Ending(t) /\ (IsEvent(h) => h.name \in Ends)
    BY <1>1 DEF Ending
  <1>10. ASSUME NEW name, Single(s, name)
         PROVE  Single(t, name) /\ (IsEvent(h) => h.name = name /\ Silent(t))
    <2>1. Single(t, name)
      <3>1. ASSUME NEW i \in DOMAIN t, IsEvent(t[i]), NEW j \in DOMAIN t, IsEvent(t[j])
            PROVE  i = j
        <4>1. i + 1 = j + 1
          BY <1>1, <1>10, <3>1 DEF Single
        <4> QED BY <1>1, <4>1
      <3> QED BY <1>1, <1>10, <3>1 DEF Single
    <2>2. ASSUME IsEvent(h) PROVE Silent(t)
      <3>1. ASSUME NEW i \in DOMAIN t, IsEvent(t[i]) PROVE FALSE
        <4>1. i + 1 = 1
          BY <1>1, <1>10, <2>2, <3>1 DEF Single
        <4> QED BY <1>1, <4>1
      <3>2. \A i \in DOMAIN t : t[i] \in Messages
        BY <1>1
      <3> QED BY <1>3, <3>1, <3>2 DEF Silent
    <2> QED BY <1>1, <1>10, <2>1, <2>2 DEF Single
  <1> QED BY <1>1, <1>3, <1>4, <1>5, <1>6, <1>7, <1>8, <1>9, <1>10 DEF t, h

-----------------------------------------------------------------------------
(* What an adapter does as long as nothing goes wrong.                       *)

\* What is new of a process and its program.
Becomes(a, requests, messages, exit, owed, program) ==
    /\ adapters'[a].requests = requests /\ adapters'[a].messages = messages
    /\ adapters'[a].exit = exit
    /\ targets'[a].owed = owed /\ targets'[a].program = program

\* It serves a request with the response r.
Replied(a, r) ==
    LET p == adapters[a]
        t == targets[a]
        left == Tail(p.requests)
        command == Head(p.requests).command
        first == Event("initialized")
    IN
    \/ /\ command = "disconnect"
       /\ Becomes(a, left, p.messages \o <<r>>, 0, t.owed, "gone")
    \/ /\ command = "launch"
       /\ \/ Becomes(a, left, p.messages \o <<first>>, p.exit, <<r>>, "loaded")
          \/ Becomes(a, left, p.messages \o <<r, first>>, p.exit, t.owed, "loaded")
          \/ Becomes(a, left, p.messages \o <<first, r>>, p.exit, t.owed, "loaded")
    \/ /\ command = "configurationDone" \/ (command \in Resumptions /\ t.program = "stopped")
       /\ \/ Becomes(a, left, p.messages \o (<<r>> \o t.owed), p.exit, <<>>, "running")
          \/ Becomes(a, left, p.messages, p.exit, t.owed \o <<r>>, "running")
    \/ /\ command \notin {"disconnect", "launch", "configurationDone"} \cup Resumptions
       /\ command \in {"threads", "stackTrace", "scopes", "variables", "condition"} =>
             t.program = "stopped"
       /\ Becomes(a, left, p.messages \o <<r>>, p.exit, t.owed, t.program)

\* It refuses what it cannot do while the program is not stopped.
Refuses(a) ==
    /\ targets[a].program # "stopped"
    /\ Head(adapters[a].requests).command \in Resumptions \cup
          {"threads", "stackTrace", "scopes", "variables", "condition"}

\* It reports what its program does.
Reported(a) ==
    LET p == adapters[a]
        t == targets[a]
        last == <<Event("exited"), Event("terminated")>>
    IN
    \/ t.program \in {"loaded", "running", "stopped"}
       /\ Becomes(a, p.requests, p.messages \o t.owed, p.exit, <<>>, t.program)
    \/ t.program = "running"
       /\ \/ \E thread \in {0, 1} :
                Becomes(a, p.requests, p.messages \o <<EventOf("stopped", thread)>>, p.exit,
                        t.owed, "stopped")
          \/ Becomes(a, p.requests, p.messages \o (t.owed \o last), p.exit, <<>>, "gone")

LEMMA ServeReplies ==
  ASSUME AdaptersTyped, NEW a \in DOMAIN adapters, faults \in Nat, faults' = faults, Serve(a)
  PROVE  /\ adapters[a].requests # <<>>
         /\ \/ \E r \in Messages :
                  /\ IsResponse(r) /\ r.ok /\ r.to = Head(adapters[a].requests).seq
                  /\ Replied(a, r)
            \/ Refuses(a)
  <1> DEFINE p == adapters[a]
             t == targets[a]
             req == Head(p.requests)
             r == Response(req, TRUE)
             first == Event("initialized")
  <1>1. /\ p \in Processes /\ t \in Targets /\ p.requests # <<>>
        /\ a \in DOMAIN targets /\ req \in RequestRecords
        /\ p.requests \in Seq(RequestRecords) /\ t.owed \in Seq(Messages)
    <2>1. p \in Processes /\ t \in Targets /\ p.requests # <<>> /\ a \in DOMAIN targets
          /\ p.requests \in Seq(RequestRecords) /\ t.owed \in Seq(Messages)
      BY AdapterTypes DEF AdaptersTyped, Serve
    <2> HIDE DEF RequestRecords, p
    <2> QED BY <2>1, TailSteps
  <1>2. /\ r \in Messages /\ IsResponse(r) /\ r.ok /\ r.to = req.seq
        /\ \A full \in BOOLEAN : /\ [r EXCEPT !.full = full] \in Messages
                                 /\ IsResponse([r EXCEPT !.full = full])
                                 /\ [r EXCEPT !.full = full].ok
                                 /\ [r EXCEPT !.full = full].to = req.seq
        /\ first \in Messages
    <2>1. \A full \in BOOLEAN : [r EXCEPT !.full = full].ok
      BY DEF Response
    <2> QED BY <1>1, <2>1, MessagesAreTyped
  <1>3. ASSUME NEW u, NEW sent \in Seq(Messages), Does(a, u, sent)
        PROVE  Becomes(a, Tail(p.requests), p.messages \o sent, p.exit, u.owed, u.program)
    <2>1. adapters' = [adapters EXCEPT ![a] = Answered(p, sent)] /\ targets'[a] = u
      BY <1>1, <1>3 DEF Does
    <2>2. adapters'[a] = Answered(p, sent)
      BY <2>1
    <2>3. /\ Answered(p, sent).requests = Tail(p.requests)
          /\ Answered(p, sent).messages = p.messages \o sent
      BY <1>1, ProcessesAct
    <2>4. Answered(p, sent).exit = p.exit
      <3> HIDE DEF p, RequestRecords, Messages
      <3> QED BY <1>1 DEF Answered, Sent, Processes
    <2> QED BY <2>1, <2>2, <2>3, <2>4 DEF Becomes
  <1> HIDE DEF r, first
  <1>4. /\ <<>> \in Seq(Messages) /\ <<r>> \in Seq(Messages) /\ <<first>> \in Seq(Messages)
        /\ <<r, first>> \in Seq(Messages) /\ <<first, r>> \in Seq(Messages)
        /\ <<r>> \o t.owed \in Seq(Messages)
        /\ \A m \in Messages : <<m>> \in Seq(Messages)
    <2> HIDE DEF Messages, t, p
    <2> QED BY <1>1, <1>2
  <1>5. CASE req.command = "disconnect"
    <2> DEFINE q == Answered(p, <<r>>)
    <2>1. /\ adapters' = [adapters EXCEPT ![a] = [q EXCEPT !.exit = 0]]
          /\ targets' = [targets EXCEPT ![a].program = "gone"]
      BY <1>5 DEF Serve, r
    <2>2. /\ q \in Processes /\ q.requests = Tail(p.requests)
          /\ q.messages = p.messages \o <<r>>
      BY <1>1, <1>4, ProcessesAct
    <2> HIDE DEF q
    <2>3. /\ adapters'[a].requests = q.requests /\ adapters'[a].messages = q.messages
          /\ adapters'[a].exit = 0
      <3>1. adapters'[a] = [q EXCEPT !.exit = 0]
        BY <2>1
      <3> HIDE DEF RequestRecords, Messages
      <3> QED BY <2>2, <3>1 DEF Processes
    <2>4. targets'[a].program = "gone" /\ targets'[a].owed = t.owed
      <3> HIDE DEF Messages
      <3> QED BY <1>1, <2>1 DEF Targets
    <2> QED BY <1>1, <1>2, <1>5, <2>2, <2>3, <2>4 DEF Replied, Becomes
  <1>6. CASE req.command # "disconnect"
    <2>1. AnswerRequest(a, req, t)
      BY <1>6 DEF Serve, Fault
    <2>2. \/ req.command = "launch" /\ Launches(a, req, t)
          \/ req.command = "configurationDone" /\ Runs(a, req, t)
          \/ req.command \in Resumptions /\ t.program = "stopped" /\ Runs(a, req, t)
          \/ Refuses(a)
          \/ /\ req.command = "stackTrace" /\ t.program = "stopped"
             /\ \E full \in BOOLEAN : Does(a, t, <<[r EXCEPT !.full = full]>>)
          \/ /\ req.command \notin {"disconnect", "launch", "configurationDone", "stackTrace"}
                                      \cup Resumptions
             /\ req.command \in {"threads", "scopes", "variables", "condition"} =>
                   t.program = "stopped"
             /\ Does(a, [t EXCEPT !.tables = Tables(@, req)], <<r>>)
      <3> DEFINE stop == {"threads", "stackTrace", "scopes", "variables", "condition"}
      <3>1. \/ req.command = "launch" /\ Launches(a, req, t)
            \/ req.command = "configurationDone" /\ Runs(a, req, t)
            \/ req.command \in Resumptions /\ t.program = "stopped" /\ Runs(a, req, t)
            \/ req.command \in Resumptions \cup stop /\ t.program # "stopped"
            \/ /\ req.command = "stackTrace" /\ t.program = "stopped"
               /\ \E full \in BOOLEAN : Does(a, t, <<[r EXCEPT !.full = full]>>)
            \/ /\ req.command # "launch" /\ req.command # "configurationDone"
               /\ ~(req.command \in Resumptions /\ t.program = "stopped")
               /\ ~(req.command \in Resumptions \cup stop /\ t.program # "stopped")
               /\ ~(req.command = "stackTrace" /\ t.program = "stopped")
               /\ Does(a, [t EXCEPT !.tables = Tables(@, req)], <<r>>)
        BY <2>1, Zenon DEF AnswerRequest, r
      <3> QED BY <1>6, <3>1 DEF Refuses
    <2>3. "launch" \notin Resumptions /\ "configurationDone" \notin Resumptions
          /\ "stackTrace" \notin Resumptions /\ "disconnect" \notin Resumptions
      BY DEF Resumptions
    <2>4. ASSUME req.command = "launch", Launches(a, req, t) PROVE Replied(a, r)
      <3> DEFINE u == [t EXCEPT !.program = "loaded"]
      <3>1. u \in Targets /\ u.owed = t.owed /\ u.program = "loaded"
            /\ [u EXCEPT !.owed = <<r>>].program = "loaded"
            /\ [u EXCEPT !.owed = <<r>>].owed = <<r>>
        <4> HIDE DEF Messages, t
        <4> QED BY <1>1 DEF Targets
      <3>2. \/ Does(a, [u EXCEPT !.owed = <<r>>], <<first>>)
            \/ Does(a, u, <<r, first>>)
            \/ Does(a, u, <<first, r>>)
        BY <2>4 DEF Launches, r, first
      <3> HIDE DEF u
      <3>3. \/ Becomes(a, Tail(p.requests), p.messages \o <<first>>, p.exit, <<r>>, "loaded")
            \/ Becomes(a, Tail(p.requests), p.messages \o <<r, first>>, p.exit, t.owed, "loaded")
            \/ Becomes(a, Tail(p.requests), p.messages \o <<first, r>>, p.exit, t.owed, "loaded")
        BY <1>3, <1>4, <3>1, <3>2
      <3> QED BY <2>4, <3>3 DEF Replied, first
    <2>5. ASSUME Runs(a, req, t),
                 req.command = "configurationDone" \/ (req.command \in Resumptions /\ t.program = "stopped")
          PROVE  Replied(a, r)
      <3> DEFINE u == [t EXCEPT !.program = "running"]
                 v == [u EXCEPT !.owed = <<>>]
                 w == [u EXCEPT !.owed = @ \o <<r>>]
      <3>1. /\ v.program = "running" /\ v.owed = <<>>
            /\ w.program = "running" /\ w.owed = t.owed \o <<r>>
        <4> HIDE DEF Messages, t
        <4> QED BY <1>1 DEF Targets
      <3>2. Does(a, v, <<r>> \o t.owed) \/ Does(a, w, <<>>)
        BY <2>5 DEF Runs, r
      <3> HIDE DEF v, w
      <3>3. \/ Becomes(a, Tail(p.requests), p.messages \o (<<r>> \o t.owed), p.exit, <<>>, "running")
            \/ Becomes(a, Tail(p.requests), p.messages \o <<>>, p.exit, t.owed \o <<r>>, "running")
        BY <1>3, <1>4, <3>1, <3>2
      <3>4. p.messages \o <<>> = p.messages
        <4>1. p.messages \in Seq(Messages)
          BY AdapterTypes
        <4> HIDE DEF Messages, p
        <4> QED BY <4>1
      <3> QED BY <2>5, <3>3, <3>4 DEF Replied
    <2>6. ASSUME req.command = "stackTrace", t.program = "stopped",
                 NEW full \in BOOLEAN, Does(a, t, <<[r EXCEPT !.full = full]>>)
          PROVE  Replied(a, [r EXCEPT !.full = full])
      <3>1. <<[r EXCEPT !.full = full]>> \in Seq(Messages)
        BY <1>2, <1>4
      <3>2. Becomes(a, Tail(p.requests), p.messages \o <<[r EXCEPT !.full = full]>>, p.exit,
                    t.owed, t.program)
        BY <1>3, <2>6, <3>1
      <3> QED BY <2>3, <2>6, <3>2 DEF Replied
    <2>7. ASSUME Does(a, [t EXCEPT !.tables = Tables(@, req)], <<r>>),
                 req.command \notin {"disconnect", "launch", "configurationDone", "stackTrace"}
                                      \cup Resumptions,
                 req.command \in {"threads", "scopes", "variables", "condition"} =>
                   t.program = "stopped"
          PROVE  Replied(a, r)
      <3> DEFINE u == [t EXCEPT !.tables = Tables(@, req)]
      <3>1. u.owed = t.owed /\ u.program = t.program
        <4> HIDE DEF Messages, t
        <4> QED BY <1>1 DEF Targets
      <3> HIDE DEF u
      <3>2. Becomes(a, Tail(p.requests), p.messages \o <<r>>, p.exit, t.owed, t.program)
        BY <1>3, <1>4, <2>7, <3>1 DEF u
      <3> QED BY <2>7, <3>2 DEF Replied
    <2> QED BY <1>1, <1>2, <2>2, <2>4, <2>5, <2>6, <2>7
  <1> QED BY <1>5, <1>6

LEMMA ActsReport ==
  ASSUME AdaptersTyped, NEW a \in DOMAIN adapters, faults \in Nat, faults' = faults,
         AdapterActs(a)
  PROVE  IsUp(adapters[a]) /\ (Serve(a) \/ Reported(a))
  <1> DEFINE p == adapters[a]
             t == targets[a]
  <1>1. p \in Processes /\ t \in Targets /\ a \in DOMAIN targets
        /\ t.owed \in Seq(Messages)
    BY AdapterTypes DEF AdaptersTyped
  <1>2. \A kind : ~Fault(kind)
    BY DEF Fault
  <1>3. Serve(a) \/ PayOwed(a) \/ ProgramStops(a) \/ ProgramExits(a)
    BY <1>2 DEF AdapterActs, Repeats, Killed, Duplicates, Dies
  <1>4. /\ Event("exited") \in Messages /\ Event("terminated") \in Messages
        /\ \A thread \in {0, 1} : EventOf("stopped", thread) \in Messages
    BY MessagesAreTyped
  <1>5. ASSUME NEW sent \in Seq(Messages), adapters' = [adapters EXCEPT ![a] = Sent(@, sent)]
        PROVE  /\ adapters'[a].requests = p.requests
               /\ adapters'[a].messages = p.messages \o sent /\ adapters'[a].exit = p.exit
    <2>1. adapters'[a] = Sent(p, sent)
      BY <1>5
    <2>2. Sent(p, sent).exit = p.exit
      <3> HIDE DEF p, RequestRecords, Messages
      <3> QED BY <1>1 DEF Sent, Processes
    <2> QED BY SMTT(30), <1>1, <2>1, <2>2, ProcessesAct
  <1>6. ASSUME NEW sent \in Seq(Messages), NEW program, Tells(a, sent, program)
        PROVE  IsUp(p) /\ Becomes(a, p.requests, p.messages \o sent, p.exit, <<>>, program)
    <2>1. targets'[a].program = program /\ targets'[a].owed = <<>>
      <3> HIDE DEF Messages
      <3> QED BY <1>1, <1>6 DEF Tells, Targets
    <2> QED BY <1>5, <1>6, <2>1 DEF Tells, Becomes
  <1>7. CASE Serve(a)
    BY <1>7 DEF Serve
  <1>8. CASE PayOwed(a)
    BY <1>1, <1>6, <1>8 DEF PayOwed, Alive, Reported
  <1>9. CASE ProgramStops(a)
    <2>1. PICK thread \in {0, 1} :
              adapters' = [adapters EXCEPT ![a] = Sent(@, <<EventOf("stopped", thread)>>)]
      BY <1>9 DEF ProgramStops, NoThread
    <2>2. <<EventOf("stopped", thread)>> \in Seq(Messages)
      <3> HIDE DEF Messages
      <3> QED BY <1>4
    <2>3. targets'[a].program = "stopped" /\ targets'[a].owed = t.owed
      <3> HIDE DEF Messages
      <3> QED BY <1>1, <1>9 DEF ProgramStops, Targets
    <2>4. Becomes(a, p.requests, p.messages \o <<EventOf("stopped", thread)>>, p.exit,
                  t.owed, "stopped")
      BY <1>5, <2>1, <2>2, <2>3 DEF Becomes
    <2> QED BY <1>9, <2>4 DEF ProgramStops, Reported
  <1>10. CASE ProgramExits(a)
    <2> DEFINE last == <<Event("exited"), Event("terminated")>>
    <2>1. last \in Seq(Messages) /\ t.owed \o last \in Seq(Messages)
      <3>1. last \in Seq(Messages)
        <4> HIDE DEF Messages
        <4> QED BY <1>4
      <3> HIDE DEF Messages, last, t
      <3> QED BY <1>1, <3>1
    <2> HIDE DEF last
    <2>2. Tells(a, t.owed \o last, "gone") /\ t.program = "running"
      BY <1>10 DEF ProgramExits, last
    <2> QED BY <1>6, <2>1, <2>2 DEF Reported, last
  <1> QED BY <1>3, <1>7, <1>8, <1>9, <1>10

LEMMA AnswerableStays ==
  ASSUME NEW m \in Seq(Messages), NEW o \in Seq(Messages), NEW inbox, Answerable(m, o, inbox),
         NEW s \in Seq(Messages), Fine(s), Tos(s) \cap (Tos(m) \cup Tos(o)) = {},
         \A x \in inbox : x.to \notin Tos(s)
  PROVE  /\ Answerable(m \o s, o, inbox)
         /\ Answerable(m, o \o s, inbox)
         /\ Answerable(m \o (s \o o), <<>>, inbox)
         /\ Answerable(m \o (o \o s), <<>>, inbox)
         /\ Answerable(m \o o, <<>>, inbox)
         /\ \A e \in Seq(Messages) : Fine(e) /\ Tos(e) = {} => Answerable(m \o e, s, inbox)
  <1>1. /\ Fine(m) /\ Fine(o) /\ Tos(m) \cap Tos(o) = {}
        /\ \A x \in inbox : x.ok /\ x.to \notin Tos(m) \cup Tos(o)
    BY DEF Answerable
  <1> HIDE DEF Messages
  <1>2. /\ m \o s \in Seq(Messages) /\ Tos(m \o s) = Tos(m) \cup Tos(s) /\ Fine(m \o s)
    BY <1>1, JoinedAnswers
  <1>3. /\ o \o s \in Seq(Messages) /\ Tos(o \o s) = Tos(o) \cup Tos(s) /\ Fine(o \o s)
    BY <1>1, JoinedAnswers
  <1>4. /\ s \o o \in Seq(Messages) /\ Tos(s \o o) = Tos(s) \cup Tos(o) /\ Fine(s \o o)
    BY <1>1, JoinedAnswers
  <1>5. /\ m \o o \in Seq(Messages) /\ Tos(m \o o) = Tos(m) \cup Tos(o) /\ Fine(m \o o)
    BY <1>1, JoinedAnswers
  <1> DEFINE so == s \o o
             os == o \o s
  <1> HIDE DEF so, os
  <1>6. Tos(m \o so) = Tos(m) \cup Tos(so) /\ Fine(m \o so)
    BY <1>1, <1>4, JoinedAnswers DEF so
  <1>7. Tos(m \o os) = Tos(m) \cup Tos(os) /\ Fine(m \o os)
    BY <1>1, <1>3, JoinedAnswers DEF os
  <1>8. ASSUME NEW e \in Seq(Messages), Fine(e), Tos(e) = {} PROVE Answerable(m \o e, s, inbox)
    <2>1. Tos(m \o e) = Tos(m) \cup Tos(e) /\ Fine(m \o e)
      BY <1>1, <1>8, JoinedAnswers
    <2> QED BY <1>1, <1>8, <2>1 DEF Answerable
  <1>9. Answerable(m \o s, o, inbox) /\ Answerable(m, o \o s, inbox)
    BY <1>1, <1>2, <1>3 DEF Answerable
  <1>10. Answerable(m \o so, <<>>, inbox) /\ Answerable(m \o os, <<>>, inbox)
         /\ Answerable(m \o o, <<>>, inbox)
    BY <1>1, <1>3, <1>4, <1>5, <1>6, <1>7, NoMessage DEF Answerable, so, os
  <1> QED BY <1>8, <1>9, <1>10 DEF so, os

\* Where the request that is on its way finds the program.
LEMMA RequestFinds ==
  ASSUME Typed, CInv, Has, Planned(op, exec), adapters[exec.adapter].requests # <<>>,
         Outstanding(adapters[exec.adapter].requests, op, exec.state)
  PROVE  LET command == Head(adapters[exec.adapter].requests).command IN
         /\ exec.state = "Preparing" => command = "launch"
         /\ exec.state = "Configuring" => command \in Changes
         /\ exec.state = "Running" => command \in Resumptions \cup {"configurationDone"}
         /\ exec.state = "Stopped" => command # "launch"
         /\ command = "disconnect" => Ahead(op) = "disconnect" /\ op.waits # NoRequest
  <1> DEFINE R == adapters[exec.adapter].requests
             req == Head(R)
  <1>1. R \in Seq(RequestRecords) /\ 1 \in DOMAIN R /\ R[1] = req
    <2>1. R \in Seq(RequestRecords)
      BY AdapterTypes DEF Typed, ExecutionTyped
    <2> HIDE DEF RequestRecords, R
    <2> QED BY <2>1, TailSteps DEF R
  <1>2. Pending(req)
    BY <1>1 DEF CInv, Asked
  <1>3. CASE op.waits = NoRequest
    <2>1. exec.state = "Preparing" /\ req.command = "launch"
      BY <1>3 DEF Outstanding
    <2> QED BY <2>1
  <1>4. CASE op.waits # NoRequest
    <2>1. req.command = Current.command /\ op.todo # <<>> /\ Current.command \in Awaited
      BY <1>2, <1>4 DEF Outstanding, Pending, CInv, Shaped, Expects, Current
    <2>2. Ahead(op) = req.command
      BY <2>1 DEF Ahead, Current
    <2>3. exec.state \in Where(op.name, req.command, TRUE) /\ req.command \in Awaited
      BY <1>4, <2>1, <2>2 DEF Planned
    <2> HIDE DEF req, R
    <2>4. /\ exec.state = "Preparing" => req.command = "initialized"
          /\ exec.state = "Configuring" => req.command \in Changes \cup {"initialized"}
          /\ exec.state = "Running" =>
                req.command \in Resumptions \cup {"configurationDone", "launched", "stable"}
          /\ exec.state = "Stopped" => req.command # "launch"
      BY <2>3 DEF Where, Changes, Resumptions
    <2>5. req.command \notin {"initialized", "launched", "stable", "launch"}
      BY <2>3 DEF Awaited, Resumptions
    <2> QED BY <1>4, <2>2, <2>4, <2>5 DEF req, R
  <1> QED BY <1>3, <1>4

\* A report keeps what the backend takes the program to be.
LEMMA ReportIsKnown ==
  ASSUME NEW state, NEW requests, NEW m \in Seq(Messages), NEW program,
         Known(state, requests, m, program), NEW e \in Seq(Messages)
  PROVE  /\ program \in {"loaded", "running", "stopped"} /\ Silent(e) =>
               Known(state, requests, m \o e, program)
         /\ program = "running" /\ Single(e, "stopped") => Known(state, requests, m \o e, "stopped")
         /\ program = "running" /\ Ending(e) => Known(state, requests, m \o e, "gone")
  <1> DEFINE u == m \o e
  <1>1. /\ Silent(m) /\ Silent(e) => Silent(u)
        /\ \A name : Silent(m) /\ Single(e, name) => Single(u, name)
        /\ \A name : Single(m, name) /\ Silent(e) => Single(u, name)
        /\ Ending(m) /\ Ending(e) => Ending(u)
        /\ Silent(m) => Ending(m) /\ \A name : Single(m, name)
    BY JoinedNews
  <1>2. /\ Silent(m) /\ Silent(e) => Silent(u)
        /\ Silent(m) /\ Single(e, "stopped") => Single(u, "stopped")
        /\ Single(m, "stopped") /\ Silent(e) => Single(u, "stopped")
        /\ Single(m, "initialized") /\ Silent(e) => Single(u, "initialized")
        /\ Silent(m) /\ Ending(e) => Ending(u)
    BY <1>1
  <1> HIDE DEF u
  <1>3. program \in {"loaded", "running", "stopped"} /\ Silent(e) => Known(state, requests, u, program)
    BY <1>2 DEF Known
  <1>4. program = "running" => state = "Running" /\ requests = <<>> /\ Silent(m)
    BY DEF Known
  <1>5. program = "running" /\ Single(e, "stopped") => Known(state, requests, u, "stopped")
    BY <1>2, <1>4 DEF Known
  <1>6. program = "running" /\ Ending(e) => Known(state, requests, u, "gone")
    BY <1>2, <1>4 DEF Known
  <1> QED BY <1>3, <1>5, <1>6 DEF u

\* The messages with which a request is served, with one response among them.
LEMMA ReplyMessages ==
  ASSUME NEW r \in Messages, IsResponse(r), r.ok
  PROVE  LET first == Event("initialized") IN
         /\ <<r>> \in Seq(Messages) /\ Fine(<<r>>) /\ Tos(<<r>>) = {r.to} /\ Silent(<<r>>)
         /\ <<first>> \in Seq(Messages) /\ Fine(<<first>>) /\ Tos(<<first>>) = {}
         /\ Single(<<first>>, "initialized")
         /\ \A s \in {<<r, first>>, <<first, r>>} :
               s \in Seq(Messages) /\ Fine(s) /\ Tos(s) = {r.to} /\ Single(s, "initialized")
  <1> DEFINE first == Event("initialized")
  <1>1. first \in Messages /\ IsEvent(first)
    BY MessagesAreTyped
  <1>2. first.name = "initialized" /\ first.ok
    BY DEF Event, EventOf
  <1> HIDE DEF first, Messages
  <1>3. <<r>> \in Seq(Messages) /\ Fine(<<r>>) /\ Tos(<<r>>) = {r.to} /\ Silent(<<r>>)
    BY OneMessage
  <1>4. <<first>> \in Seq(Messages) /\ Fine(<<first>>) /\ Tos(<<first>>) = {}
        /\ Single(<<first>>, "initialized")
    BY <1>1, <1>2, OneMessage
  <1>5. <<r, first>> = <<r>> \o <<first>> /\ <<first, r>> = <<first>> \o <<r>>
    OBVIOUS
  <1> DEFINE x == <<r>>
             y == <<first>>
  <1>6. x \in Seq(Messages) /\ Fine(x) /\ Tos(x) = {r.to} /\ Silent(x)
        /\ y \in Seq(Messages) /\ Fine(y) /\ Tos(y) = {} /\ Single(y, "initialized")
    BY <1>3, <1>4
  <1> HIDE DEF x, y
  <1>7. /\ x \o y \in Seq(Messages) /\ Fine(x \o y) /\ Tos(x \o y) = {r.to}
        /\ y \o x \in Seq(Messages) /\ Fine(y \o x) /\ Tos(y \o x) = {r.to}
    BY <1>6, JoinedAnswers
  <1>8. Single(x \o y, "initialized") /\ Single(y \o x, "initialized")
    BY <1>6, JoinedNews
  <1>9. <<r, first>> = x \o y /\ <<first, r>> = y \o x
    BY <1>5 DEF x, y
  <1> QED BY <1>3, <1>4, <1>7, <1>8, <1>9 DEF first

LEMMA PairOfTwo ==
  ASSUME NEW T, NEW x \in T, NEW y \in T
  PROVE  <<x, y>> = <<x>> \o <<y>>
  <1> DEFINE s == <<x>>
             t == <<y>>
             u == s \o t
  <1>1. s \in Seq(T) /\ t \in Seq(T) /\ Len(s) = 1 /\ Len(t) = 1 /\ s[1] = x /\ t[1] = y
    OBVIOUS
  <1> HIDE DEF s, t
  <1>2. /\ u \in Seq(T) /\ Len(u) = Len(s) + Len(t)
        /\ \A i \in 1 .. Len(s) + Len(t) : u[i] = IF i <= Len(s) THEN s[i] ELSE t[i - Len(s)]
    BY <1>1, ConcatProperties
  <1> HIDE DEF u
  <1>3. u \in Seq(T) /\ Len(u) = 2 /\ u[1] = x /\ u[2] = y
    BY <1>1, <1>2
  <1>4. u = <<x, y>>
    BY <1>3
  <1> QED BY <1>4 DEF s, t, u

LEMMA EndMessages ==
  LET last == <<Event("exited"), Event("terminated")>> IN
  /\ last \in Seq(Messages) /\ Fine(last) /\ Tos(last) = {} /\ Ending(last)
  /\ \A thread \in {0, 1} :
        LET stop == <<EventOf("stopped", thread)>> IN
        stop \in Seq(Messages) /\ Fine(stop) /\ Tos(stop) = {} /\ Single(stop, "stopped")
  <1> DEFINE x == Event("exited")
             y == Event("terminated")
  <1>1. x \in Messages /\ IsEvent(x) /\ y \in Messages /\ IsEvent(y)
    BY MessagesAreTyped
  <1>2. x.ok /\ x.name \in Ends /\ y.ok /\ y.name \in Ends
    BY DEF Event, EventOf, Ends
  <1> HIDE DEF x, y, Messages
  <1>3. /\ <<x>> \in Seq(Messages) /\ Fine(<<x>>) /\ Tos(<<x>>) = {} /\ Ending(<<x>>)
        /\ <<y>> \in Seq(Messages) /\ Fine(<<y>>) /\ Tos(<<y>>) = {} /\ Ending(<<y>>)
    BY <1>1, <1>2, OneMessage
  <1>4. <<x, y>> = <<x>> \o <<y>>
    BY <1>1, PairOfTwo
  <1> DEFINE u == <<x>>
             v == <<y>>
  <1>5. /\ u \in Seq(Messages) /\ Fine(u) /\ Tos(u) = {} /\ Ending(u)
        /\ v \in Seq(Messages) /\ Fine(v) /\ Tos(v) = {} /\ Ending(v)
    BY <1>3
  <1> HIDE DEF u, v
  <1>6. u \o v \in Seq(Messages) /\ Fine(u \o v) /\ Tos(u \o v) = {} /\ Ending(u \o v)
    BY <1>5, JoinedAnswers, JoinedNews
  <1>7. ASSUME NEW thread \in {0, 1}
        PROVE  LET stop == <<EventOf("stopped", thread)>> IN
               stop \in Seq(Messages) /\ Fine(stop) /\ Tos(stop) = {} /\ Single(stop, "stopped")
    <2> DEFINE e == EventOf("stopped", thread)
    <2>1. e \in Messages /\ IsEvent(e)
      BY MessagesAreTyped
    <2>2. e.ok /\ e.name = "stopped"
      BY SMTT(30) DEF EventOf
    <2> HIDE DEF e
    <2> QED BY <2>1, <2>2, OneMessage DEF e
  <1> QED BY <1>4, <1>6, <1>7 DEF x, y, u, v

\* A response that was not given before.
LEMMA ReplyIsNew ==
  ASSUME Typed, CInv, Has, adapters[exec.adapter].requests # <<>>, NEW r,
         r.to = Head(adapters[exec.adapter].requests).seq
  PROVE  /\ r.to \notin Tos(adapters[exec.adapter].messages)
         /\ r.to \notin Tos(targets[exec.adapter].owed)
         /\ \A m \in exec.inbox : m.to # r.to
  <1> DEFINE a == exec.adapter
             R == adapters[a].requests
  <1>1. R \in Seq(RequestRecords) /\ 1 \in DOMAIN R /\ R[1] = Head(R)
        /\ a \in DOMAIN adapters /\ adapters[a].open
    <2>1. R \in Seq(RequestRecords) /\ a \in DOMAIN adapters /\ adapters[a].open
      BY AdapterTypes DEF Typed, ExecutionTyped
    <2> HIDE DEF RequestRecords, R
    <2> QED BY <2>1, TailSteps DEF R
  <1>2. InSequence(a) /\ \A m \in exec.inbox : m.to # R[1].seq
    BY <1>1 DEF CInv, Asked
  <1>3. \A m \in Heard(a) : IsResponse(m) => m.to # R[1].seq
    BY <1>1, <1>2 DEF InSequence
  <1> HIDE DEF R
  <1> QED BY <1>1, <1>2, <1>3 DEF Tos, Heard, R

\* What the adapter of an execution reports keeps them connected.
LEMMA ReportConnects ==
  ASSUME Typed, Has, NEW a, a = exec.adapter, Reported(a), exec' = exec, op' = op,
         IsUp(adapters[a]), Ahead(op) \notin {"release", "close"},
         Connected(exec, op, adapters[a], targets[a])
  PROVE  Connected(exec, op, adapters'[a], targets'[a])
  <1> DEFINE q == adapters[a]
             t == targets[a]
             R == q.requests
             m == q.messages
             o == t.owed
             last == <<Event("exited"), Event("terminated")>>
             inbox == exec.inbox
  <1>1. m \in Seq(Messages) /\ o \in Seq(Messages)
    BY AdapterTypes DEF Typed, ExecutionTyped, AdaptersTyped
  <1>2. /\ Answerable(m, o, inbox) /\ Silent(o)
        /\ Outstanding(R, op, exec.state)
        /\ Known(exec.state, R, m, t.program)
    BY DEF Connected
  <1>3. \A requests, messages, exit, owed, program :
            Becomes(a, requests, messages, exit, owed, program) /\ exit = q.exit
            /\ Answerable(messages, owed, inbox) /\ Silent(owed)
            /\ Outstanding(requests, op, exec.state)
            /\ Known(exec.state, requests, messages, program)
            => Connected(exec, op, adapters'[a], targets'[a])
    BY DEF Becomes, Connected, IsUp
  <1>4. Fine(o) /\ \A e \in Seq(Messages) : Fine(e) /\ Tos(e) = {} =>
           /\ Answerable(m \o e, o, inbox) /\ Answerable(m \o (e \o o), <<>>, inbox)
           /\ Answerable(m \o (o \o e), <<>>, inbox) /\ Answerable(m \o o, <<>>, inbox)
    <2> HIDE DEF Messages, m, o, inbox
    <2>1. Fine(o)
      BY <1>2 DEF Answerable
    <2>2. ASSUME NEW e \in Seq(Messages), Fine(e), Tos(e) = {}
          PROVE  /\ Answerable(m \o e, o, inbox) /\ Answerable(m \o (e \o o), <<>>, inbox)
                 /\ Answerable(m \o (o \o e), <<>>, inbox) /\ Answerable(m \o o, <<>>, inbox)
      <3>1. Tos(e) \cap (Tos(m) \cup Tos(o)) = {} /\ \A x \in inbox : x.to \notin Tos(e)
        BY <2>2
      <3> QED BY <1>1, <1>2, <2>2, <3>1, AnswerableStays
    <2> QED BY <2>1, <2>2
  <1>5. /\ <<>> \in Seq(Messages) /\ Fine(<<>>) /\ Tos(<<>>) = {} /\ Silent(<<>>)
    BY NoMessage
  <1>6. ASSUME t.program \in {"loaded", "running", "stopped"},
               Becomes(a, R, m \o o, q.exit, <<>>, t.program)
        PROVE  Connected(exec, op, adapters'[a], targets'[a])
    <2>1. Known(exec.state, R, m \o o, t.program)
      <3> HIDE DEF Messages, m, o, R
      <3> QED BY <1>1, <1>2, <1>6, ReportIsKnown
    <2>2. Answerable(m \o o, <<>>, inbox)
      BY <1>4, <1>5
    <2> QED BY <1>2, <1>3, <1>5, <1>6, <2>1, <2>2
  <1>7. ASSUME t.program = "running", NEW thread \in {0, 1},
               Becomes(a, R, m \o <<EventOf("stopped", thread)>>, q.exit, o, "stopped")
        PROVE  Connected(exec, op, adapters'[a], targets'[a])
    <2> DEFINE e == <<EventOf("stopped", thread)>>
    <2>1. e \in Seq(Messages) /\ Fine(e) /\ Tos(e) = {} /\ Single(e, "stopped")
      BY EndMessages
    <2>2. Becomes(a, R, m \o e, q.exit, o, "stopped")
      BY <1>7
    <2> HIDE DEF e
    <2>3. Known(exec.state, R, m \o e, "stopped")
      <3> HIDE DEF Messages, m, o, R
      <3> QED BY <1>1, <1>2, <1>7, <2>1, ReportIsKnown
    <2>4. Answerable(m \o e, o, inbox)
      BY <1>4, <2>1
    <2> QED BY <1>2, <1>3, <2>2, <2>3, <2>4
  <1>8. ASSUME t.program = "running", Becomes(a, R, m \o (o \o last), q.exit, <<>>, "gone")
        PROVE  Connected(exec, op, adapters'[a], targets'[a])
    <2>1. last \in Seq(Messages) /\ Fine(last) /\ Tos(last) = {} /\ Ending(last)
      BY EndMessages
    <2> HIDE DEF last
    <2>2. o \o last \in Seq(Messages) /\ Ending(o \o last)
      <3> HIDE DEF Messages, o
      <3> QED BY <1>1, <1>2, <2>1, JoinedNews, JoinedAnswers
    <2>3. Known(exec.state, R, m \o (o \o last), "gone")
      <3> HIDE DEF Messages, m, o, R
      <3> QED BY <1>1, <1>2, <1>8, <2>2, ReportIsKnown
    <2>4. Answerable(m \o (o \o last), <<>>, inbox)
      BY <1>4, <2>1
    <2> QED BY <1>2, <1>3, <1>5, <1>8, <2>3, <2>4
  <1> QED BY <1>6, <1>7, <1>8 DEF Reported

\* So does the answer it gives.
LEMMA ReplyConnects ==
  ASSUME Typed, CInv, Has, Planned(op, exec), NEW a, a = exec.adapter,
         adapters[a].requests # <<>>, NEW r \in Messages, IsResponse(r), r.ok,
         r.to = Head(adapters[a].requests).seq, Replied(a, r), exec' = exec, op' = op,
         IsUp(adapters[a]), Ahead(op) \notin {"release", "close"},
         Connected(exec, op, adapters[a], targets[a])
  PROVE  Connected(exec, op, adapters'[a], targets'[a])
  <1> DEFINE q == adapters[a]
             t == targets[a]
             R == q.requests
             m == q.messages
             o == t.owed
             s == <<r>>
             first == <<Event("initialized")>>
             inbox == exec.inbox
             state == exec.state
             command == Head(R).command
  <1>1. m \in Seq(Messages) /\ o \in Seq(Messages) /\ R \in Seq(RequestRecords)
    BY AdapterTypes DEF Typed, ExecutionTyped, AdaptersTyped
  <1>2. /\ Answerable(m, o, inbox) /\ Silent(o)
        /\ Outstanding(R, op, state)
        /\ Known(state, R, m, t.program)
    BY DEF Connected
  <1>3. Tail(R) = <<>>
    <2>1. Len(R) <= 1
      BY <1>2 DEF Outstanding
    <2> HIDE DEF R, RequestRecords
    <2> QED BY <1>1, <2>1
  <1>4. \A messages, owed, program :
            Becomes(a, Tail(R), messages, q.exit, owed, program)
            /\ Answerable(messages, owed, inbox) /\ Silent(owed)
            /\ Known(state, <<>>, messages, program)
            => Connected(exec, op, adapters'[a], targets'[a])
    <2>1. Outstanding(<<>>, op, state)
      BY DEF Outstanding
    <2> HIDE DEF R
    <2> QED BY <1>3, <2>1 DEF Becomes, Connected, IsUp
  <1>5. /\ state = "Preparing" => command = "launch"
        /\ state = "Configuring" => command \in Changes
        /\ state = "Running" => command \in Resumptions \cup {"configurationDone"}
        /\ state = "Stopped" => command # "launch"
        /\ command = "disconnect" => Ahead(op) = "disconnect" /\ op.waits # NoRequest
    BY <1>2, RequestFinds
  <1>6. /\ Silent(m) /\ state \in {"Preparing", "Configuring", "Running", "Stopped"}
        /\ state = "Preparing" => t.program = "none"
        /\ state = "Configuring" => t.program = "loaded"
        /\ state = "Running" /\ command \in Resumptions => t.program = "stopped"
        /\ state = "Stopped" => t.program = "stopped"
                                /\ command \notin Resumptions \cup {"configurationDone"}
    BY <1>2 DEF Known
  <1>7. /\ r.to \notin Tos(m) /\ r.to \notin Tos(o) /\ \A x \in inbox : x.to # r.to
    BY ReplyIsNew
  <1>8. /\ s \in Seq(Messages) /\ Fine(s) /\ Tos(s) = {r.to} /\ Silent(s)
        /\ first \in Seq(Messages) /\ Fine(first) /\ Tos(first) = {}
        /\ Single(first, "initialized")
        /\ \A e \in {<<r, Event("initialized")>>, <<Event("initialized"), r>>} :
              e \in Seq(Messages) /\ Fine(e) /\ Tos(e) = {r.to} /\ Single(e, "initialized")
    BY ReplyMessages
  <1>9. \A e \in Seq(Messages) : Fine(e) /\ Tos(e) = {r.to} =>
           /\ Answerable(m \o e, o, inbox) /\ Answerable(m, o \o e, inbox)
           /\ Answerable(m \o (e \o o), <<>>, inbox)
           /\ \A d \in Seq(Messages) : Fine(d) /\ Tos(d) = {} => Answerable(m \o d, e, inbox)
    <2> HIDE DEF Messages, m, o, inbox
    <2>1. ASSUME NEW e \in Seq(Messages), Fine(e), Tos(e) = {r.to}
          PROVE  /\ Answerable(m \o e, o, inbox) /\ Answerable(m, o \o e, inbox)
                 /\ Answerable(m \o (e \o o), <<>>, inbox)
                 /\ \A d \in Seq(Messages) : Fine(d) /\ Tos(d) = {} => Answerable(m \o d, e, inbox)
      <3>1. Tos(e) \cap (Tos(m) \cup Tos(o)) = {} /\ \A x \in inbox : x.to \notin Tos(e)
        BY <1>7, <2>1
      <3> QED BY <1>1, <1>2, <2>1, <3>1, AnswerableStays
    <2> QED BY <2>1
  <1>10. CASE command = "disconnect" /\ Becomes(a, Tail(R), m \o s, 0, o, "gone")
    <2>1. Silent(m \o s)
      <3> HIDE DEF Messages, m, s
      <3> QED BY <1>1, <1>6, <1>8, JoinedNews
    <2>2. Answerable(m \o s, o, inbox)
      BY <1>8, <1>9
    <2>3. Outstanding(<<>>, op, state)
      BY DEF Outstanding
    <2>4. /\ adapters'[a].requests = <<>> /\ adapters'[a].messages = m \o s
          /\ adapters'[a].exit = 0 /\ targets'[a].owed = o /\ targets'[a].program = "gone"
      BY <1>3, <1>10 DEF Becomes
    <2>5. ~IsUp(adapters'[a])
      BY <2>4 DEF IsUp, Running
    <2>6. Ahead(op) = "disconnect" /\ op.waits # NoRequest
      BY <1>5, <1>10
    <2> HIDE DEF R, m, o, s, q, t
    <2> QED BY <1>2, <2>1, <2>2, <2>3, <2>4, <2>5, <2>6 DEF Connected
  <1>11. CASE command = "launch"
    <2>1. state = "Preparing"
      BY <1>5, <1>6, <1>11 DEF Changes, Resumptions
    <2>2. \A e \in Seq(Messages) : Single(e, "initialized") =>
             Known(state, <<>>, m \o e, "loaded")
      <3>1. \A e \in Seq(Messages) : Single(e, "initialized") => Single(m \o e, "initialized")
        <4> HIDE DEF Messages, m
        <4> QED BY <1>1, <1>6, JoinedNews
      <3> HIDE DEF m
      <3> QED BY <2>1, <3>1 DEF Known
    <2>3. \/ Becomes(a, Tail(R), m \o first, q.exit, s, "loaded")
          \/ \E e \in {<<r, Event("initialized")>>, <<Event("initialized"), r>>} :
                Becomes(a, Tail(R), m \o e, q.exit, o, "loaded")
      BY <1>11 DEF Replied, Resumptions
    <2>4. CASE Becomes(a, Tail(R), m \o first, q.exit, s, "loaded")
      BY <1>4, <1>8, <1>9, <2>2, <2>4
    <2>5. CASE \E e \in {<<r, Event("initialized")>>, <<Event("initialized"), r>>} :
                Becomes(a, Tail(R), m \o e, q.exit, o, "loaded")
      <3> PICK e \in {<<r, Event("initialized")>>, <<Event("initialized"), r>>} :
                Becomes(a, Tail(R), m \o e, q.exit, o, "loaded")
        BY <2>5
      <3>1. e \in Seq(Messages) /\ Fine(e) /\ Tos(e) = {r.to} /\ Single(e, "initialized")
        BY <1>8
      <3>2. Answerable(m \o e, o, inbox) /\ Known(state, <<>>, m \o e, "loaded")
        BY <1>9, <2>2, <3>1
      <3> HIDE DEF R, m, o, s, t
      <3> QED BY <1>2, <1>4, <3>2
    <2> QED BY <2>3, <2>4, <2>5
  <1>12. CASE command \in {"configurationDone"} \cup Resumptions
    <2>1. state = "Running"
      BY <1>5, <1>6, <1>12 DEF Changes, Resumptions
    <2>2. \/ Becomes(a, Tail(R), m \o (s \o o), q.exit, <<>>, "running")
          \/ Becomes(a, Tail(R), m, q.exit, o \o s, "running")
      BY <1>12 DEF Replied, Resumptions
    <2>3. s \o o \in Seq(Messages) /\ Silent(s \o o) /\ Silent(o \o s) /\ Silent(m \o (s \o o))
      <3> HIDE DEF Messages, m, s, o
      <3>1. s \o o \in Seq(Messages) /\ Silent(s \o o) /\ Silent(o \o s)
        BY <1>1, <1>2, <1>8, JoinedNews, JoinedAnswers
      <3> QED BY <1>1, <1>6, <3>1, JoinedNews
    <2>4. Known(state, <<>>, m \o (s \o o), "running") /\ Known(state, <<>>, m, "running")
      <3> HIDE DEF m, s, o
      <3> QED BY <1>6, <2>1, <2>3 DEF Known
    <2>5. Answerable(m \o (s \o o), <<>>, inbox) /\ Answerable(m, o \o s, inbox)
      BY <1>8, <1>9
    <2>6. Silent(<<>>)
      BY NoMessage
    <2> QED BY <1>4, <2>2, <2>3, <2>4, <2>5, <2>6
  <1>13. CASE /\ command \notin {"disconnect", "launch", "configurationDone"} \cup Resumptions
              /\ Becomes(a, Tail(R), m \o s, q.exit, o, t.program)
    <2>1. state \in {"Configuring", "Stopped"}
      BY <1>5, <1>6, <1>13
    <2>2. Silent(m \o s)
      <3> HIDE DEF Messages, m, s
      <3> QED BY <1>1, <1>6, <1>8, JoinedNews
    <2>3. Known(state, <<>>, m \o s, t.program)
      <3> HIDE DEF m, s
      <3> QED BY <1>6, <2>1, <2>2 DEF Known
    <2> QED BY <1>2, <1>4, <1>8, <1>9, <1>13, <2>3
  <1> QED BY <1>10, <1>11, <1>12, <1>13 DEF Replied

LEMMA ConnectionActs ==
  ASSUME Typed, CInv, Has, Planned(op, exec), NEW a, a = exec.adapter, AdapterActs(a),
         faults \in Nat, faults' = faults, exec' = exec, op' = op,
         Connected(exec, op, adapters[a], targets[a])
  PROVE  Connected(exec, op, adapters'[a], targets'[a])
  <1>1. CASE Ahead(op) \in {"release", "close"}
    BY <1>1 DEF Connected
  <1>2. CASE Ahead(op) \notin {"release", "close"}
    <2>1. AdaptersTyped /\ a \in DOMAIN adapters
      BY DEF Typed, ExecutionTyped
    <2>2. IsUp(adapters[a]) /\ (Serve(a) \/ Reported(a))
      BY <2>1, ActsReport
    <2>3. CASE Reported(a)
      BY <1>2, <2>2, <2>3, ReportConnects
    <2>4. CASE Serve(a)
      <3>1. /\ adapters[a].requests # <<>>
            /\ \/ \E r \in Messages :
                     /\ IsResponse(r) /\ r.ok /\ r.to = Head(adapters[a].requests).seq
                     /\ Replied(a, r)
               \/ Refuses(a)
        BY <2>1, <2>4, ServeReplies
      <3>2. ~Refuses(a)
        <4> DEFINE command == Head(adapters[a].requests).command
                   state == exec.state
        <4>1. /\ Outstanding(adapters[a].requests, op, state)
              /\ Known(state, adapters[a].requests, adapters[a].messages, targets[a].program)
          BY <1>2, <2>2 DEF Connected
        <4>2. /\ state = "Preparing" => command = "launch"
              /\ state = "Configuring" => command \in Changes
              /\ state = "Running" => command \in Resumptions \cup {"configurationDone"}
          BY <3>1, <4>1, RequestFinds
        <4>3. /\ state \in {"Preparing", "Configuring", "Running", "Stopped"}
              /\ state = "Running" /\ command \in Resumptions => targets[a].program = "stopped"
              /\ state = "Stopped" => targets[a].program = "stopped"
          BY <3>1, <4>1 DEF Known
        <4> QED BY <4>2, <4>3 DEF Refuses, Changes, Resumptions
      <3> QED BY <1>2, <2>2, <3>1, <3>2, ReplyConnects
    <2> QED BY <2>2, <2>3, <2>4
  <1> QED BY <1>1, <1>2

\* A prepared adapter does no more than answer its first request.
LEMMA PreparationActs ==
  ASSUME IInv, Typed, NEW p, p = prep.adapter, prep.status \in {"initializing", "ready"},
         Clear(p), AdapterActs(p), faults' = faults, prep' = prep
  PROVE  Clear(p)'
  <1> DEFINE q == adapters[p]
             t == targets[p]
             r == Response(InitialRequest, TRUE)
             Ready == [t EXCEPT !.tables = Tables(@, InitialRequest)]
  <1>1. p \in DOMAIN adapters /\ p # exec.adapter /\ q.open
    BY AppendIsSequence DEF IInv, OneAtATime, NoPreparation, Has, AdaptersAreOwned
  <1>2. AdaptersTyped /\ faults \in Nat /\ q.requests \in Seq({InitialRequest})
    BY <1>1 DEF Typed, IInv, AdaptersAreOwned, Untouched
  <1>3. IsUp(q) /\ (Serve(p) \/ Reported(p))
    BY <1>1, <1>2, ActsReport
  <1>4. ~Reported(p)
    BY DEF Reported, Clear
  <1>5. /\ prep.status = "initializing" /\ Len(q.requests) = 1 /\ q.messages = <<>>
        /\ t.program = "none" /\ t.owed = <<>> /\ q.requests # <<>>
    BY <1>3, <1>4 DEF Clear, Serve
  <1>6. Head(q.requests) = InitialRequest /\ Tail(q.requests) = <<>>
    <2> HIDE DEF q
    <2>1. q.requests # <<>> /\ Len(q.requests) = 1 /\ q.requests \in Seq({InitialRequest})
      BY <1>2, <1>5
    <2>2. Head(q.requests) \in {InitialRequest} /\ Tail(q.requests) \in Seq({InitialRequest})
      BY <2>1, TailSteps
    <2>3. Tail(q.requests) = <<>>
      <3>1. Len(Tail(q.requests)) = 0
        BY <2>1, HeadTailProperties
      <3> QED BY <2>2, <3>1, EmptySeq
    <2> QED BY <2>2, <2>3
  <1>7. InitialRequest.command = "initialize"
    BY DEF InitialRequest, Request
  <1>8. \A kind : ~Fault(kind)
    BY <1>2 DEF Fault
  <1>9. AnswerRequest(p, InitialRequest, t)
    BY <1>3, <1>4, <1>6, <1>7, <1>8 DEF Serve
  <1>10. Does(p, Ready, <<r>>)
    <2> HIDE DEF t, r
    <2> QED BY <1>7, <1>9 DEF AnswerRequest, Resumptions, r
  <1>11. adapters'[p] = Answered(q, <<r>>) /\ targets'[p] = Ready
    BY <1>1, <1>2, <1>10 DEF Does, AdaptersTyped
  <1>12. q \in Processes /\ t \in Targets /\ r \in Messages
    <2>1. q \in Processes /\ t \in Targets /\ q.requests \in Seq(RequestRecords)
      BY <1>1, <1>2, AdapterTypes
    <2>2. InitialRequest \in RequestRecords
      <3> HIDE DEF RequestRecords, q
      <3> QED BY <1>5, <1>6, <2>1, TailSteps
    <2> QED BY <2>1, <2>2, MessagesAreTyped
  <1>13. Ready.program = "none" /\ Ready.owed = <<>>
    BY <1>5, <1>12 DEF Targets
  <1>14. /\ Answered(q, <<r>>).requests = <<>> /\ Answered(q, <<r>>).exit = q.exit
         /\ Answered(q, <<r>>).messages = <<r>>
    <2>1. <<r>> \in Seq(Messages) /\ <<>> \o <<r>> = <<r>>
      <3> HIDE DEF Messages, r
      <3> QED BY <1>12
    <2>2. Answered(q, <<r>>).exit = q.exit
      <3> HIDE DEF q, r, RequestRecords, Messages
      <3> QED BY <1>12 DEF Answered, Sent, Processes
    <2>3. Answered(q, <<r>>).requests = Tail(q.requests)
          /\ Answered(q, <<r>>).messages = q.messages \o <<r>>
      <3> HIDE DEF q, r
      <3> QED BY <1>5, <1>12, <2>1, ProcessesAct
    <2> HIDE DEF q, r
    <2> QED BY <1>5, <1>6, <2>1, <2>2, <2>3
  <1> HIDE DEF Ready, r
  <1> QED BY <1>3, <1>5, <1>11, <1>13, <1>14 DEF Clear, IsUp, r

LEMMA CleanActs ==
  ASSUME IInv, Typed, CInv, Clean, AdaptersAct, faults' = faults
  PROVE  Clean'
  <1>1. PICK a \in DOMAIN adapters : AdapterActs(a)
    BY DEF AdaptersAct
  <1>2. prep' = prep /\ exec' = exec /\ op' = op /\ view' = view /\ answer' = answer
    BY DEF AdaptersAct
  <1>3. /\ Alone(a) /\ faults \in Nat /\ DOMAIN targets = DOMAIN adapters
    BY <1>1, ActsAlone DEF IInv, AdaptersAreOwned
  <1>4. ASSUME prep.status \in {"initializing", "ready"}
        PROVE  Clear(prep.adapter)'
    <2> DEFINE p == prep.adapter
    <2>1. p \in DOMAIN adapters /\ Clear(p)
      BY <1>4 DEF IInv, OneAtATime, Clean
    <2>2. CASE a = p
      BY <1>1, <1>2, <1>4, <2>1, <2>2, PreparationActs
    <2>3. CASE a # p
      <3>1. adapters'[p] = adapters[p] /\ targets'[p] = targets[p]
        BY <1>3, <2>1, <2>3 DEF Alone
      <3> QED BY <1>2, <2>1, <3>1 DEF Clear
    <2> QED BY <2>2, <2>3
  <1>5. ASSUME Has
        PROVE  Connected(exec, op, adapters'[exec.adapter], targets'[exec.adapter])
    <2> DEFINE b == exec.adapter
    <2>1. b \in DOMAIN adapters /\ Planned(op, exec)
          /\ Connected(exec, op, adapters[b], targets[b])
      BY <1>5 DEF Typed, ExecutionTyped, Clean
    <2>2. CASE a = b
      BY <1>1, <1>2, <1>3, <1>5, <2>1, <2>2, ConnectionActs
    <2>3. CASE a # b
      <3>1. adapters'[b] = adapters[b] /\ targets'[b] = targets[b]
        BY <1>3, <2>1, <2>3 DEF Alone
      <3> QED BY <2>1, <3>1
    <2> QED BY <2>2, <2>3
  <1> QED BY <1>2, <1>4, <1>5 DEF Clean, Has

-----------------------------------------------------------------------------
(* What an operation does one step after another.                          *)

\* The step that comes next is one that may.
LEMMA NextAhead ==
  ASSUME NEW o, o.todo \in Seq(Steps), o.todo # <<>>, Chained(o),
         NEW p, p.todo = Tail(o.todo), p.name = o.name
  PROVE  Chained(p) /\ Ahead(p) \in Then(o.name, Ahead(o))
  <1> DEFINE s == o.todo
             t == Tail(s)
             n == Len(s)
             Links(i) == IF i = n THEN "done" \in Then(o.name, s[i].command)
                         ELSE s[i + 1].command \in Then(o.name, s[i].command)
  <1>1. /\ t \in Seq(Steps) /\ Len(t) = n - 1 /\ n \in Nat \ {0}
        /\ DOMAIN s = 1 .. n /\ DOMAIN t = 1 .. n - 1
        /\ \A i \in 1 .. n - 1 : t[i] = s[i + 1]
        /\ Head(s) = s[1]
    <2> HIDE DEF Steps
    <2> QED BY HeadTailProperties, EmptySeq
  <1>2. \A i \in 1 .. n : Links(i)
    BY <1>1 DEF Chained
  <1>3. Chained(p)
    <2> HIDE DEF Links, s, t, n
    <2>1. ASSUME NEW i \in 1 .. n - 1
          PROVE  IF i = n - 1 THEN "done" \in Then(o.name, t[i].command)
                 ELSE t[i + 1].command \in Then(o.name, t[i].command)
      <3>1. i + 1 \in 1 .. n /\ Links(i + 1) /\ t[i] = s[i + 1]
        BY <1>1, <1>2
      <3>2. CASE i = n - 1
        BY <1>1, <3>1, <3>2 DEF Links
      <3>3. CASE i # n - 1
        <4>1. i + 1 \in 1 .. n - 1 /\ i + 1 # n /\ t[i + 1] = s[i + 1 + 1]
          BY <1>1, <3>3
        <4> QED BY <3>1, <3>3, <4>1 DEF Links
      <3> QED BY <3>2, <3>3
    <2>2. p.todo = t /\ p.name = o.name
      BY DEF t, s
    <2> QED BY <1>1, <2>1, <2>2 DEF Chained
  <1>4. Ahead(o) = s[1].command
    BY <1>1 DEF Ahead
  <1>5. Ahead(p) \in Then(o.name, s[1].command)
    <2>1. CASE n = 1
      <3>1. t = <<>>
        BY <1>1, <2>1, EmptySeq
      <3> QED BY <1>1, <1>2, <2>1, <3>1 DEF Ahead
    <2>2. CASE n # 1
      <3>1. t # <<>> /\ Head(t) = t[1] /\ t[1] = s[2]
        <4> HIDE DEF Steps, Links, s, n, t
        <4>1. 1 \in 1 .. n - 1 /\ Len(t) # 0 /\ 1 + 1 = 2
          BY <1>1, <2>2
        <4>2. t # <<>> /\ t[1] = s[2]
          <5>1. t # <<>>
            <6>1. Len(<<>>) = 0
              OBVIOUS
            <6> QED BY <4>1, <6>1
          <5>2. t[1] = s[1 + 1]
            BY <1>1, <4>1
          <5> QED BY <4>1, <5>1, <5>2
        <4> HIDE DEF t
        <4> QED BY <1>1, <4>2
      <3>2. Links(1) /\ 1 # n
        <4> HIDE DEF Links, s, n, t
        <4>1. 1 \in 1 .. n
          BY <1>1
        <4> QED BY <1>2, <2>2, <4>1
      <3>3. s[2].command \in Then(o.name, s[1].command)
        BY <3>2
      <3> QED BY <3>1, <3>3 DEF Ahead
    <2> QED BY <2>1, <2>2
  <1> QED BY <1>3, <1>4, <1>5

\* A step that takes the place of the next one.
LEMMA InsteadAhead ==
  ASSUME NEW o, o.todo \in Seq(Steps), o.todo # <<>>, Chained(o), NEW h \in Steps,
         Then(o.name, h.command) = Then(o.name, Ahead(o)),
         NEW p, p.todo = <<h>> \o Tail(o.todo), p.name = o.name
  PROVE  Chained(p) /\ Ahead(p) = h.command
  <1> DEFINE s == o.todo
             t == <<h>> \o Tail(s)
             n == Len(s)
  <1>1. /\ t \in Seq(Steps) /\ t # <<>> /\ Head(t) = h /\ t[1] = h
        /\ DOMAIN t = DOMAIN s /\ \A i \in DOMAIN s : i # 1 => t[i] = s[i]
        /\ s[1] = Head(s)
    <2> HIDE DEF Steps
    <2> QED BY TailSteps
  <1>2. Ahead(o) = s[1].command
    BY <1>1 DEF Ahead
  <1>3. DOMAIN s = 1 .. n /\ Len(t) = n /\ n \in Nat
    <2> HIDE DEF Steps, t
    <2> QED BY <1>1
  <1> HIDE DEF t
  <1>4. \A i \in DOMAIN s : Then(o.name, t[i].command) = Then(o.name, s[i].command)
    BY <1>1, <1>2
  <1>5. \A i \in DOMAIN s :
            IF i = n THEN "done" \in Then(o.name, t[i].command)
            ELSE t[i + 1].command \in Then(o.name, t[i].command)
    <2> SUFFICES ASSUME NEW i \in DOMAIN s
                 PROVE  IF i = n THEN "done" \in Then(o.name, t[i].command)
                        ELSE t[i + 1].command \in Then(o.name, t[i].command)
      OBVIOUS
    <2>1. CASE i = n
      BY <1>4, <2>1 DEF Chained
    <2>2. CASE i # n
      <3>1. i + 1 \in DOMAIN s /\ i + 1 # 1
        BY <1>3, <2>2
      <3> QED BY <1>1, <1>4, <2>2, <3>1 DEF Chained
    <2> QED BY <2>1, <2>2
  <1>6. Chained(p)
    BY <1>1, <1>3, <1>5 DEF Chained, t
  <1>7. Ahead(p) = h.command
    BY <1>1 DEF Ahead, t
  <1> QED BY <1>6, <1>7

\* Lists of a few steps.
LEMMA ShortChains ==
  ASSUME NEW p, NEW c, NEW d, NEW e
  PROVE  /\ p.todo = <<>> => Chained(p) /\ Ahead(p) = "done"
         /\ p.todo = <<Step(c)>> /\ "done" \in Then(p.name, c) =>
               Chained(p) /\ Ahead(p) = c
         /\ p.todo = <<Step(c), Step(d)>>
            /\ d \in Then(p.name, c) /\ "done" \in Then(p.name, d) =>
               Chained(p) /\ Ahead(p) = c
         /\ p.todo = <<Step(c), Step(d), Step(e)>>
            /\ d \in Then(p.name, c) /\ e \in Then(p.name, d) /\ "done" \in Then(p.name, e) =>
               Chained(p) /\ Ahead(p) = c
  <1>1. \A x : Step(x).command = x
    BY DEF Step
  <1>2. p.todo = <<>> => Chained(p) /\ Ahead(p) = "done"
    BY DEF Chained, Ahead
  <1> DEFINE x == Step(c)
             y == Step(d)
             z == Step(e)
  <1>3. x.command = c /\ y.command = d /\ z.command = e
    BY <1>1
  <1> HIDE DEF x, y, z
  <1>4. ASSUME p.todo = <<x>>, "done" \in Then(p.name, c)
        PROVE  Chained(p) /\ Ahead(p) = c
    BY <1>3, <1>4 DEF Chained, Ahead
  <1>5. ASSUME p.todo = <<x, y>>, d \in Then(p.name, c), "done" \in Then(p.name, d)
        PROVE  Chained(p) /\ Ahead(p) = c
    <2>1. /\ Len(p.todo) = 2 /\ DOMAIN p.todo = {1, 2} /\ p.todo[1] = x /\ p.todo[2] = y
          /\ p.todo # <<>> /\ Head(p.todo) = x
      BY <1>5
    <2> QED BY <1>3, <1>5, <2>1 DEF Chained, Ahead
  <1>6. ASSUME p.todo = <<x, y, z>>, d \in Then(p.name, c), e \in Then(p.name, d),
               "done" \in Then(p.name, e)
        PROVE  Chained(p) /\ Ahead(p) = c
    <2>1. /\ Len(p.todo) = 3 /\ DOMAIN p.todo = {1, 2, 3} /\ p.todo[1] = x /\ p.todo[2] = y
          /\ p.todo[3] = z /\ p.todo # <<>> /\ Head(p.todo) = x
      BY <1>6
    <2> QED BY <1>3, <1>6, <2>1 DEF Chained, Ahead
  <1> QED BY <1>2, <1>4, <1>5, <1>6 DEF x, y, z

\* Breakpoint requests that are synchronized.
LEMMA ChangesChained ==
  ASSUME NEW p, p.name = "sync", p.todo \in Seq(Steps),
         \A i \in DOMAIN p.todo : p.todo[i].command \in Changes
  PROVE  Chained(p) /\ Ahead(p) \in Changes \cup {"done"}
  <1> DEFINE s == p.todo
  <1>1. DOMAIN s = 1 .. Len(s) /\ Len(s) \in Nat
        /\ s # <<>> => 1 \in DOMAIN s /\ Head(s) = s[1]
    <2> HIDE DEF Steps
    <2> QED BY TailSteps
  <1>2. \A c \in Changes : Then("sync", c) = Changes \cup {"done"}
    BY DEF Then, Changes, Resumptions
  <1>3. \A i \in DOMAIN s : i # Len(s) => i + 1 \in DOMAIN s
    BY <1>1
  <1>4. Chained(p)
    BY <1>2, <1>3 DEF Chained
  <1>5. Ahead(p) \in Changes \cup {"done"}
    BY <1>1 DEF Ahead
  <1> QED BY <1>4, <1>5

-----------------------------------------------------------------------------
(* What a step of the client leaves of it.                                   *)

\* Where the program is taken to be when a step is passed.
LEMMA WhereAdvances ==
  ASSUME NEW name, NEW c, NEW d \in Then(name, c), NEW sent, NEW state \in Where(name, c, sent),
         c \in Resumptions \cup {"configurationDone"} => sent,
         c = "stable" => state # "Running",
         c = "initialized" => state = "Configuring" /\ name # "sync",
         c \notin {"launch", "outcome", "disconnect", "prepare", "release", "close", "complete",
                   "unreadable"}
  PROVE  state \in Where(name, d, FALSE)
  <1>1. CASE c = "initialized"
    BY <1>1 DEF Then, Where, Changes, Resumptions
  <1>2. CASE c \in Changes
    <2>1. d \in Changes \cup {IF name = "sync" THEN "done" ELSE "configurationDone"}
      BY <1>2 DEF Then, Changes, Resumptions
    <2>2. state = IF name = "sync" THEN "Stopped" ELSE "Configuring"
      BY <1>2 DEF Where, Changes, Resumptions
    <2> QED BY <2>1, <2>2 DEF Where, Changes, Resumptions
  <1>3. CASE c = "configurationDone"
    BY <1>3 DEF Then, Where, Changes, Resumptions
  <1>4. CASE c \in Resumptions \cup {"launched"}
    <2>1. d = "stable"
      BY <1>4 DEF Then, Changes, Resumptions
    <2>2. state \in {"Running", "Stopped", "Exited"}
      BY <1>4 DEF Where, Changes, Resumptions
    <2> QED BY <2>1, <2>2 DEF Where, Changes, Resumptions
  <1>5. CASE c = "stable"
    BY <1>5 DEF Then, Where, Changes, Resumptions
  <1>6. CASE c \in {"threads", "window", "stackTrace", "scopes", "condition", "variables"}
    <2>1. d \in {"window", "condition", "done", "variables"}
      BY <1>6 DEF Then, Changes, Resumptions
    <2>2. state = "Stopped"
      BY <1>6 DEF Where, Changes, Resumptions
    <2> QED BY <2>1, <2>2 DEF Where, Changes, Resumptions
  <1>7. CASE c \notin {"initialized", "configurationDone", "launched", "stable", "threads", "window",
                       "stackTrace", "scopes", "condition", "variables"} \cup Changes \cup Resumptions
    BY <1>7 DEF Then, Changes, Resumptions
  <1> QED BY <1>1, <1>2, <1>3, <1>4, <1>5, <1>6, <1>7

\* What is known when a response is read.
LEMMA KnownRead ==
  ASSUME NEW state, NEW requests, NEW m \in Seq(Messages), m # <<>>, Fine(m), NEW program,
         Known(state, requests, m, program), IsResponse(Head(m))
  PROVE  Known(state, requests, Tail(m), program)
  <1> DEFINE t == Tail(m)
  <1>1. /\ Silent(m) => Silent(t)
        /\ Ending(m) => Ending(t)
        /\ \A name : Single(m, name) => Single(t, name)
    BY ReadMessages
  <1> HIDE DEF t
  <1>2. Known(state, requests, t, program)
    BY <1>1 DEF Known
  <1> QED BY <1>2 DEF t

\* What is known when an event is.
LEMMA KnownEvent ==
  ASSUME NEW state, NEW requests, NEW m \in Seq(Messages), m # <<>>, Fine(m), NEW program,
         Known(state, requests, m, program), IsEvent(Head(m))
  PROVE  /\ requests = <<>>
         /\ \/ /\ state = "Preparing" /\ Head(m).name = "initialized"
               /\ Known("Configuring", requests, Tail(m), program)
            \/ /\ state = "Running" /\ Head(m).name = "stopped"
               /\ Known("Stopped", requests, Tail(m), program)
            \/ /\ state \in {"Running", "Exited"} /\ Head(m).name \in Ends
               /\ Known("Exited", requests, Tail(m), program)
  <1> DEFINE t == Tail(m)
             h == Head(m)
  <1>1. /\ ~Silent(m)
        /\ Ending(m) => Ending(t) /\ h.name \in Ends
        /\ \A name : Single(m, name) => h.name = name /\ Silent(t)
    <2>1. ~(IsResponse(h) /\ IsEvent(h))
      BY DEF IsResponse, IsEvent
    <2> QED BY <2>1, ReadMessages
  <1> HIDE DEF t, h
  <1>2. \/ state = "Preparing" /\ requests = <<>> /\ program = "loaded" /\ Single(m, "initialized")
        \/ /\ state = "Running" /\ requests = <<>>
           /\ \/ program = "stopped" /\ Single(m, "stopped")
              \/ program = "gone" /\ Ending(m)
        \/ state = "Exited" /\ program = "gone" /\ requests = <<>> /\ Ending(m)
    BY <1>1 DEF Known
  <1>3. CASE state = "Preparing" /\ requests = <<>> /\ program = "loaded" /\ Single(m, "initialized")
    BY <1>1, <1>3 DEF Known, t, h
  <1>4. CASE state = "Running" /\ requests = <<>> /\ program = "stopped" /\ Single(m, "stopped")
    <2>1. Known("Stopped", requests, t, program) /\ h.name = "stopped"
      BY <1>1, <1>4 DEF Known
    <2> QED BY <1>4, <2>1 DEF t, h
  <1>5. CASE state \in {"Running", "Exited"} /\ requests = <<>> /\ program = "gone" /\ Ending(m)
    <2>1. Known("Exited", requests, t, program) /\ h.name \in Ends
      BY <1>1, <1>5 DEF Known
    <2> QED BY <1>5, <2>1 DEF t, h
  <1> QED BY <1>2, <1>3, <1>4, <1>5

LEMMA AnswerableRead ==
  ASSUME NEW m \in Seq(Messages), NEW owed, NEW inbox, Answerable(m, owed, inbox)
  PROVE  /\ \A less \in SUBSET inbox : Answerable(m, owed, less)
         /\ m # <<>> =>
               /\ \A less \in SUBSET inbox : Answerable(Tail(m), owed, less)
               /\ IsResponse(Head(m)) =>
                     /\ Answerable(Tail(m), owed, inbox \cup {Head(m)})
                     /\ ~IsDuplicate(inbox, Head(m))
  <1>1. \A less \in SUBSET inbox : Answerable(m, owed, less)
    BY DEF Answerable
  <1>2. ASSUME m # <<>>
        PROVE  /\ \A less \in SUBSET inbox : Answerable(Tail(m), owed, less)
               /\ IsResponse(Head(m)) =>
                     /\ Answerable(Tail(m), owed, inbox \cup {Head(m)})
                     /\ ~IsDuplicate(inbox, Head(m))
    <2> DEFINE t == Tail(m)
               h == Head(m)
    <2>1. /\ Fine(t) /\ Tos(t) \subseteq Tos(m) /\ h.ok
          /\ IsResponse(h) => h.to \in Tos(m) /\ h.to \notin Tos(t)
      BY <1>2, ReadMessages DEF Answerable
    <2> HIDE DEF t, h
    <2>2. \A less \in SUBSET inbox : Answerable(t, owed, less)
      BY <2>1 DEF Answerable
    <2>3. IsResponse(h) => Answerable(t, owed, inbox \cup {h}) /\ ~IsDuplicate(inbox, h)
      BY <2>1 DEF Answerable, IsDuplicate, Buffered
    <2> QED BY <2>2, <2>3 DEF t, h
  <1> QED BY <1>1, <1>2

\* A step is in progress with its execution, at the adapter k.
Busy(k) ==
    /\ k = exec.adapter /\ Has /\ op.todo # <<>>
    /\ Connected(exec, op, adapters[k], targets[k])
    /\ Planned(op, exec) /\ Framed(op, exec, view)

LEMMA BusyStep ==
  ASSUME Typed, CInv, NEW k, Busy(k)
  PROVE  /\ op \in Operations /\ exec \in Executions
         /\ op.todo \in Seq(Steps) /\ Current \in Steps /\ Ahead(op) = Current.command
         /\ \A c : At(c) <=> Current.command = c
         /\ Current.command \in Alphabet(op) /\ op.name # "idle" /\ ~op.failing
         /\ k \in DOMAIN adapters /\ adapters[k].open
         /\ adapters[k].messages \in Seq(Messages)
         /\ adapters[k].requests \in Seq(RequestRecords)
         /\ Shaped(op, Goal(op, applied))
  <1>1. op \in Operations /\ exec \in Executions
    BY DEF Typed, Operates, ExecutionTyped
  <1>2. /\ op.todo \in Seq(Steps) /\ Current \in Steps /\ \A c : At(c) <=> Current.command = c
        /\ Current.command \in Alphabet(op) /\ op.name # "idle"
    BY <1>1, HeadBelongs DEF Busy, CInv
  <1>3. Ahead(op) = Current.command /\ ~op.failing
    BY DEF Busy, Ahead, Current, Planned
  <1>4. k \in DOMAIN adapters /\ adapters[k].open /\ AdaptersTyped
    BY DEF Typed, ExecutionTyped, Busy
  <1>5. adapters[k].messages \in Seq(Messages) /\ adapters[k].requests \in Seq(RequestRecords)
    BY <1>4, AdapterTypes
  <1> QED BY <1>1, <1>2, <1>3, <1>4, <1>5 DEF CInv

\* The steps that no message and no decision of their own ends.
Special == {"launch", "outcome", "disconnect", "prepare", "release", "close", "complete", "unreadable"}

LEMMA PlannedOn ==
  ASSUME Typed, Typed', CInv, CInv', NEW k, Busy(k), Goes(op', Tail(op.todo)),
         op'.stale = op.stale, exec'.state = exec.state, exec'.adapter = exec.adapter,
         exec'.thread = exec.thread \/ exec'.thread = 1,
         Current.command = "threads" => exec'.thread = 1,
         Current.command \in Resumptions \cup {"configurationDone"} => op.waits # NoRequest,
         Current.command = "stable" => exec.state # "Running",
         Current.command = "initialized" => exec.state = "Configuring",
         Current.command \notin Special
  PROVE  Planned(op', exec') /\ Ahead(op') \in Then(op.name, Current.command)
  <1> DEFINE c == Current.command
             d == Ahead(op')
  <1>1. /\ op.todo \in Seq(Steps) /\ Ahead(op) = c /\ c \in Alphabet(op) /\ op \in Operations
        /\ op.name # "idle" /\ ~op.failing /\ op.todo # <<>>
    BY BusyStep DEF Busy
  <1>2. op'.todo = Tail(op.todo) /\ op'.name = op.name /\ op'.failing = op.failing
        /\ op'.waits = NoRequest
    BY DEF Goes, SameCall
  <1>3. Chained(op') /\ d \in Then(op.name, c)
    <2>1. Chained(op)
      BY DEF Busy, Planned
    <2> QED BY <1>1, <1>2, <2>1, NextAhead
  <1>4. exec.state \in Where(op.name, c, op.waits # NoRequest)
    BY <1>1 DEF Busy, Planned
  <1>5. /\ c = "initialized" => op.name # "sync"
        /\ c \in {"scopes", "variables"} => op.name \in {"find", "locals"}
    BY <1>1, Letters
  <1> HIDE DEF c, d
  <1>6. exec.state \in Where(op.name, d, FALSE)
    <2>1. c \notin {"launch", "outcome", "disconnect", "prepare", "release", "close", "complete",
                   "unreadable"}
      BY DEF Special, c
    <2>2. /\ c \in Resumptions \cup {"configurationDone"} => op.waits # NoRequest
          /\ c = "stable" => exec.state # "Running"
          /\ c = "initialized" => exec.state = "Configuring"
      BY DEF c
    <2> QED BY <1>3, <1>4, <1>5, <2>1, <2>2, WhereAdvances
  <1>7. ASSUME d \in {"window", "stackTrace", "condition", "done"}
        PROVE  exec'.thread # NoThread
    <2>1. \/ c = "threads"
          \/ c \in {"window", "stackTrace", "condition"}
          \/ c \in Changes /\ op.name = "sync"
          \/ c \in {"scopes", "variables"}
      <3>1. c \notin {"launch", "outcome", "disconnect", "prepare", "release", "close", "complete",
                     "unreadable"}
        BY DEF Special, c
      <3>2. CASE c \in Changes
        <4>1. d \in Changes \cup {IF op.name = "sync" THEN "done" ELSE "configurationDone"}
          BY <1>3, <3>2 DEF Then, Changes, Resumptions
        <4> QED BY <1>7, <3>2, <4>1 DEF Changes
      <3>3. CASE c = "initialized"
        <4>1. d \in Changes \cup {IF op.name = "sync" THEN "done" ELSE "configurationDone"}
          BY <1>3, <3>3 DEF Then, Changes, Resumptions
        <4> QED BY <1>5, <1>7, <3>3, <4>1 DEF Changes
      <3>4. CASE c \notin Changes \cup {"initialized"}
        BY <1>3, <1>7, <3>1, <3>4 DEF Then, Changes, Resumptions
      <3> QED BY <3>2, <3>3, <3>4
    <2>2. CASE c = "threads"
      BY <2>2 DEF c, NoThread
    <2>3. CASE c \in {"window", "stackTrace", "condition"}
      <3>1. exec.thread # NoThread
        BY <1>1, <2>3 DEF Busy, Planned, c
      <3> QED BY <3>1 DEF NoThread
    <2>4. CASE op.name \in {"sync", "find", "locals"} /\ c \in Changes \cup {"scopes", "variables"}
      <3>1. LooksAt(op')
        BY <1>1, <1>2, <2>4 DEF LooksAt
      <3>2. InReach(exec')
        BY <3>1 DEF CInv, Reached
      <3>3. exec'.state = "Stopped"
        <4>1. exec.state = "Stopped"
          BY <1>4, <2>4, <1>1, Letters DEF Where, Changes, Resumptions, c
        <4> QED BY <4>1
      <3> QED BY <3>2, <3>3 DEF InReach
    <2> QED BY <1>5, <2>1, <2>2, <2>3, <2>4
  <1>8. op'.name \in {"find", "locals"} => ~op'.stale
    BY <1>2 DEF Busy, Planned
  <1>9. Planned(op', exec')
    BY <1>1, <1>2, <1>3, <1>6, <1>7, <1>8 DEF Planned, d
  <1> QED BY <1>3, <1>9 DEF c, d

LEMMA FramedOn ==
  ASSUME NEW k, Busy(k), SameCall(op'), UNCHANGED view,
         exec'.state = exec.state, exec'.windows = exec.windows, exec'.frames = exec.frames,
         exec'.whole = exec.whole, Ahead(op') # "stackTrace",
         op.name \in {"launch", "resume"} /\ Ahead(op') \in {"condition", "done"} =>
            exec.frames >= 1
  PROVE  Framed(op', exec', view')
  BY DEF Busy, Framed, SameCall

\* The adapter is heard: one response or none is read.
LEMMA ConnectedOn ==
  ASSUME Typed, CInv, NEW k, Busy(k), Current.command \notin {"disconnect", "release", "close"},
         exec'.state = exec.state, adapters'[k].requests = adapters[k].requests,
         adapters'[k].exit = adapters[k].exit,
         \/ adapters'[k].messages = adapters[k].messages /\ exec'.inbox \subseteq exec.inbox
         \/ /\ adapters[k].messages # <<>> /\ IsResponse(Head(adapters[k].messages))
            /\ adapters'[k].messages = Tail(adapters[k].messages)
            /\ exec'.inbox \subseteq exec.inbox \cup {Head(adapters[k].messages)},
         Outstanding(adapters[k].requests, op', exec.state)
  PROVE  Connected(exec', op', adapters'[k], targets[k])
  <1> DEFINE m == adapters[k].messages
             n == adapters'[k].messages
             h == Head(adapters[k].messages)
             owed == targets[k].owed
             wide == exec.inbox \cup {h}
  <1>1. /\ m \in Seq(Messages) /\ Answerable(m, owed, exec.inbox) /\ Silent(owed)
        /\ IsUp(adapters[k]) /\ Known(exec.state, adapters[k].requests, m, targets[k].program)
    BY BusyStep DEF Busy, Connected
  <1>2. IsUp(adapters'[k])
    BY <1>1 DEF IsUp
  <1> HIDE DEF m, h, owed
  <1>3. /\ Answerable(n, owed, exec'.inbox)
        /\ Known(exec.state, adapters[k].requests, n, targets[k].program)
    <2>1. CASE n = m /\ exec'.inbox \subseteq exec.inbox
      <3>1. Answerable(m, owed, exec'.inbox)
        BY <1>1, <2>1, AnswerableRead
      <3> QED BY <1>1, <2>1, <3>1
    <2>2. CASE /\ m # <<>> /\ IsResponse(Head(m)) /\ n = Tail(m)
               /\ exec'.inbox \subseteq exec.inbox \cup {Head(m)}
      <3>1. Answerable(Tail(m), owed, exec.inbox \cup {Head(m)})
        BY <1>1, <2>2, AnswerableRead
      <3>2. Answerable(Tail(m), owed, exec'.inbox)
        BY <2>2, <3>1 DEF Answerable
      <3>3. Known(exec.state, adapters[k].requests, Tail(m), targets[k].program)
        <4>1. Fine(m)
          BY <1>1 DEF Answerable
        <4> QED BY <1>1, <2>2, <4>1, KnownRead
      <3> QED BY <2>2, <3>2, <3>3
    <2> QED BY <2>1, <2>2 DEF m
  <1> QED BY <1>1, <1>2, <1>3 DEF Connected, owed

\* No request is on its way when the response that is awaited is there.
LEMMA AnsweredIsEmpty ==
  ASSUME Typed, CInv, NEW k, Busy(k), Current.command # "initialized",
         \/ op.waits = NoRequest
         \/ \E r \in Heard(k) \cup exec.inbox : IsResponse(r) /\ r.to = op.waits,
         Current.command \notin {"disconnect", "release", "close"}
  PROVE  adapters[k].requests = <<>>
  <1> SUFFICES ASSUME adapters[k].requests # <<>> PROVE FALSE
    OBVIOUS
  <1>1. adapters[k].requests \in Seq(RequestRecords) /\ Ahead(op) = Current.command /\ k = exec.adapter /\ Has
    BY BusyStep DEF Busy
  <1>2. 1 \in DOMAIN adapters[k].requests /\ Head(adapters[k].requests) = adapters[k].requests[1]
    <2> HIDE DEF RequestRecords
    <2> QED BY <1>1, TailSteps
  <1>3. op.waits # NoRequest /\ adapters[k].requests[1].seq = op.waits
    BY <1>1, <1>2 DEF Busy, Connected, Outstanding
  <1>4. /\ \A m \in Heard(k) : IsResponse(m) => m.to # op.waits
        /\ \A m \in exec.inbox : m.to # op.waits
    BY <1>1, <1>2, <1>3, NoneAnswered DEF CInv
  <1> QED BY <1>3, <1>4

\* What stays clean.
LEMMA StaysClean ==
  ASSUME IInv, Clean, Has, UNCHANGED <<prep, answer>>, NEW k, k = exec.adapter,
         exec'.adapter = k, targets'[k] = targets[k],
         Connected(exec', op', adapters'[k], targets[k]), Planned(op', exec'),
         Framed(op', exec', view')
  PROVE  Clean'
  <1>1. prep.status = "none"
    BY DEF IInv, OneAtATime, NoPreparation
  <1>2. Connected(exec', op', adapters'[exec'.adapter], targets'[exec'.adapter])
    OBVIOUS
  <1> QED BY <1>1, <1>2 DEF Clean

\* The execution as it is, whatever waits in the inbox.
Mirror(x) == Twin(x) /\ x.frames = exec.frames

\* The adapter of k is heard, with no more in the inbox of x than there was.
Hears(k, x) ==
    /\ adapters'[k].requests = adapters[k].requests /\ adapters'[k].exit = adapters[k].exit
    /\ x.inbox \subseteq exec.inbox
    /\ \/ adapters'[k].messages = adapters[k].messages
       \/ /\ adapters[k].messages # <<>> /\ IsResponse(Head(adapters[k].messages))
          /\ adapters'[k].messages = Tail(adapters[k].messages)

Carries(k) ==
    Connected(exec', op', adapters'[k], targets[k]) /\ Planned(op', exec')
    /\ Framed(op', exec', view')

LEMMA ConfiguredFrames ==
  ASSUME NEW x \in Executions, NEW s
  PROVE  Configured(x, s).frames = x.frames
  <1>1. CASE s.command = "evaluate" /\ s.on = "set"
    BY <1>1 DEF Executions, Configured
  <1>2. CASE s.command = "evaluate" /\ s.on = "enable"
    BY <1>2 DEF Executions, Configured
  <1>3. CASE s.command = "evaluate" /\ s.on = "disable"
    BY <1>3 DEF Executions, Configured
  <1>4. CASE s.command = "evaluate" /\ s.on = "delete"
    BY <1>4 DEF Executions, Configured
  <1>5. CASE ~(s.command = "evaluate" /\ s.on \in {"set", "enable", "disable", "delete"})
    BY <1>5 DEF Executions, Configured
  <1> QED BY <1>1, <1>2, <1>3, <1>4, <1>5

\* A response that is awaited and says yes.
LEMMA MatchGoesWell ==
  ASSUME Typed, CInv, NEW k, Busy(k), NEW x, Mirror(x), NEW r, r.ok, Waiting, Awaits # NoRequest,
         Match(x, r)
  PROVE  LET c == Current.command IN
         \/ c = "disconnect" /\ exec' = Finished(x) /\ op' = Advanced
         \/ c = "initialized" /\ exec' = x /\ op' = [op EXCEPT !.launched = TRUE]
         \/ c = "threads" /\ exec' = [x EXCEPT !.thread = 1] /\ op' = Advanced
         \/ /\ c = "stackTrace" /\ op' = Advanced
            /\ exec' = [x EXCEPT !.windows = @ \cup {op.page}, !.frames = op.page + 1,
                                 !.whole = ~r.full]
         \/ /\ c \in {"scopes", "variables"} /\ op' = Advanced
            /\ exec' = [x EXCEPT !.read = @ \cup {Current.command}]
         \/ /\ c = "condition" /\ exec' = x
            /\ \/ op' = Advanced
               \/ op' = Follow(<<Step("continue"), Step("stable"), Step("outcome")>>)
         \/ c \in Changes /\ exec' = Configured(x, Current) /\ op' = Looked
         \/ /\ c \in Resumptions \cup {"configurationDone", "launched"}
            /\ c # "launched" => op.waits # NoRequest
            /\ exec' = x /\ op' = Advanced
  <1> DEFINE c == Current.command
             state == exec.state
  <1>1. /\ op \in Operations /\ exec \in Executions /\ Ahead(op) = c
        /\ \A d : At(d) <=> c = d
        /\ c \in Alphabet(op) /\ Shaped(op, Goal(op, applied))
    BY BusyStep
  <1>2. /\ x.state = state /\ x.frames = exec.frames /\ x.windows = exec.windows
    BY DEF Mirror, Twin
  <1>3. c \in Awaited \cup {"initialized", "launched"} /\ (c \notin {"initialized", "launched"} => op.waits # NoRequest)
    <2>1. op.waits # NoRequest => c \in Awaited
      BY DEF Shaped, Expects, CInv, Current
    <2>2. ~At("stable")
      BY DEF Awaits
    <2> QED BY <1>1, <2>1, <2>2 DEF Waiting
  <1>4. state \in Where(op.name, c, op.waits # NoRequest)
    BY <1>1 DEF Busy, Planned
  <1>5. c \in {"threads", "stackTrace", "scopes", "variables"} => x.state = "Stopped"
    BY <1>2, <1>4 DEF Where, Changes, Resumptions
  <1>6. c = "stackTrace" => FitsStack(x)
    <2> SUFFICES ASSUME c = "stackTrace" PROVE FitsStack(x)
      OBVIOUS
    <2>1. op.page = exec.frames /\ exec.windows = 0 .. exec.frames - 1 /\ exec.frames \in Nat
      BY <1>1, <1>2, <1>5 DEF Busy, Framed, Executions
    <2> QED BY <1>2, <1>5, <2>1 DEF FitsStack
  <1>7. c \in {"scopes", "variables"} => StillThere
    <2> SUFFICES ASSUME c \in {"scopes", "variables"} PROVE StillThere
      OBVIOUS
    <2>1. op.name \in {"find", "locals"}
      BY <1>1, Letters
    <2> QED BY <1>2, <1>5, <2>1 DEF StillThere, Busy, Planned
  <1>8. \/ At("disconnect") /\ exec' = Finished(x) /\ op' = Advanced
        \/ At("initialized") /\ exec' = x /\ op' = [op EXCEPT !.launched = TRUE]
        \/ At("threads") /\ exec' = [x EXCEPT !.thread = 1] /\ op' = Advanced
        \/ /\ At("stackTrace") /\ op' = Advanced
           /\ exec' = [x EXCEPT !.windows = @ \cup {op.page}, !.frames = op.page + 1,
                                !.whole = ~r.full]
        \/ /\ Current.command \in {"scopes", "variables"}
           /\ exec' = [x EXCEPT !.read = @ \cup {Current.command}] /\ op' = Advanced
        \/ Current.command \in {"scopes", "variables"} /\ ~r.ok
        \/ /\ At("condition") /\ exec' = x
           /\ op' \in {Advanced}
                      \cup IF r.ok /\ StillThere
                           THEN {Follow(<<Step("continue"), Step("stable"),
                                          Step("outcome")>>)}
                           ELSE {}
        \/ /\ Current.command \in Changes
           /\ exec' = Configured(x, Current) /\ op' = Looked
        \/ /\ Current.command \in Resumptions \cup {"configurationDone", "launched"}
           /\ exec' = x /\ op' = Advanced
        \/ /\ ~At("disconnect") /\ ~(At("initialized") /\ r.ok)
           /\ ~(At("threads") /\ r.ok /\ x.state = "Stopped")
           /\ ~(At("stackTrace") /\ r.ok /\ FitsStack(x))
           /\ ~(Current.command \in {"scopes", "variables"} /\ StillThere /\ r.ok)
           /\ ~At("condition")
           /\ ~(Current.command \in Changes /\ (r.ok \/ LooksUp(Current)))
           /\ ~(Current.command \in Resumptions \cup {"configurationDone", "launched"} /\ r.ok)
    BY ZenonT(60) DEF Match
  <1>9. ~(/\ ~At("disconnect") /\ ~(At("initialized") /\ r.ok)
           /\ ~(At("threads") /\ r.ok /\ x.state = "Stopped")
           /\ ~(At("stackTrace") /\ r.ok /\ FitsStack(x))
           /\ ~(Current.command \in {"scopes", "variables"} /\ StillThere /\ r.ok)
           /\ ~At("condition")
           /\ ~(Current.command \in Changes /\ (r.ok \/ LooksUp(Current)))
           /\ ~(Current.command \in Resumptions \cup {"configurationDone", "launched"} /\ r.ok))
    BY <1>1, <1>3, <1>5, <1>6, <1>7 DEF Awaited, Changes
  <1>10. ASSUME op' \in {Advanced}
                        \cup IF r.ok /\ StillThere
                             THEN {Follow(<<Step("continue"), Step("stable"),
                                            Step("outcome")>>)}
                             ELSE {}
         PROVE  op' = Advanced \/ op' = Follow(<<Step("continue"), Step("stable"), Step("outcome")>>)
    BY <1>10
  <1>11. c \in Resumptions \cup {"configurationDone"} => op.waits # NoRequest
    BY <1>3 DEF Resumptions
  <1> QED BY <1>1, <1>8, <1>9, <1>10, <1>11

\* A step that is repeated or goes on as it was.
LEMMA StaysPlanned ==
  ASSUME NEW k, Busy(k), SameCall(op'), op'.todo = op.todo, op'.waits = op.waits,
         op'.stale = op.stale, UNCHANGED view,
         exec'.state = exec.state, exec'.thread = exec.thread, exec'.windows = exec.windows,
         exec'.frames = exec.frames, exec'.whole = exec.whole
  PROVE  Planned(op', exec') /\ Framed(op', exec', view') /\ Ahead(op') = Ahead(op)
  <1>1. Ahead(op') = Ahead(op) /\ (Chained(op) => Chained(op'))
    BY DEF SameCall, Ahead, Chained
  <1> QED BY <1>1 DEF Busy, Planned, Framed, SameCall

\* The program is disconnected.
LEMMA DisconnectCarries ==
  ASSUME Typed, CInv, NEW k, Busy(k), At("disconnect"), exec'.state = "Exited",
         exec'.frames = exec.frames, Goes(op', Tail(op.todo)), op'.stale = op.stale,
         UNCHANGED view
  PROVE  Carries(k)
  <1>1. /\ op.todo \in Seq(Steps) /\ op.todo # <<>> /\ Ahead(op) = "disconnect" /\ Chained(op)
    BY BusyStep DEF Busy, Planned
  <1>2. op'.todo = Tail(op.todo) /\ op'.name = op.name /\ op'.failing = op.failing
    BY DEF Goes, SameCall
  <1>3. Chained(op') /\ Ahead(op') \in Then(op.name, "disconnect")
    BY <1>1, <1>2, NextAhead
  <1>4. Ahead(op') \in {"release", "close"}
    BY <1>3 DEF Then, Changes, Resumptions
  <1>5. Planned(op', exec')
    BY <1>2, <1>3, <1>4 DEF Planned, Where, Changes, Resumptions, Busy
  <1>6. Framed(op', exec', view')
    BY <1>2, <1>4 DEF Framed, Busy
  <1> QED BY <1>4, <1>5, <1>6 DEF Carries, Connected

\* The step is passed, at the same stop.
LEMMA PassedCarries ==
  ASSUME Typed, Typed', CInv, CInv', NEW k, Busy(k), NEW x, Mirror(x), Hears(k, x),
         Goes(op', Tail(op.todo)), op'.stale = op.stale, UNCHANGED view,
         exec'.inbox = x.inbox, exec'.state = x.state, exec'.adapter = x.adapter,
         exec'.thread = x.thread \/ exec'.thread = 1,
         Current.command = "threads" => exec'.thread = 1,
         Current.command \in Resumptions \cup {"configurationDone"} => op.waits # NoRequest,
         Current.command = "stable" => exec.state # "Running",
         Current.command = "initialized" => exec.state = "Configuring",
         Current.command \notin Special, adapters[k].requests = <<>>
  PROVE  /\ Connected(exec', op', adapters'[k], targets[k]) /\ Planned(op', exec')
         /\ Ahead(op') \in Then(op.name, Current.command)
         /\ /\ exec'.windows = x.windows /\ exec'.frames = x.frames /\ exec'.whole = x.whole
            /\ op.name \in {"launch", "resume"} /\ Ahead(op') \in {"condition", "done"} =>
                  exec.frames >= 1
            => Framed(op', exec', view')
  <1>1. /\ exec'.state = exec.state /\ exec'.adapter = exec.adapter
        /\ exec'.thread = exec.thread \/ exec'.thread = 1
        /\ x.windows = exec.windows /\ x.frames = exec.frames /\ x.whole = exec.whole
    BY DEF Mirror, Twin
  <1>2. Planned(op', exec') /\ Ahead(op') \in Then(op.name, Current.command)
    BY <1>1, PlannedOn
  <1>3. Outstanding(adapters[k].requests, op', exec.state)
    <2>1. Len(<<>>) <= 1
      OBVIOUS
    <2> QED BY <2>1 DEF Outstanding
  <1>4. Connected(exec', op', adapters'[k], targets[k])
    <2>1. Current.command \notin {"disconnect", "release", "close"}
      BY DEF Special
    <2> QED BY <1>1, <1>3, <2>1, ConnectedOn DEF Hears
  <1>5. Ahead(op') # "stackTrace"
    BY <1>2 DEF Then, Changes, Resumptions
  <1>6. SameCall(op')
    BY DEF Goes
  <1>7. /\ exec'.windows = x.windows /\ exec'.frames = x.frames /\ exec'.whole = x.whole
        /\ op.name \in {"launch", "resume"} /\ Ahead(op') \in {"condition", "done"} =>
              exec.frames >= 1
        => Framed(op', exec', view')
    BY <1>1, <1>5, <1>6, FramedOn
  <1> QED BY <1>2, <1>4, <1>7

LEMMA GoesStale ==
  ASSUME op \in Operations
  PROVE  /\ Advanced.stale = op.stale /\ \A todo : Follow(todo).stale = op.stale
         /\ [op EXCEPT !.launched = TRUE].stale = op.stale
         /\ \A n : [op EXCEPT !.waits = n, !.stale = FALSE].stale = FALSE
         /\ \A n : [Advanced EXCEPT !.launch = n].stale = op.stale
  BY DEF Operations, Advanced, Follow

\* A family is looked up once it is set.
LEMMA LookedCarries ==
  ASSUME Typed, CInv, NEW k, Busy(k), NEW x, Mirror(x), Hears(k, x), Current.command = "evaluate",
         NEW h \in Steps, h.command = "evaluate", Goes(op', <<h>> \o Tail(op.todo)),
         op'.stale = op.stale, UNCHANGED view,
         exec'.inbox = x.inbox, exec'.state = x.state, exec'.thread = x.thread,
         exec'.windows = x.windows, exec'.frames = x.frames, exec'.whole = x.whole,
         adapters[k].requests = <<>>
  PROVE  Carries(k)
  <1>1. /\ op.todo \in Seq(Steps) /\ op.todo # <<>> /\ Ahead(op) = "evaluate" /\ Chained(op)
    BY BusyStep DEF Busy, Planned
  <1>2. op'.todo = <<h>> \o Tail(op.todo) /\ op'.name = op.name /\ op'.failing = op.failing
    BY DEF Goes, SameCall
  <1>3. Chained(op') /\ Ahead(op') = "evaluate"
    BY <1>1, <1>2, InsteadAhead
  <1>4. exec'.state = exec.state /\ exec'.thread = exec.thread /\ exec'.windows = exec.windows
        /\ exec'.frames = exec.frames /\ exec'.whole = exec.whole
    BY DEF Mirror, Twin
  <1>5. Planned(op', exec')
    BY <1>1, <1>2, <1>3, <1>4 DEF Planned, Where, Changes, Resumptions, Busy
  <1>6. Framed(op', exec', view')
    BY <1>1, <1>2, <1>3, <1>4 DEF Framed, Busy
  <1>7. Outstanding(adapters[k].requests, op', exec.state)
    <2>1. Len(<<>>) <= 1
      OBVIOUS
    <2> QED BY <2>1 DEF Outstanding
  <1>8. Connected(exec', op', adapters'[k], targets[k])
    BY <1>4, <1>7, ConnectedOn DEF Hears
  <1> QED BY <1>5, <1>6, <1>8 DEF Carries

LEMMA MatchCarries ==
  ASSUME Typed, Typed', CInv, CInv', NEW k, Busy(k), NEW x, Mirror(x), Hears(k, x), Alike(x),
         NEW r \in Messages, Given(r), r.ok, r.to = Awaits, Waiting, Awaits # NoRequest,
         Match(x, r), UNCHANGED view
  PROVE  Carries(k)
  <1> DEFINE c == Current.command
  <1>1. /\ op \in Operations /\ exec \in Executions /\ Ahead(op) = c /\ op.todo \in Seq(Steps)
        /\ op.todo # <<>> /\ \A d : At(d) <=> c = d
        /\ c \in Alphabet(op) /\ k = exec.adapter /\ Current \in Steps
    BY BusyStep DEF Busy
  <1>2. /\ x \in Executions /\ x.state = exec.state /\ x.adapter = exec.adapter
        /\ x.thread = exec.thread /\ x.windows = exec.windows /\ x.frames = exec.frames
        /\ x.whole = exec.whole
    BY DEF Mirror, Twin
  <1>3. exec'.inbox = x.inbox
    BY <1>2, SameInbox
  <1>4. /\ Goes(Advanced, Tail(op.todo)) /\ \A todo : Goes(Follow(todo), todo)
        /\ SameCall([op EXCEPT !.launched = TRUE])
        /\ [op EXCEPT !.launched = TRUE].todo = op.todo
        /\ [op EXCEPT !.launched = TRUE].waits = op.waits
        /\ Advanced.stale = op.stale /\ \A todo : Follow(todo).stale = op.stale
        /\ [op EXCEPT !.launched = TRUE].stale = op.stale
    BY <1>1, CallsGoOn, CallsStay, GoesStale
  <1>5. exec.state \in Where(op.name, c, op.waits # NoRequest)
    BY <1>1 DEF Busy, Planned
  <1>6. c \notin {"initialized", "disconnect", "release", "close"} => adapters[k].requests = <<>>
    <2> SUFFICES ASSUME c \notin {"initialized", "disconnect", "release", "close"}
                 PROVE  adapters[k].requests = <<>>
      OBVIOUS
    <2>1. c # "launched" => Awaits = op.waits
      BY <1>1 DEF Awaits
    <2>2. c = "launched" => op.waits = NoRequest
      BY <1>1 DEF CInv, Shaped, Expects, Awaited, Resumptions, Current
    <2>3. \/ op.waits = NoRequest
          \/ \E m \in Heard(k) \cup exec.inbox : IsResponse(m) /\ m.to = op.waits
      BY <1>1, <2>1, <2>2 DEF Given
    <2> QED BY <2>3, AnsweredIsEmpty
  <1>7. CASE c = "disconnect" /\ exec' = Finished(x) /\ op' = Advanced
    <2>1. exec.state = "Stopped"
      BY <1>5, <1>7 DEF Where, Changes, Resumptions
    <2>2. exec'.state = "Exited" /\ exec'.frames = exec.frames
      BY <1>2, <1>7, <2>1 DEF Finished, Executions
    <2> QED BY <1>1, <1>4, <1>7, <2>2, DisconnectCarries
  <1>8. CASE c = "initialized" /\ exec' = x /\ op' = [op EXCEPT !.launched = TRUE]
    <2>1. Planned(op', exec') /\ Framed(op', exec', view') /\ Ahead(op') = Ahead(op)
      BY <1>2, <1>4, <1>8, StaysPlanned
    <2>2. Outstanding(adapters[k].requests, op', exec.state)
      BY <1>1, <1>4, <1>8, <2>1 DEF Busy, Connected, Outstanding
    <2>3. Connected(exec', op', adapters'[k], targets[k])
      BY <1>2, <1>3, <1>8, <2>2, ConnectedOn DEF Hears
    <2> QED BY <2>1, <2>3 DEF Carries
  <1>9. ASSUME op' = Advanced, exec'.state = x.state, exec'.adapter = x.adapter,
               exec'.thread = x.thread \/ exec'.thread = 1, c = "threads" => exec'.thread = 1,
               c \in {"threads", "stackTrace", "scopes", "variables", "condition",
                      "configurationDone", "launched"} \cup Changes \cup Resumptions,
               c \in Resumptions \cup {"configurationDone"} => op.waits # NoRequest
        PROVE  /\ Connected(exec', op', adapters'[k], targets[k]) /\ Planned(op', exec')
               /\ Ahead(op') \in Then(op.name, c)
               /\ /\ exec'.windows = x.windows /\ exec'.frames = x.frames /\ exec'.whole = x.whole
                  /\ op.name \in {"launch", "resume"} /\ Ahead(op') \in {"condition", "done"} =>
                        exec.frames >= 1
                  => Framed(op', exec', view')
    <2>1. /\ c \notin Special /\ c \notin {"stable", "initialized"}
          /\ adapters[k].requests = <<>>
      BY <1>6, <1>9 DEF Special, Changes, Resumptions
    <2> QED BY <1>3, <1>4, <1>9, <2>1, PassedCarries
  <1>10. CASE c = "threads" /\ exec' = [x EXCEPT !.thread = 1] /\ op' = Advanced
    <2>1. /\ exec'.state = x.state /\ exec'.adapter = x.adapter /\ exec'.thread = 1
          /\ exec'.windows = x.windows /\ exec'.frames = x.frames /\ exec'.whole = x.whole
      BY <1>2, <1>10 DEF Executions
    <2>2. Ahead(op') = "window"
      BY <1>9, <1>10, <2>1 DEF Then, Changes, Resumptions
    <2> QED BY <1>9, <1>10, <2>1, <2>2 DEF Carries, Resumptions
  <1>11. CASE /\ c = "stackTrace" /\ op' = Advanced
              /\ exec' = [x EXCEPT !.windows = @ \cup {op.page}, !.frames = op.page + 1,
                                   !.whole = ~r.full]
    <2>1. /\ exec'.state = x.state /\ exec'.adapter = x.adapter /\ exec'.thread = x.thread
          /\ exec'.windows = x.windows \cup {op.page} /\ exec'.frames = op.page + 1
      BY <1>2, <1>11 DEF Executions
    <2>2. /\ Connected(exec', op', adapters'[k], targets[k]) /\ Planned(op', exec')
          /\ Ahead(op') \in Then(op.name, c)
      BY <1>9, <1>11, <2>1 DEF Resumptions
    <2>3. exec.state = "Stopped"
      BY <1>5, <1>11 DEF Where, Changes, Resumptions
    <2>4. op.page = exec.frames /\ exec.frames \in Nat /\ exec.windows = 0 .. exec.frames - 1
      BY <1>1, <1>11, <2>3 DEF Busy, Framed, Executions
    <2>5. exec'.windows = 0 .. exec'.frames - 1 /\ exec'.frames >= 1
      BY <1>2, <2>1, <2>4
    <2>6. Ahead(op') # "stackTrace"
      BY <1>11, <2>2 DEF Then, Changes, Resumptions
    <2>7. Framed(op', exec', view')
      BY <2>5, <2>6 DEF Framed
    <2> QED BY <2>2, <2>7 DEF Carries
  <1>12. CASE /\ c \in {"scopes", "variables"} /\ op' = Advanced
              /\ exec' = [x EXCEPT !.read = @ \cup {Current.command}]
    <2>1. /\ exec'.state = x.state /\ exec'.adapter = x.adapter /\ exec'.thread = x.thread
          /\ exec'.windows = x.windows /\ exec'.frames = x.frames /\ exec'.whole = x.whole
      BY <1>2, <1>12 DEF Executions
    <2>2. op.name \in {"find", "locals"}
      BY <1>1, <1>12, Letters
    <2>3. c # "threads" /\ c \notin Resumptions \cup {"configurationDone"}
      BY <1>12 DEF Resumptions
    <2> QED BY <1>9, <1>12, <2>1, <2>2, <2>3 DEF Carries
  <1>13. CASE c = "condition" /\ exec' = x /\ op' = Advanced
    <2>1. op.name \in {"launch", "resume"}
      BY <1>1, <1>13, Letters
    <2>2. exec.frames >= 1
      BY <1>1, <1>13, <2>1 DEF Busy, Framed
    <2> QED BY <1>9, <1>13, <2>2 DEF Carries, Resumptions
  <1>14. CASE /\ c = "condition" /\ exec' = x
              /\ op' = Follow(<<Step("continue"), Step("stable"), Step("outcome")>>)
    <2>1. /\ Goes(op', <<Step("continue"), Step("stable"), Step("outcome")>>)
          /\ op'.stale = op.stale
      BY <1>4, <1>14
    <2>2. /\ op'.todo = <<Step("continue"), Step("stable"), Step("outcome")>>
          /\ op'.name = op.name /\ op'.failing = op.failing /\ op'.waits = NoRequest
      BY <2>1 DEF Goes, SameCall
    <2>3. Chained(op') /\ Ahead(op') = "continue"
      <3>1. /\ "stable" \in Then(op'.name, "continue") /\ "outcome" \in Then(op'.name, "stable")
            /\ "done" \in Then(op'.name, "outcome")
        BY DEF Then, Changes, Resumptions
      <3> QED BY <2>2, <3>1, ShortChains
    <2>4. exec.state = "Stopped" /\ ~op.failing
      BY <1>1, <1>5, <1>14 DEF Where, Changes, Resumptions, Busy, Planned
    <2>5. Planned(op', exec')
      BY <1>2, <1>14, <2>1, <2>2, <2>3, <2>4 DEF Planned, Where, Changes, Resumptions, Busy
    <2>6. Framed(op', exec', view')
      BY <1>2, <1>14, <2>2, <2>3 DEF Framed, Busy
    <2>7. Outstanding(adapters[k].requests, op', exec.state)
      <3>1. Len(<<>>) <= 1 /\ adapters[k].requests = <<>>
        BY <1>6, <1>14
      <3> QED BY <3>1 DEF Outstanding
    <2>8. Connected(exec', op', adapters'[k], targets[k])
      BY <1>2, <1>14, <2>7, ConnectedOn DEF Hears
    <2> QED BY <2>5, <2>6, <2>8 DEF Carries
  <1>15. CASE c \in Changes /\ exec' = Configured(x, Current) /\ op' = Looked
    <2>1. /\ exec'.state = x.state /\ exec'.adapter = x.adapter /\ exec'.thread = x.thread
          /\ exec'.windows = x.windows /\ exec'.frames = x.frames /\ exec'.whole = x.whole
      BY <1>2, <1>15, ConfiguredFields, ConfiguredFrames
    <2>2. CASE op' = Advanced
      <3>1. /\ Connected(exec', op', adapters'[k], targets[k]) /\ Planned(op', exec')
            /\ Ahead(op') \in Changes \cup {IF op.name = "sync" THEN "done" ELSE "configurationDone"}
        BY <1>9, <1>15, <2>1, <2>2 DEF Then, Changes, Resumptions
      <3>2. ~(op.name \in {"launch", "resume"} /\ Ahead(op') \in {"condition", "done"})
        BY <3>1 DEF Changes
      <3>3. Framed(op', exec', view')
        BY <1>9, <1>15, <2>1, <2>2, <3>2 DEF Changes, Resumptions
      <3> QED BY <3>1, <3>3 DEF Carries
    <2>3. CASE c = "evaluate" /\ op' = Follow(<<[Current EXCEPT !.on = "list"]>> \o Tail(op.todo))
      <3> DEFINE h == [Current EXCEPT !.on = "list"]
      <3>1. h \in Steps /\ h.command = "evaluate"
        BY <1>1, <2>3 DEF Steps, StepRecords, Objects
      <3>2. op' = Follow(<<h>> \o Tail(op.todo))
        BY <2>3
      <3> HIDE DEF h
      <3>3. Goes(op', <<h>> \o Tail(op.todo)) /\ op'.stale = op.stale
        BY <1>4, <3>2
      <3>4. adapters[k].requests = <<>> /\ Current.command = "evaluate"
        BY <1>6, <2>3
      <3> QED BY <1>3, <2>1, <3>1, <3>3, <3>4, LookedCarries
    <2> QED BY <1>15, <2>2, <2>3 DEF Looked
  <1>16. CASE /\ c \in Resumptions \cup {"configurationDone", "launched"}
              /\ c # "launched" => op.waits # NoRequest
              /\ exec' = x /\ op' = Advanced
    <2>1. c \notin {"threads", "launched"} \/ c = "launched"
      BY <1>16 DEF Resumptions
    <2>2. c # "threads" /\ ("launched" \notin Resumptions \cup {"configurationDone"})
      BY <1>16 DEF Resumptions
    <2>3. Ahead(op') \notin {"condition", "done"}
      <3>1. Ahead(op') \in Then(op.name, c)
        BY <1>9, <1>16, <2>2
      <3> QED BY <1>16, <3>1 DEF Then, Changes, Resumptions
    <2> QED BY <1>9, <1>16, <2>2, <2>3 DEF Carries
  <1> HIDE DEF c
  <1>17. \/ c = "disconnect" /\ exec' = Finished(x) /\ op' = Advanced
         \/ c = "initialized" /\ exec' = x /\ op' = [op EXCEPT !.launched = TRUE]
         \/ c = "threads" /\ exec' = [x EXCEPT !.thread = 1] /\ op' = Advanced
         \/ /\ c = "stackTrace" /\ op' = Advanced
            /\ exec' = [x EXCEPT !.windows = @ \cup {op.page}, !.frames = op.page + 1,
                                 !.whole = ~r.full]
         \/ /\ c \in {"scopes", "variables"} /\ op' = Advanced
            /\ exec' = [x EXCEPT !.read = @ \cup {Current.command}]
         \/ c = "condition" /\ exec' = x /\ op' = Advanced
         \/ /\ c = "condition" /\ exec' = x
            /\ op' = Follow(<<Step("continue"), Step("stable"), Step("outcome")>>)
         \/ c \in Changes /\ exec' = Configured(x, Current) /\ op' = Looked
         \/ /\ c \in Resumptions \cup {"configurationDone", "launched"}
            /\ c # "launched" => op.waits # NoRequest
            /\ exec' = x /\ op' = Advanced
    BY MatchGoesWell DEF c
  <1> QED BY <1>7, <1>8, <1>10, <1>11, <1>12, <1>13, <1>14, <1>15, <1>16, <1>17

\* What is waited for.
LEMMA WaitingStep ==
  ASSUME Typed, CInv, NEW k, Busy(k), Waiting
  PROVE  /\ Current.command \in Awaited \cup {"initialized", "launched", "stable"}
         /\ Current.command \notin {"release", "close"}
         /\ adapters[k].messages \in Seq(Messages)
         /\ Answerable(adapters[k].messages, targets[k].owed, exec.inbox) /\ Silent(targets[k].owed)
         /\ Outstanding(adapters[k].requests, op, exec.state)
         /\ \/ /\ IsUp(adapters[k])
               /\ Known(exec.state, adapters[k].requests, adapters[k].messages, targets[k].program)
            \/ /\ ~IsUp(adapters[k]) /\ targets[k].program = "gone" /\ Silent(adapters[k].messages)
               /\ Current.command = "disconnect" /\ op.waits # NoRequest
  <1>1. Ahead(op) = Current.command /\ (\A c : At(c) <=> Current.command = c)
        /\ adapters[k].messages \in Seq(Messages)
    BY BusyStep
  <1>2. Current.command \in Awaited \cup {"initialized", "launched", "stable"}
    <2>1. op.waits # NoRequest => Current.command \in Awaited
      BY DEF Shaped, Expects, CInv, Current
    <2> QED BY <1>1, <2>1 DEF Waiting
  <1>3. Current.command \notin {"release", "close"}
    BY <1>2 DEF Awaited, Resumptions
  <1> QED BY <1>1, <1>2, <1>3 DEF Busy, Connected

LEMMA ExecMirror ==
  ASSUME Typed
  PROVE  Mirror(exec) /\ Alike(exec) /\ exec.inbox \in SUBSET Messages
  BY ExecTwin, ExecIsAlike DEF Mirror, Executions

LEMMA TakeBufferedCarries ==
  ASSUME Typed, Typed', CInv, CInv', NEW k, Busy(k), TakeBuffered
  PROVE  Carries(k)
  <1> DEFINE r == Taken(exec.inbox, Awaits)
             x == [exec EXCEPT !.inbox = Without(@, r)]
  <1>1. exec \in Executions /\ Alike(exec) /\ Mirror(exec) /\ k = exec.adapter
    BY ExecTwin, ExecMirror DEF Busy
  <1>2. r \in exec.inbox /\ r.to = Awaits /\ Awaits # NoRequest /\ Waiting
    BY DEF TakeBuffered, Buffered, Taken
  <1>3. Match(x, r) /\ UNCHANGED <<adapters, view>>
    BY DEF TakeBuffered
  <1> HIDE DEF r
  <1>4. /\ exec.inbox \in SUBSET Messages
        /\ \A m \in exec.inbox : IsResponse(m) /\ m.to < exec.next
    BY <1>1 DEF Alike, Sound, Executions, Coherent
  <1>5. r \in Messages /\ Given(r)
    BY <1>2, <1>4 DEF Given
  <1>6. /\ Without(exec.inbox, r) \in SUBSET Messages /\ Without(exec.inbox, r) \subseteq exec.inbox
        /\ \A m \in Without(exec.inbox, r) : IsResponse(m) /\ m.to < exec.next
    BY <1>4 DEF Without
  <1>7. Mirror(x) /\ x.inbox = Without(exec.inbox, r)
    BY <1>1, <1>6 DEF Mirror, Twin, Executions
  <1>8. Alike(x)
    BY <1>1, <1>6, OtherInbox
  <1>9. r.ok
    BY <1>2, WaitingStep DEF Answerable
  <1> HIDE DEF x
  <1>10. Hears(k, x)
    BY <1>3, <1>6, <1>7 DEF Hears
  <1> QED BY <1>2, <1>3, <1>5, <1>7, <1>8, <1>9, <1>10, MatchCarries

\* The step stays, and a response is kept.
LEMMA KeepsWaiting ==
  ASSUME Typed, CInv, NEW k, Busy(k), Waiting, NEW m, adapters[k].messages # <<>>,
         m = Head(adapters[k].messages), IsResponse(m),
         adapters'[k].requests = adapters[k].requests, adapters'[k].exit = adapters[k].exit,
         adapters'[k].messages = Tail(adapters[k].messages),
         exec' = [exec EXCEPT !.inbox = @ \cup {m}], UNCHANGED <<op, view>>
  PROVE  Carries(k)
  <1> DEFINE s == adapters[k].messages
             t == Tail(s)
  <1>1. /\ exec'.state = exec.state /\ exec'.thread = exec.thread /\ exec'.windows = exec.windows
        /\ exec'.frames = exec.frames /\ exec'.whole = exec.whole
        /\ exec'.inbox = exec.inbox \cup {m}
    BY BusyStep DEF Executions
  <1>2. Planned(op', exec') /\ Framed(op', exec', view') /\ Ahead(op') = Ahead(op)
    <2>1. /\ SameCall(op') /\ op'.todo = op.todo /\ op'.waits = op.waits /\ op'.stale = op.stale
          /\ UNCHANGED view
      BY DEF SameCall
    <2> QED BY <1>1, <2>1, StaysPlanned
  <1>3. Ahead(op) = Current.command
    BY BusyStep
  <1>4. /\ s \in Seq(Messages) /\ Answerable(s, targets[k].owed, exec.inbox)
        /\ Silent(targets[k].owed) /\ Outstanding(adapters[k].requests, op, exec.state)
        /\ \/ IsUp(adapters[k]) /\ Known(exec.state, adapters[k].requests, s, targets[k].program)
           \/ /\ ~IsUp(adapters[k]) /\ targets[k].program = "gone" /\ Silent(s)
              /\ Ahead(op) = "disconnect" /\ op.waits # NoRequest
    BY <1>3, WaitingStep
  <1>5. Answerable(t, targets[k].owed, exec'.inbox)
    BY <1>1, <1>4, AnswerableRead
  <1>6. /\ Fine(s)
        /\ Silent(s) => Silent(t)
    BY <1>4, ReadMessages DEF Answerable
  <1>7. Known(exec.state, adapters[k].requests, s, targets[k].program) =>
           Known(exec.state, adapters[k].requests, t, targets[k].program)
    BY <1>4, <1>6, KnownRead
  <1> HIDE DEF s, t
  <1>8. adapters'[k].messages = t
    BY DEF s, t
  <1>9. IsUp(adapters'[k]) <=> IsUp(adapters[k])
    BY DEF IsUp
  <1>10. Connected(exec', op', adapters'[k], targets[k])
    <2>1. Outstanding(adapters[k].requests, op', exec'.state)
      BY <1>1, <1>4
    <2> QED BY <1>1, <1>2, <1>4, <1>5, <1>6, <1>7, <1>8, <1>9, <2>1 DEF Connected
  <1> QED BY <1>2, <1>10 DEF Carries

LEMMA ReadEndCarries ==
  ASSUME Typed, CInv, NEW k, Busy(k), ReadEnd
  PROVE  Carries(k)
  <1>1. /\ Waiting /\ AtEnd(adapters[k]) /\ UNCHANGED view
        /\ At("disconnect") => exec' = Finished(exec) /\ op' = Advanced
    BY DEF ReadEnd, Busy
  <1>2. ~IsUp(adapters[k])
    BY <1>1 DEF AtEnd
  <1>3. Current.command = "disconnect" /\ At("disconnect")
    BY <1>1, <1>2, WaitingStep, BusyStep
  <1>4. exec.state = "Stopped"
    BY <1>3, BusyStep DEF Busy, Planned, Where, Changes, Resumptions
  <1>5. /\ exec'.state = "Exited" /\ exec'.frames = exec.frames
        /\ Goes(op', Tail(op.todo)) /\ op'.stale = op.stale
    BY <1>1, <1>3, <1>4, BusyStep, CallsGoOn, GoesStale DEF Finished, Executions
  <1> QED BY <1>1, <1>3, <1>5, DisconnectCarries

-----------------------------------------------------------------------------
(* What is read.                                                           *)

\* An event that is read, as the execution in order knows it.
LEMMA EventIsKnown ==
  ASSUME Typed, CInv, NEW k, Busy(k), Waiting, NEW e, adapters[k].messages # <<>>,
         e = Head(adapters[k].messages), IsEvent(e),
         adapters'[k].requests = adapters[k].requests, adapters'[k].exit = adapters[k].exit,
         adapters'[k].messages = Tail(adapters[k].messages)
  PROVE  LET c == Current.command
             state == IF e.name = "initialized" THEN "Configuring"
                      ELSE IF e.name = "stopped" THEN "Stopped" ELSE "Exited"
         IN
         /\ \/ exec.state = "Preparing" /\ e.name = "initialized" /\ c = "initialized"
            \/ /\ exec.state = "Running" /\ e.name \in {"stopped"} \cup Ends
               /\ c \in {"launched", "stable", "configurationDone"} \cup Resumptions
               /\ op.name \in {"launch", "resume"}
               /\ c \in {"configurationDone"} \cup Resumptions => op.waits # NoRequest
            \/ /\ exec.state = "Exited" /\ e.name \in Ends
               /\ c \in {"launched", "stable", "configurationDone"} \cup Resumptions
         /\ \A x, o : /\ x.state = state /\ x.inbox = exec.inbox /\ o.todo = op.todo
                      => Connected(x, o, adapters'[k], targets[k])
  <1> DEFINE s == adapters[k].messages
             c == Current.command
  <1>1. /\ op \in Operations /\ Ahead(op) = c /\ c \in Alphabet(op) /\ s \in Seq(Messages)
        /\ ~op.failing
        /\ c \in Awaited \cup {"initialized", "launched", "stable"}
    BY BusyStep, WaitingStep
  <1>2. /\ Answerable(s, targets[k].owed, exec.inbox) /\ Silent(targets[k].owed)
        /\ \/ IsUp(adapters[k]) /\ Known(exec.state, adapters[k].requests, s, targets[k].program)
           \/ Silent(s)
    BY WaitingStep
  <1>3. Fine(s) /\ ~(IsResponse(e) /\ IsEvent(e))
    BY <1>2 DEF Answerable, IsResponse, IsEvent
  <1>4. ~Silent(s)
    BY <1>1, <1>3, ReadMessages
  <1>5. IsUp(adapters[k]) /\ Known(exec.state, adapters[k].requests, s, targets[k].program)
    BY <1>2, <1>4
  <1>6. /\ adapters[k].requests = <<>>
        /\ \/ /\ exec.state = "Preparing" /\ e.name = "initialized"
              /\ Known("Configuring", adapters[k].requests, Tail(s), targets[k].program)
           \/ /\ exec.state = "Running" /\ e.name = "stopped"
              /\ Known("Stopped", adapters[k].requests, Tail(s), targets[k].program)
           \/ /\ exec.state \in {"Running", "Exited"} /\ e.name \in Ends
              /\ Known("Exited", adapters[k].requests, Tail(s), targets[k].program)
    BY <1>1, <1>3, <1>5, KnownEvent
  <1>7. exec.state \in Where(op.name, c, op.waits # NoRequest)
    BY <1>1 DEF Busy, Planned
  <1>8. exec.state = "Preparing" => c = "initialized"
    BY <1>7 DEF Where, Changes, Resumptions
  <1>9. exec.state \in {"Running", "Exited"} =>
           /\ c \in {"launched", "stable", "configurationDone"} \cup Resumptions
           /\ c \in {"configurationDone"} \cup Resumptions => op.waits # NoRequest
    BY <1>1, <1>7 DEF Where, Changes, Resumptions, Awaited
  <1>10. c \in {"launched", "stable", "configurationDone"} \cup Resumptions =>
            op.name \in {"launch", "resume"}
    BY <1>1 DEF Alphabet, Changes, Resumptions, LaunchCommands, RunSteps
  <1>11. Answerable(Tail(s), targets[k].owed, exec.inbox)
    BY <1>1, <1>2, AnswerableRead
  <1>12. ASSUME NEW state, Known(state, adapters[k].requests, Tail(s), targets[k].program),
                NEW x, NEW o, x.state = state, x.inbox = exec.inbox, o.todo = op.todo
         PROVE  Connected(x, o, adapters'[k], targets[k])
    <2>1. Outstanding(adapters'[k].requests, o, x.state)
      <3>1. Len(<<>>) <= 1
        OBVIOUS
      <3> QED BY <1>6, <3>1 DEF Outstanding
    <2>2. IsUp(adapters'[k])
      BY <1>5 DEF IsUp
    <2> HIDE DEF s
    <2>3. Answerable(adapters'[k].messages, targets[k].owed, x.inbox)
      BY <1>11, <1>12 DEF s
    <2>4. Known(x.state, adapters'[k].requests, adapters'[k].messages, targets[k].program)
      BY <1>12 DEF s
    <2> QED BY <1>2, <2>1, <2>2, <2>3, <2>4 DEF Connected
  <1> HIDE DEF s, c
  <1> QED BY <1>6, <1>8, <1>9, <1>10, <1>12 DEF c, Ends

LEMMA EventCarries ==
  ASSUME Typed, CInv, NEW k, Busy(k), Waiting, NEW e \in Messages, adapters[k].messages # <<>>,
         e = Head(adapters[k].messages), IsEvent(e), Observe(e), UNCHANGED view,
         adapters'[k].requests = adapters[k].requests, adapters'[k].exit = adapters[k].exit,
         adapters'[k].messages = Tail(adapters[k].messages)
  PROVE  Carries(k)
  <1> DEFINE c == Current.command
             b == Blank(exec)
  <1>1. /\ op \in Operations /\ exec \in Executions /\ Ahead(op) = c
        /\ \A d : At(d) <=> c = d
    BY BusyStep
  <1>2. /\ \/ exec.state = "Preparing" /\ e.name = "initialized" /\ c = "initialized"
           \/ /\ exec.state = "Running" /\ e.name \in {"stopped"} \cup Ends
              /\ c \in {"launched", "stable", "configurationDone"} \cup Resumptions
              /\ op.name \in {"launch", "resume"}
              /\ c \in {"configurationDone"} \cup Resumptions => op.waits # NoRequest
           \/ /\ exec.state = "Exited" /\ e.name \in Ends
              /\ c \in {"launched", "stable", "configurationDone"} \cup Resumptions
        /\ \A x, o : /\ x.state = (IF e.name = "initialized" THEN "Configuring"
                                   ELSE IF e.name = "stopped" THEN "Stopped" ELSE "Exited")
                     /\ x.inbox = exec.inbox /\ o.todo = op.todo
                     => Connected(x, o, adapters'[k], targets[k])
    BY EventIsKnown
  <1>3. /\ Accepts(exec, e) /\ c # "disconnect"
    BY <1>2 DEF Accepts, Ends, Resumptions
  <1> DEFINE stale == op.stale \/ e.name = "stopped"
  <1>4. exec' = Accepted(exec, e) /\ op' = [op EXCEPT !.stale = stale] /\ stale \in BOOLEAN
    BY <1>1, <1>3 DEF Observe
  <1>5. /\ b.adapter = exec.adapter /\ b.state = exec.state /\ b.inbox = exec.inbox
        /\ b.thread = exec.thread /\ b.windows = {} /\ b.whole = FALSE /\ b.frames = exec.frames
        /\ b \in Executions
    BY <1>1 DEF Blank, Executions
  <1> HIDE DEF b
  <1>6. CASE exec.state = "Preparing" /\ e.name = "initialized" /\ c = "initialized"
    <2>1. exec' = [exec EXCEPT !.state = "Configuring"]
      <3>1. /\ (e.name \in Outputs) = FALSE /\ (e.name = "initialized") = TRUE
            /\ (e.name = "stopped") = FALSE /\ (e.name \in Ends) = FALSE
        BY <1>6 DEF Outputs, Ends
      <3>2. Accepted(exec, e) = [exec EXCEPT !.state = "Configuring"]
        BY <3>1 DEF Accepted
      <3> QED BY <1>4, <3>2
    <2>2. /\ exec'.state = "Configuring" /\ exec'.inbox = exec.inbox
          /\ exec'.frames = exec.frames
      BY <1>1, <2>1 DEF Executions
    <2>3. /\ op'.todo = op.todo /\ op'.name = op.name /\ op'.failing = op.failing
          /\ op'.waits = op.waits /\ op'.stale = op.stale
      BY <1>1, <1>4, <1>6 DEF Operations
    <2>4. Ahead(op') = c /\ (Chained(op) => Chained(op'))
      BY <1>1, <2>3 DEF Ahead, Chained
    <2>5. Planned(op', exec')
      BY <1>6, <2>2, <2>3, <2>4 DEF Planned, Where, Changes, Resumptions, Busy
    <2>6. Framed(op', exec', view')
      BY <1>6, <2>2, <2>3, <2>4 DEF Framed, Busy
    <2>7. Connected(exec', op', adapters'[k], targets[k])
      BY <1>2, <1>6, <2>2, <2>3
    <2> QED BY <2>5, <2>6, <2>7 DEF Carries
  <1>7. CASE /\ exec.state = "Running" /\ e.name = "stopped"
             /\ c \in {"launched", "stable", "configurationDone"} \cup Resumptions
             /\ op.name \in {"launch", "resume"}
             /\ c \in {"configurationDone"} \cup Resumptions => op.waits # NoRequest
    <2>1. exec' = [b EXCEPT !.state = "Stopped", !.thread = e.thread, !.frames = 0]
      <3>1. /\ (e.name \in Outputs) = FALSE /\ (e.name = "initialized") = FALSE
            /\ (e.name = "stopped") = TRUE /\ (e.name \in Ends) = FALSE
            /\ (exec.state = "Stopped") = FALSE
        BY <1>7 DEF Outputs, Ends
      <3>2. Accepted(exec, e) = [b EXCEPT !.state = "Stopped", !.thread = e.thread, !.frames = 0]
        BY <3>1 DEF Accepted, b
      <3> QED BY <1>4, <3>2
    <2>2. /\ exec'.state = "Stopped" /\ exec'.inbox = exec.inbox /\ exec'.frames = 0
          /\ exec'.windows = {} /\ exec'.whole = FALSE
      BY <1>5, <2>1 DEF Executions
    <2>3. /\ op'.todo = op.todo /\ op'.name = op.name /\ op'.failing = op.failing
          /\ op'.waits = op.waits
      BY <1>1, <1>4 DEF Operations
    <2>4. Ahead(op') = c /\ (Chained(op) => Chained(op'))
      BY <1>1, <2>3 DEF Ahead, Chained
    <2>5. "Stopped" \in Where(op.name, c, op.waits # NoRequest)
      BY <1>7 DEF Where, Changes, Resumptions
    <2>6. c \notin {"window", "stackTrace", "condition", "done"}
      BY <1>7 DEF Resumptions
    <2>7. Planned(op', exec')
      BY <1>7, <2>2, <2>3, <2>4, <2>5, <2>6 DEF Planned, Busy
    <2>8. view.phase # "Stopped"
      BY <1>7 DEF CInv, Reached, StopNames
    <2>9. exec'.windows = 0 .. exec'.frames - 1
      BY <2>2
    <2>10. Framed(op', exec', view')
      BY <1>7, <2>2, <2>3, <2>4, <2>6, <2>8, <2>9 DEF Framed
    <2>11. Connected(exec', op', adapters'[k], targets[k])
      BY SMTT(30), <1>2, <1>7, <2>2, <2>3
    <2> QED BY <2>7, <2>10, <2>11 DEF Carries
  <1>8. CASE /\ exec.state \in {"Running", "Exited"} /\ e.name \in Ends
             /\ c \in {"launched", "stable", "configurationDone"} \cup Resumptions
    <2>1. \/ exec.state = "Running" /\ exec' = [b EXCEPT !.state = "Exited", !.thread = NoThread]
          \/ exec.state = "Exited" /\ exec' = b
      BY <1>4, <1>8 DEF Accepted, Outputs, Ends, b
    <2>2. exec'.state = "Exited" /\ exec'.inbox = exec.inbox /\ exec'.frames = exec.frames
      BY ZenonT(60), <1>5, <2>1 DEF Executions
    <2>3. /\ op'.todo = op.todo /\ op'.name = op.name /\ op'.failing = op.failing
          /\ op'.waits = op.waits /\ op'.stale = op.stale
      BY <1>1, <1>4, <1>8 DEF Operations, Ends
    <2>4. Ahead(op') = c /\ (Chained(op) => Chained(op'))
      BY <1>1, <2>3 DEF Ahead, Chained
    <2>5. exec.state \in Where(op.name, c, op.waits # NoRequest)
      BY <1>1 DEF Busy, Planned
    <2>6. "Exited" \in Where(op.name, c, op.waits # NoRequest)
      BY <1>8, <2>5 DEF Where, Changes, Resumptions
    <2>7. c \notin {"window", "stackTrace", "condition", "done"}
      BY <1>8 DEF Resumptions
    <2>8. Planned(op', exec')
      BY <2>2, <2>3, <2>4, <2>6, <2>7 DEF Planned, Busy
    <2>9. Framed(op', exec', view')
      BY <2>2, <2>3, <2>4, <2>7 DEF Framed, Busy
    <2>10. Connected(exec', op', adapters'[k], targets[k])
      BY <1>2, <1>8, <2>2, <2>3 DEF Ends
    <2> QED BY <2>8, <2>9, <2>10 DEF Carries
  <1> QED BY <1>2, <1>6, <1>7, <1>8

LEMMA ReceiveCarries ==
  ASSUME Typed, Typed', CInv, CInv', NEW k, Busy(k), Receive
  PROVE  Carries(k)
  <1> DEFINE m == Head(adapters[k].messages)
  <1>1. /\ k = exec.adapter /\ k \in DOMAIN adapters /\ AdaptersTyped
        /\ adapters[k].messages # <<>> /\ Waiting /\ UNCHANGED view
        /\ adapters' = [adapters EXCEPT ![k] = Read(adapters[k])]
    BY BusyStep DEF Busy, Receive, Typed
  <1>2. m \in Messages /\ m \in Heard(k)
    BY <1>1, HeadMessage
  <1>3. /\ adapters'[k].requests = adapters[k].requests /\ adapters'[k].exit = adapters[k].exit
        /\ adapters'[k].messages = Tail(adapters[k].messages)
    <2>1. adapters'[k] = Read(adapters[k]) /\ adapters[k] \in Processes
      BY <1>1, AdapterTypes DEF AdaptersTyped
    <2> QED BY <2>1 DEF Read, Processes
  <1>4. /\ Answerable(adapters[k].messages, targets[k].owed, exec.inbox)
        /\ adapters[k].messages \in Seq(Messages)
    BY <1>1, WaitingStep
  <1>5. /\ IsResponse(m) \/ IsEvent(m)
        /\ IsResponse(m) => ~IsDuplicate(exec.inbox, m)
    <2>1. Fine(adapters[k].messages)
      BY <1>4 DEF Answerable
    <2>2. IsResponse(m) \/ IsEvent(m)
      BY <1>1, <1>4, <2>1, ReadMessages
    <2>3. IsResponse(m) => ~IsDuplicate(exec.inbox, m)
      BY <1>1, <1>4, AnswerableRead
    <2> QED BY <2>2, <2>3
  <1>6. \/ IsEvent(m) /\ Observe(m)
        \/ ~IsEvent(m) /\ Matches(m, Awaits) /\ Match(exec, m)
        \/ ~IsEvent(m) /\ IsDuplicate(exec.inbox, m)
        \/ ~IsEvent(m) /\ exec' = [exec EXCEPT !.inbox = @ \cup {m}] /\ UNCHANGED op
    BY <1>1 DEF Receive
  <1>7. CASE IsEvent(m) /\ Observe(m)
    <2>1. ASSUME NEW e, e = m PROVE Carries(k)
      <3>1. /\ e \in Messages /\ e = Head(adapters[k].messages) /\ IsEvent(e) /\ Observe(e)
        BY <1>2, <1>7, <2>1
      <3> QED BY <1>1, <1>3, <3>1, EventCarries
    <2> QED BY <2>1
  <1>8. CASE ~IsEvent(m) /\ Matches(m, Awaits) /\ Match(exec, m)
    <2>1. ASSUME NEW e, e = m PROVE Carries(k)
      <3>1. e \in Messages /\ e \in Heard(k) /\ IsResponse(e) /\ e.to = Awaits /\ Match(exec, e)
        BY <1>2, <1>8, <2>1 DEF Matches
      <3>2. e.ok
        BY <1>1, <1>4, <2>1, ReadMessages DEF Answerable
      <3>3. Given(e) /\ Awaits # NoRequest
        BY <1>1, <3>1 DEF Given, Messages, NoRequest
      <3>4. Hears(k, exec) /\ Mirror(exec) /\ Alike(exec)
        <4>1. IsResponse(Head(adapters[k].messages))
          BY <2>1, <3>1
        <4> QED BY <1>1, <1>3, <4>1, ExecMirror DEF Hears
      <3> QED BY <1>1, <3>1, <3>2, <3>3, <3>4, MatchCarries
    <2> QED BY <2>1
  <1>9. CASE ~IsEvent(m) /\ IsDuplicate(exec.inbox, m)
    BY <1>5, <1>9
  <1>10. CASE ~IsEvent(m) /\ exec' = [exec EXCEPT !.inbox = @ \cup {m}] /\ UNCHANGED op
    <2>1. ASSUME NEW e, e = m PROVE Carries(k)
      <3>1. /\ e = Head(adapters[k].messages) /\ IsResponse(e) /\ UNCHANGED <<op, view>>
            /\ exec' = [exec EXCEPT !.inbox = @ \cup {e}]
        BY <1>1, <1>5, <1>10, <2>1
      <3> QED BY <1>1, <1>3, <3>1, KeepsWaiting
    <2> QED BY <2>1
  <1> HIDE DEF m
  <1> QED BY <1>6, <1>7, <1>8, <1>9, <1>10

-----------------------------------------------------------------------------
(* What is sent, and what a step waits for.                                *)

\* Where a request takes the backend.
LEMMA SendingStates ==
  ASSUME exec \in Executions, NEW c
  PROVE  LET x == Sending(c) IN
         /\ x.inbox = exec.inbox /\ x.frames = exec.frames
         /\ x.state = IF c = "launch" THEN "Preparing"
                      ELSE IF c \in Resumptions \cup {"configurationDone"} THEN "Running"
                      ELSE exec.state
         /\ c \notin Resumptions \cup {"configurationDone"} =>
               x.thread = exec.thread /\ x.windows = exec.windows /\ x.whole = exec.whole
  <1> DEFINE b == Blank(exec)
  <1>1. b \in Executions /\ b.inbox = exec.inbox /\ b.frames = exec.frames
    BY DEF Blank, Executions
  <1> HIDE DEF b
  <1>2. CASE c = "launch"
    <2>1. /\ (c = "launch") = TRUE /\ (c = "configurationDone") = FALSE
          /\ (c \in Resumptions) = FALSE
      BY <1>2 DEF Resumptions
    <2>2. Sending(c) = [exec EXCEPT !.state = "Preparing"]
      BY <2>1 DEF Sending
    <2> QED BY <1>2, <2>2 DEF Executions, Resumptions
  <1>3. CASE c = "configurationDone"
    <2>1. /\ (c = "launch") = FALSE /\ (c = "configurationDone") = TRUE
          /\ (c \in Resumptions) = FALSE
      BY <1>3 DEF Resumptions
    <2>2. Sending(c) = [exec EXCEPT !.state = "Running", !.thread = NoThread]
      BY <2>1 DEF Sending
    <2> QED BY <1>3, <2>2 DEF Executions
  <1>4. CASE c \in Resumptions
    <2>1. /\ (c = "launch") = FALSE /\ (c = "configurationDone") = FALSE
          /\ (c \in Resumptions) = TRUE
      BY <1>4 DEF Resumptions
    <2>2. Sending(c) = [b EXCEPT !.state = "Running", !.thread = NoThread]
      BY <2>1 DEF Sending, b
    <2> QED BY <1>1, <1>4, <2>1, <2>2 DEF Executions
  <1>5. CASE c \notin Resumptions \cup {"launch", "configurationDone"}
    <2>1. /\ (c = "launch") = FALSE /\ (c = "configurationDone") = FALSE
          /\ (c \in Resumptions) = FALSE
      BY <1>5
    <2>2. Sending(c) = exec
      BY <2>1 DEF Sending
    <2> QED BY <1>5, <2>2
  <1> QED BY <1>2, <1>3, <1>4, <1>5

\* A step that sends may do so, and nothing else is on its way.
LEMMA SendIsAllowed ==
  ASSUME Typed, CInv, NEW k, Busy(k), Send
  PROVE  LET c == Current.command
             r == Request(exec.next, c, Current.on, Current.points, exec.thread)
         IN
         /\ op.waits = NoRequest /\ c \in Awaited \cup {"launch"}
         /\ MaySend(c) /\ exec.state \in Where(op.name, c, FALSE)
         /\ adapters[k].requests = <<>> /\ IsUp(adapters[k])
         /\ Answerable(adapters[k].messages, targets[k].owed, exec.inbox) /\ Silent(targets[k].owed)
         /\ Known(exec.state, <<>>, adapters[k].messages, targets[k].program)
         /\ adapters' = [adapters EXCEPT ![k] = Written(adapters[k], r)]
         /\ exec' = [Sending(c) EXCEPT !.next = @ + 1]
         /\ op' = IF At("launch") THEN [Advanced EXCEPT !.launch = exec.next]
                  ELSE [op EXCEPT !.waits = exec.next, !.stale = FALSE]
  <1> DEFINE c == Current.command
  <1>1. /\ op.waits = NoRequest /\ c \in Awaited \cup {"launch"} /\ UNCHANGED view
    BY DEF Send
  <1>2. Ahead(op) = c /\ k = exec.adapter /\ adapters[k].open
    BY BusyStep DEF Busy
  <1>3. c \notin {"release", "close", "initialized"}
    BY <1>1 DEF Awaited, Resumptions
  <1>4. /\ Outstanding(adapters[k].requests, op, exec.state) /\ IsUp(adapters[k])
        /\ Answerable(adapters[k].messages, targets[k].owed, exec.inbox) /\ Silent(targets[k].owed)
        /\ Known(exec.state, adapters[k].requests, adapters[k].messages, targets[k].program)
    BY <1>1, <1>2, <1>3 DEF Busy, Connected
  <1>5. adapters[k].requests = <<>>
    BY <1>1, <1>2, <1>3, <1>4 DEF Outstanding
  <1>6. exec.state \in Where(op.name, c, FALSE)
    BY <1>1, <1>2 DEF Busy, Planned
  <1>7. MaySend(c)
    BY <1>6 DEF MaySend, Where, Resumptions, Changes
  <1>8. Writable(adapters[k])
    BY <1>2, <1>4 DEF Writable
  <1> HIDE DEF c
  <1>9. /\ adapters' = [adapters EXCEPT ![k] = Written(adapters[k],
                             Request(exec.next, c, Current.on, Current.points, exec.thread))]
        /\ exec' = [Sending(c) EXCEPT !.next = @ + 1]
        /\ op' = IF At("launch") THEN [Advanced EXCEPT !.launch = exec.next]
                 ELSE [op EXCEPT !.waits = exec.next, !.stale = FALSE]
    BY <1>2, <1>7, <1>8 DEF Send, c
  <1> QED BY <1>1, <1>4, <1>5, <1>6, <1>7, <1>9 DEF c

LEMMA SendCarries ==
  ASSUME Typed, Typed', CInv, CInv', NEW k, Busy(k), Send
  PROVE  Carries(k)
  <1> DEFINE c == Current.command
             r == Request(exec.next, c, Current.on, Current.points, exec.thread)
  <1>1. /\ op.waits = NoRequest /\ c \in Awaited \cup {"launch"}
        /\ exec.state \in Where(op.name, c, FALSE)
        /\ adapters[k].requests = <<>> /\ IsUp(adapters[k])
        /\ Answerable(adapters[k].messages, targets[k].owed, exec.inbox) /\ Silent(targets[k].owed)
        /\ Known(exec.state, <<>>, adapters[k].messages, targets[k].program)
        /\ adapters' = [adapters EXCEPT ![k] = Written(adapters[k], r)]
        /\ exec' = [Sending(c) EXCEPT !.next = @ + 1]
        /\ op' = IF At("launch") THEN [Advanced EXCEPT !.launch = exec.next]
                 ELSE [op EXCEPT !.waits = exec.next, !.stale = FALSE]
    BY SendIsAllowed
  <1>2. /\ op \in Operations /\ exec \in Executions /\ op.todo \in Seq(Steps) /\ op.todo # <<>>
        /\ Current \in Steps /\ Ahead(op) = c /\ \A d : At(d) <=> c = d
        /\ k \in DOMAIN adapters /\ AdaptersTyped /\ UNCHANGED view
    BY BusyStep DEF Busy, Send, Typed
  <1>3. Current \in StepRecords /\ exec.next \in Nat /\ exec.next # NoRequest /\ exec.thread \in {0, 1}
    BY <1>2 DEF Steps, Executions, NoRequest
  <1>4. r \in RequestRecords /\ r.seq = exec.next /\ r.command = c
    BY <1>3 DEF Request, RequestRecords, StepRecords
  <1> HIDE DEF r
  <1>5. /\ adapters'[k].requests = <<r>> /\ adapters'[k].messages = adapters[k].messages
        /\ adapters'[k].exit = adapters[k].exit
    <2>1. adapters'[k] = Written(adapters[k], r) /\ adapters[k] \in Processes
      BY <1>1, <1>2, AdapterTypes DEF AdaptersTyped
    <2>2. Append(<<>>, r) = <<r>>
      OBVIOUS
    <2> QED BY <1>1, <2>1, <2>2 DEF Written, Processes
  <1>6. Len(<<r>>) <= 1 /\ <<r>> # <<>> /\ Head(<<r>>) = r
    OBVIOUS
  <1> DEFINE x == Sending(c)
  <1>7. /\ x.inbox = exec.inbox /\ x.frames = exec.frames
        /\ x.state = IF c = "launch" THEN "Preparing"
                     ELSE IF c \in Resumptions \cup {"configurationDone"} THEN "Running"
                     ELSE exec.state
        /\ c \notin Resumptions \cup {"configurationDone"} =>
              x.thread = exec.thread /\ x.windows = exec.windows /\ x.whole = exec.whole
    BY <1>2, SendingStates
  <1>8. x \in Executions
    BY <1>1, <1>2, ExecTwin, SendingIsSound, SendIsAllowed DEF Sound
  <1> HIDE DEF x
  <1>9. /\ exec'.inbox = exec.inbox /\ exec'.frames = exec.frames
        /\ exec'.state = IF c = "launch" THEN "Preparing"
                         ELSE IF c \in Resumptions \cup {"configurationDone"} THEN "Running"
                         ELSE exec.state
        /\ c \notin Resumptions \cup {"configurationDone"} =>
              /\ exec'.thread = exec.thread /\ exec'.windows = exec.windows
              /\ exec'.whole = exec.whole
    <2>1. exec' = [x EXCEPT !.next = @ + 1]
      BY <1>1 DEF x
    <2>2. /\ exec'.inbox = x.inbox /\ exec'.frames = x.frames /\ exec'.state = x.state
          /\ exec'.thread = x.thread /\ exec'.windows = x.windows /\ exec'.whole = x.whole
      BY <1>8, <2>1 DEF Executions
    <2> QED BY <1>7, <2>2
  <1>10. /\ Chained(op) /\ ~op.failing /\ (op.name \in {"find", "locals"} => ~op.stale)
         /\ (c \in {"window", "stackTrace", "condition", "done"} => exec.thread # NoThread)
         /\ Framed(op, exec, view)
    BY <1>2 DEF Busy, Planned
  <1>11. IsUp(adapters'[k]) /\ Answerable(adapters'[k].messages, targets[k].owed, exec'.inbox)
    BY <1>1, <1>5, <1>9 DEF IsUp
  <1> HIDE DEF c
  <1>12. CASE c = "launch"
    <2>1. op' = [Advanced EXCEPT !.launch = exec.next]
      BY <1>1, <1>2, <1>12
    <2>2. /\ op'.todo = Tail(op.todo) /\ op'.name = op.name /\ op'.failing = op.failing
          /\ op'.waits = NoRequest /\ op'.stale = op.stale
      BY <1>2, <2>1, CallsGoOn, GoesStale DEF Goes, SameCall
    <2>3. Chained(op') /\ Ahead(op') = "initialized"
      <3>1. Chained(op') /\ Ahead(op') \in Then(op.name, "launch")
        BY <1>2, <1>10, <1>12, <2>2, NextAhead
      <3> QED BY <3>1 DEF Then, Changes, Resumptions
    <2>4. exec.state = "Ready" /\ exec'.state = "Preparing"
      BY <1>1, <1>9, <1>12 DEF Where, Changes, Resumptions
    <2>5. targets[k].program = "none" /\ Silent(adapters'[k].messages)
      BY <1>1, <1>5, <2>4, NoMessage DEF Known
    <2>6. Outstanding(adapters'[k].requests, op', exec'.state)
      BY <1>4, <1>5, <1>6, <1>12, <2>2, <2>3, <2>4 DEF Outstanding
    <2>7. Known(exec'.state, adapters'[k].requests, adapters'[k].messages, targets[k].program)
      BY <1>5, <1>6, <2>4, <2>5 DEF Known
    <2>8. Connected(exec', op', adapters'[k], targets[k])
      BY <1>1, <1>11, <2>6, <2>7 DEF Connected
    <2>9. Planned(op', exec')
      BY <1>10, <2>2, <2>3, <2>4 DEF Planned, Where, Changes, Resumptions
    <2>10. Framed(op', exec', view')
      BY <1>2, <1>9, <1>10, <2>2, <2>3, <2>4 DEF Framed
    <2> QED BY <2>8, <2>9, <2>10 DEF Carries
  <1>13. CASE c # "launch"
    <2>1. op' = [op EXCEPT !.waits = exec.next, !.stale = FALSE]
      BY <1>1, <1>2, <1>13
    <2>2. /\ op'.todo = op.todo /\ op'.name = op.name /\ op'.failing = op.failing
          /\ op'.waits = exec.next /\ op'.stale = FALSE /\ op'.page = op.page
      BY <1>2, <2>1, CallsStay, GoesStale DEF SameCall
    <2>3. Chained(op') /\ Ahead(op') = c
      BY <1>2, <1>10, <2>2 DEF Chained, Ahead
    <2>4. Outstanding(adapters'[k].requests, op', exec'.state)
      BY <1>3, <1>4, <1>5, <1>6, <2>2 DEF Outstanding
    <2>5. Known(exec'.state, adapters'[k].requests, adapters'[k].messages, targets[k].program)
      <3>1. CASE c = "configurationDone"
        <4>1. exec.state = "Configuring" /\ exec'.state = "Running" /\ c \notin Resumptions
          BY <1>1, <1>9, <3>1 DEF Where, Changes, Resumptions
        <4> QED BY <1>1, <1>4, <1>5, <1>6, <4>1 DEF Known
      <3>2. CASE c \in Resumptions
        <4>1. exec.state = "Stopped" /\ exec'.state = "Running"
          BY <1>1, <1>9, <1>13, <3>2 DEF Where, Changes, Resumptions
        <4> QED BY <1>1, <1>4, <1>5, <1>6, <4>1 DEF Known
      <3>3. CASE c \notin Resumptions \cup {"configurationDone"}
        <4>1. exec'.state = exec.state
          BY <1>9, <1>13, <3>3
        <4>2. exec.state \in {"Configuring", "Stopped"}
          BY <1>1, <1>13, <3>3 DEF Where, Changes, Resumptions, Awaited
        <4> QED BY <1>1, <1>4, <1>5, <1>6, <3>3, <4>1, <4>2 DEF Known
      <3> QED BY <3>1, <3>2, <3>3
    <2>6. Connected(exec', op', adapters'[k], targets[k])
      BY <1>1, <1>11, <2>4, <2>5 DEF Connected
    <2>7. exec'.state \in Where(op'.name, c, TRUE)
      BY <1>1, <1>9, <1>13, <2>2 DEF Where, Changes, Resumptions, Awaited
    <2>8. Planned(op', exec')
      <3>1. c \in {"window", "stackTrace", "condition", "done"} => exec'.thread # NoThread
        BY <1>9, <1>10 DEF Resumptions
      <3> QED BY <1>3, <1>10, <2>2, <2>3, <2>7, <3>1 DEF Planned
    <2>9. Framed(op', exec', view')
      <3>1. CASE c \in Resumptions \cup {"configurationDone"}
        BY <1>2, <1>9, <1>10, <1>13, <2>2, <2>3, <3>1 DEF Framed, Resumptions
      <3>2. CASE c \notin Resumptions \cup {"configurationDone"}
        BY <1>2, <1>9, <1>10, <1>13, <2>2, <2>3, <3>2 DEF Framed
      <3> QED BY <3>1, <3>2
    <2> QED BY <2>6, <2>8, <2>9 DEF Carries
  <1> QED BY <1>12, <1>13

LEMMA SameHears ==
  ASSUME UNCHANGED adapters, NEW k
  PROVE  Hears(k, exec)
  BY DEF Hears

LEMMA WaitEndsCarries ==
  ASSUME Typed, Typed', CInv, CInv', NEW k, Busy(k), WaitEnds
  PROVE  Carries(k)
  <1> DEFINE c == Current.command
  <1>1. /\ op \in Operations /\ op.todo # <<>> /\ Ahead(op) = c /\ \A d : At(d) <=> c = d
        /\ c \in Alphabet(op)
    BY BusyStep DEF Busy
  <1>2. /\ c \in {"launched", "stable", "initialized"} /\ (c = "stable" => exec.state # "Running")
        /\ (c = "initialized" => exec.state # "Preparing")
        /\ UNCHANGED <<adapters, exec, view>>
    BY <1>1 DEF WaitEnds
  <1>3. op.waits = NoRequest
    BY <1>1, <1>2, StepNames DEF Awaited, Resumptions
  <1>4. exec.state \in Where(op.name, c, FALSE)
    BY <1>1, <1>3 DEF Busy, Planned
  <1>5. c = "initialized" => exec.state = "Configuring"
    BY <1>2, <1>4 DEF Where, Changes, Resumptions
  <1>6. adapters[k].requests = <<>>
    <2>1. CASE c = "initialized"
      BY <1>1, <1>3, <1>5, <2>1 DEF Busy, Connected, Outstanding
    <2>2. CASE c # "initialized"
      BY <1>2, <1>3, <2>2, AnsweredIsEmpty
    <2> QED BY <2>1, <2>2
  <1>7. op' = Advanced
    BY <1>1, <1>5 DEF WaitEnds
  <1>8. Goes(op', Tail(op.todo)) /\ op'.stale = op.stale
    BY <1>1, <1>7, CallsGoOn, GoesStale
  <1>9. Mirror(exec) /\ Hears(k, exec)
    BY <1>2, ExecMirror, SameHears
  <1>10. c \notin Special /\ c \notin Resumptions \cup {"configurationDone", "threads"}
    BY <1>2 DEF Special, Resumptions
  <1> HIDE DEF c
  <1>11. /\ Connected(exec', op', adapters'[k], targets[k]) /\ Planned(op', exec')
         /\ Ahead(op') \in Then(op.name, c)
         /\ (op.name \in {"launch", "resume"} /\ Ahead(op') \in {"condition", "done"} =>
                   exec.frames >= 1)
            => Framed(op', exec', view')
    <2> USE DEF c
    <2> QED BY <1>2, <1>5, <1>6, <1>8, <1>9, <1>10, PassedCarries
  <1>12. op.name \in {"launch", "resume"} => Ahead(op') \notin {"condition", "done"}
    BY <1>2, <1>11 DEF Then, Changes, Resumptions
  <1> QED BY <1>11, <1>12 DEF Carries

\* The steps after a stop.
LEMMA StopSteps ==
  ASSUME NEW T, NEW x \in T, NEW y \in T, NEW z \in T
  PROVE  /\ <<>> \o <<y>> \o <<>> = <<y>>
         /\ <<x>> \o <<y>> \o <<>> = <<x, y>>
         /\ <<>> \o <<y>> \o <<z>> = <<y, z>>
         /\ <<x>> \o <<y>> \o <<z>> = <<x, y, z>>
  <1>1. <<>> \o <<y>> = <<y>> /\ <<y>> \o <<>> = <<y>>
    OBVIOUS
  <1>2. <<x>> \o <<y>> = <<x, y>> /\ <<y>> \o <<z>> = <<y, z>>
    BY PairOfTwo
  <1>3. <<x, y>> \o <<>> = <<x, y>>
    OBVIOUS
  <1>4. <<x, y>> \o <<z>> = <<x, y, z>>
    <2> DEFINE s == <<x, y>>
               t == <<z>>
               u == s \o t
    <2>1. /\ s \in Seq(T) /\ t \in Seq(T) /\ Len(s) = 2 /\ Len(t) = 1
          /\ s[1] = x /\ s[2] = y /\ t[1] = z
      OBVIOUS
    <2> HIDE DEF s, t
    <2>2. /\ u \in Seq(T) /\ Len(u) = Len(s) + Len(t)
          /\ \A i \in 1 .. Len(s) + Len(t) : u[i] = IF i <= Len(s) THEN s[i] ELSE t[i - Len(s)]
      BY <2>1, ConcatProperties
    <2> HIDE DEF u
    <2>3. u \in Seq(T) /\ Len(u) = 3 /\ u[1] = x /\ u[2] = y /\ u[3] = z
      BY <2>1, <2>2
    <2>4. u = <<x, y, z>>
      BY <2>3
    <2> QED BY <2>4 DEF s, t, u
  <1> QED BY <1>1, <1>2, <1>3, <1>4

LEMMA OutcomeCarries ==
  ASSUME Typed, Typed', CInv, CInv', NEW k, Busy(k), Outcome
  PROVE  Carries(k)
  <1> DEFINE c == Current.command
  <1>1. /\ op \in Operations /\ op.todo # <<>> /\ Ahead(op) = c /\ \A d : At(d) <=> c = d
        /\ c \in Alphabet(op)
    BY BusyStep DEF Busy
  <1>2. c = "outcome" /\ UNCHANGED <<adapters, view>>
    BY <1>1 DEF Outcome
  <1>3. op.waits = NoRequest /\ op.name \in {"launch", "resume"}
    BY <1>1, <1>2, StepNames, Letters DEF Awaited, Resumptions
  <1>4. exec.state \in {"Stopped", "Exited"}
    BY <1>1, <1>2 DEF Busy, Planned, Where, Changes, Resumptions
  <1>5. adapters[k].requests = <<>>
    BY <1>2, <1>3, AnsweredIsEmpty
  <1>6. /\ exec' = exec
        /\ \/ exec.state = "Exited" /\ op' = Follow(<<Step("complete")>>)
           \/ /\ exec.state = "Stopped"
              /\ \E tested \in {FALSE, MayTest} :
                    op' = Follow((IF exec.thread = NoThread THEN <<Step("threads")>> ELSE <<>>)
                                 \o <<Step("window")>>
                                 \o (IF tested THEN <<Step("condition")>> ELSE <<>>))
    <2>1. CASE exec.state = "Exited"
      <3>1. (exec.state = "Exited") = TRUE /\ (exec.state = "Stopped") = FALSE
        BY <2>1
      <3> QED BY <3>1 DEF Outcome
    <2>2. CASE exec.state = "Stopped"
      <3>1. (exec.state = "Exited") = FALSE /\ (exec.state = "Stopped") = TRUE
        BY <2>2
      <3> QED BY <3>1 DEF Outcome
    <2> QED BY <1>4, <2>1, <2>2
  <1>7. ASSUME NEW todo, op' = Follow(todo),
               \A p : p.todo = todo /\ p.name = op.name =>
                  /\ Chained(p) /\ Ahead(p) \in {"complete", "threads", "window"}
                  /\ exec.state = "Exited" <=> Ahead(p) = "complete"
                  /\ Ahead(p) = "window" => exec.thread # NoThread
        PROVE  Carries(k)
    <2>1. Goes(op', todo) /\ op'.stale = op.stale
      BY <1>1, <1>7, CallsGoOn, GoesStale
    <2>2. /\ op'.todo = todo /\ op'.name = op.name /\ op'.failing = op.failing
          /\ op'.waits = NoRequest /\ op'.page = op.page
      BY <2>1 DEF Goes, SameCall
    <2>3. /\ Chained(op') /\ Ahead(op') \in {"complete", "threads", "window"}
          /\ exec.state = "Exited" <=> Ahead(op') = "complete"
          /\ Ahead(op') = "window" => exec.thread # NoThread
      BY <1>7, <2>2
    <2>4. Planned(op', exec')
      BY <1>4, <1>6, <2>1, <2>2, <2>3 DEF Planned, Where, Changes, Resumptions, Busy
    <2>5. Framed(op', exec', view')
      BY <1>2, <1>6, <2>2, <2>3 DEF Framed, Busy
    <2>6. Outstanding(adapters[k].requests, op', exec.state)
      <3>1. Len(<<>>) <= 1
        OBVIOUS
      <3> QED BY <1>5, <3>1 DEF Outstanding
    <2>7. Connected(exec', op', adapters'[k], targets[k])
      BY <1>2, <1>6, <2>6, ConnectedOn
    <2> QED BY <2>4, <2>5, <2>7 DEF Carries
  <1>8. CASE exec.state = "Exited" /\ op' = Follow(<<Step("complete")>>)
    <2> DEFINE todo == <<Step("complete")>>
    <2>1. \A p : p.todo = todo /\ p.name = op.name =>
              Chained(p) /\ Ahead(p) = "complete"
      <3>1. \A name : "done" \in Then(name, "complete")
        BY DEF Then, Changes, Resumptions
      <3> QED BY <3>1, ShortChains
    <2> HIDE DEF todo
    <2>2. op' = Follow(todo)
      BY <1>8 DEF todo
    <2> QED BY <1>7, <1>8, <2>1, <2>2
  <1>9. CASE /\ exec.state = "Stopped"
             /\ \E tested \in {FALSE, MayTest} :
                    op' = Follow((IF exec.thread = NoThread THEN <<Step("threads")>> ELSE <<>>)
                                 \o <<Step("window")>>
                                 \o (IF tested THEN <<Step("condition")>> ELSE <<>>))
    <2>1. PICK tested : op' = Follow((IF exec.thread = NoThread THEN <<Step("threads")>> ELSE <<>>)
                                 \o <<Step("window")>>
                                 \o (IF tested THEN <<Step("condition")>> ELSE <<>>))
      BY <1>9
    <2> DEFINE todo == (IF exec.thread = NoThread THEN <<Step("threads")>> ELSE <<>>)
                       \o <<Step("window")>>
                       \o (IF tested THEN <<Step("condition")>> ELSE <<>>)
               a == Step("threads")
               b == Step("window")
               z == Step("condition")
    <2>2. \/ exec.thread = NoThread /\ todo \in {<<a, b>>, <<a, b, z>>}
          \/ exec.thread # NoThread /\ todo \in {<<b>>, <<b, z>>}
      <3> HIDE DEF a, b, z
      <3>1. \A T : a \in T /\ b \in T /\ z \in T =>
               /\ <<>> \o <<b>> \o <<>> = <<b>>
               /\ <<a>> \o <<b>> \o <<>> = <<a, b>>
               /\ <<>> \o <<b>> \o <<z>> = <<b, z>>
               /\ <<a>> \o <<b>> \o <<z>> = <<a, b, z>>
        BY StopSteps
      <3>2. /\ <<>> \o <<b>> \o <<>> = <<b>>
            /\ <<a>> \o <<b>> \o <<>> = <<a, b>>
            /\ <<>> \o <<b>> \o <<z>> = <<b, z>>
            /\ <<a>> \o <<b>> \o <<z>> = <<a, b, z>>
        <4>1. a \in {a, b, z} /\ b \in {a, b, z} /\ z \in {a, b, z}
          OBVIOUS
        <4> QED BY <3>1, <4>1
      <3> QED BY <3>2 DEF a, b, z
    <2>3. \A name : /\ "window" \in Then(name, "threads") /\ "done" \in Then(name, "window")
                    /\ "condition" \in Then(name, "window") /\ "done" \in Then(name, "condition")
      BY DEF Then, Changes, Resumptions
    <2>4. ASSUME NEW p, p.todo = todo, p.name = op.name
          PROVE  /\ Chained(p)
                 /\ \/ exec.thread = NoThread /\ Ahead(p) = "threads"
                    \/ exec.thread # NoThread /\ Ahead(p) = "window"
      <3>1. CASE exec.thread = NoThread /\ p.todo = <<Step("threads"), Step("window")>>
        BY <2>3, <3>1, ShortChains
      <3>2. CASE exec.thread = NoThread
                 /\ p.todo = <<Step("threads"), Step("window"), Step("condition")>>
        BY <2>3, <3>2, ShortChains
      <3>3. CASE exec.thread # NoThread /\ p.todo = <<Step("window")>>
        BY <2>3, <3>3, ShortChains
      <3>4. CASE exec.thread # NoThread /\ p.todo = <<Step("window"), Step("condition")>>
        BY <2>3, <3>4, ShortChains
      <3> HIDE DEF todo
      <3> QED BY <2>2, <2>4, <3>1, <3>2, <3>3, <3>4
    <2>5. op' = Follow(todo)
      BY <2>1
    <2> HIDE DEF todo
    <2> QED BY <1>7, <1>9, <2>4, <2>5
  <1> QED BY <1>6, <1>8, <1>9

\* A stack window that is to be loaded follows those that are cached.
LEMMA WindowFits ==
  ASSUME Typed, CInv, NEW k, Busy(k), At("window")
  PROVE  /\ op.waits = NoRequest /\ exec.state = "Stopped" /\ exec.thread # NoThread
         /\ 0 .. op.page - 1 \subseteq exec.windows
         /\ op.page \notin exec.windows => op.page = exec.frames
         /\ op.page \in exec.windows \/ exec.whole => exec.frames >= 1
  <1> DEFINE c == Current.command
  <1>1. /\ op \in Operations /\ op.todo # <<>> /\ Ahead(op) = c /\ c = "window"
        /\ c \in Alphabet(op) /\ ~op.failing /\ exec \in Executions /\ view \in Views
    BY BusyStep DEF Busy, Typed
  <1>2. op.waits = NoRequest
    BY <1>1, StepNames DEF Awaited, Resumptions
  <1>3. exec.state = "Stopped" /\ exec.thread # NoThread
    BY <1>1 DEF Busy, Planned, Where, Changes, Resumptions
  <1>4. exec.frames \in Nat /\ op.page \in Nat /\ exec.windows = 0 .. exec.frames - 1
        /\ (exec.whole => exec.frames >= 1)
    BY <1>1, <1>3 DEF Busy, Framed, Executions, Operations
  <1>5. op.name \in {"launch", "resume", "stack"}
    BY <1>1 DEF Alphabet, Changes, Resumptions, Operations, CInv, Shaped
  <1>6. op.page = 0 \/ op.page = exec.frames
    <2>1. CASE op.name \in {"launch", "resume"}
      BY <1>1, <2>1 DEF CInv, Windowed
    <2>2. CASE op.name = "stack"
      <3>1. op.page = view.windows /\ op.page >= 1 /\ Seen(exec, view) /\ exec.frames >= 1
        BY <1>1, <2>2 DEF CInv, Windowed, Busy, Framed
      <3>2. 0 \in exec.windows
        BY <1>4, <3>1
      <3>3. 0 .. exec.frames - 1 = 0 .. op.page - 1
        BY <1>4, <3>1, <3>2 DEF Seen
      <3>4. exec.frames - 1 \in 0 .. op.page - 1 /\ op.page - 1 \in 0 .. exec.frames - 1
        BY <1>4, <3>1, <3>3
      <3> QED BY <1>4, <3>4
    <2> QED BY <1>5, <2>1, <2>2
  <1>7. 0 .. op.page - 1 \subseteq exec.windows
    BY <1>4, <1>6
  <1>8. op.page \notin exec.windows => op.page = exec.frames
    BY <1>4, <1>6
  <1>9. op.page \in exec.windows \/ exec.whole => exec.frames >= 1
    BY <1>4
  <1> QED BY <1>2, <1>3, <1>7, <1>8, <1>9

LEMMA LoadWindowCarries ==
  ASSUME Typed, Typed', CInv, CInv', NEW k, Busy(k), LoadWindow
  PROVE  Carries(k)
  <1> DEFINE c == Current.command
  <1>1. /\ op \in Operations /\ op.todo # <<>> /\ op.todo \in Seq(Steps) /\ Ahead(op) = c
        /\ c = "window" /\ At("window")
    BY BusyStep DEF Busy, LoadWindow
  <1>2. /\ op.waits = NoRequest /\ exec.state = "Stopped" /\ exec.thread # NoThread
        /\ 0 .. op.page - 1 \subseteq exec.windows
        /\ op.page \notin exec.windows => op.page = exec.frames
        /\ op.page \in exec.windows \/ exec.whole => exec.frames >= 1
    BY <1>1, WindowFits
  <1>3. /\ UNCHANGED <<adapters, view, exec>>
        /\ op' = IF op.page \in exec.windows \/ exec.whole THEN Advanced
                 ELSE Follow(<<Step("stackTrace")>> \o Tail(op.todo))
    BY <1>2 DEF LoadWindow
  <1>4. adapters[k].requests = <<>>
    BY <1>1, <1>2, AnsweredIsEmpty
  <1>5. Mirror(exec) /\ Hears(k, exec)
    BY <1>3, ExecMirror, SameHears
  <1>6. CASE op.page \in exec.windows \/ exec.whole
    <2>1. Goes(op', Tail(op.todo)) /\ op'.stale = op.stale
      BY <1>1, <1>3, <1>6, CallsGoOn, GoesStale
    <2>2. c \notin Special /\ c \notin Resumptions \cup {"configurationDone", "threads", "stable", "initialized"}
      BY <1>1 DEF Special, Resumptions
    <2>3. /\ Connected(exec', op', adapters'[k], targets[k]) /\ Planned(op', exec')
          /\ (op.name \in {"launch", "resume"} /\ Ahead(op') \in {"condition", "done"} =>
                   exec.frames >= 1)
             => Framed(op', exec', view')
      BY <1>3, <1>4, <1>5, <2>1, <2>2, PassedCarries
    <2> QED BY <1>2, <1>6, <2>3 DEF Carries
  <1>7. CASE ~(op.page \in exec.windows \/ exec.whole)
    <2> DEFINE h == Step("stackTrace")
    <2>1. h \in Steps /\ h.command = "stackTrace"
      BY PlainSteps DEF Commands, Step
    <2> HIDE DEF h
    <2>2. Goes(op', <<h>> \o Tail(op.todo)) /\ op'.stale = op.stale
      BY <1>1, <1>3, <1>7, CallsGoOn, GoesStale DEF h
    <2>3. /\ op'.todo = <<h>> \o Tail(op.todo) /\ op'.name = op.name /\ op'.failing = op.failing
          /\ op'.waits = NoRequest /\ op'.page = op.page
      BY <2>2 DEF Goes, SameCall
    <2>4. Then(op.name, h.command) = Then(op.name, Ahead(op))
      <3>1. Then(op.name, "stackTrace") = {"condition", "done"}
        BY DEF Then, Changes, Resumptions
      <3>2. Then(op.name, "window") = {"condition", "done"}
        BY DEF Then, Changes, Resumptions
      <3> QED BY <1>1, <2>1, <3>1, <3>2
    <2>5. Chained(op') /\ Ahead(op') = "stackTrace"
      <3>1. Chained(op)
        BY DEF Busy, Planned
      <3> QED BY <1>1, <2>1, <2>3, <2>4, <3>1, InsteadAhead
    <2>6. Planned(op', exec')
      BY <1>2, <1>3, <2>2, <2>3, <2>5 DEF Planned, Where, Changes, Resumptions, Busy
    <2>7. Framed(op', exec', view')
      BY <1>2, <1>3, <1>7, <2>3, <2>5 DEF Framed, Busy
    <2>8. Outstanding(adapters[k].requests, op', exec.state)
      <3>1. Len(<<>>) <= 1
        OBVIOUS
      <3> QED BY <1>4, <3>1 DEF Outstanding
    <2>9. Connected(exec', op', adapters'[k], targets[k])
      BY <1>1, <1>3, <2>8, ConnectedOn
    <2> QED BY <2>6, <2>7, <2>9 DEF Carries
  <1> QED BY <1>6, <1>7

\* The steps of an operation, with the adapter of its execution.
LEMMA StepStaysClean ==
  ASSUME IInv, Typed, CInv, Clean, EndClosed,
         Send \/ SkipDisconnect \/ TakeBuffered \/ Receive \/ ReadEnd \/ WaitEnds
         \/ Outcome \/ LoadWindow
  PROVE  Clean'
  <1> DEFINE k == exec.adapter
  <1>1. Has
    BY NeedsExecution
    DEF IInv, Send, Awaited, Resumptions, SkipDisconnect, NothingToEnd, TakeBuffered, Receive,
        ReadEnd, WaitEnds, Outcome, LoadWindow
  <1>2. Typed' /\ CInv'
    BY StepTyped, SendTyped, StepKeeps, SendKeeps
  <1>3. op.todo # <<>>
    <2>1. Waiting => op.todo # <<>>
      BY ExecIsAlike
    <2> QED BY <2>1 DEF Send, SkipDisconnect, NothingToEnd, TakeBuffered, Receive, ReadEnd,
                        WaitEnds, Outcome, LoadWindow, At
  <1>4. Busy(k)
    BY <1>1, <1>3 DEF Busy, Clean
  <1>5. UNCHANGED <<prep, answer>> /\ exec'.adapter = k /\ targets'[k] = targets[k]
    <2>1. UNCHANGED <<prep, answer>>
      BY DEF Send, SkipDisconnect, TakeBuffered, Receive, ReadEnd, WaitEnds, Outcome, LoadWindow
    <2>2. exec'.adapter = k
      <3>1. CASE Send
        <4>1. exec' = [Sending(Current.command) EXCEPT !.next = @ + 1] /\ MaySend(Current.command)
          BY <1>4, <3>1, SendIsAllowed
        <4>2. Sound(Sending(Current.command)) /\ Like(exec, Sending(Current.command))
          BY <4>1, ExecTwin, SendingIsSound
        <4> QED BY <4>1, <4>2 DEF Sound, Like, Executions
      <3>2. CASE ~Send
        BY <1>1, <3>2, SkipsProgress, TakeBufferedProgresses, ReceiveProgresses, ReadEndProgresses,
           WaitEndsProgresses, OutcomeProgresses, LoadWindowProgresses DEF Progresses
      <3> QED BY <3>1, <3>2
    <2>3. targets'[k] = targets[k]
      <3>1. k \in DOMAIN adapters' /\ adapters'[k].open /\ AdaptersTyped /\ AdaptersTyped'
            /\ k \in DOMAIN adapters
        BY <1>1, <1>2, <2>2 DEF Typed, ExecutionTyped, Has
      <3> QED BY <3>1, EndClosedTyped DEF AdaptersTyped
    <2> QED BY <2>1, <2>2, <2>3
  <1>6. Carries(k)
    <2>1. CASE SkipDisconnect
      <3>1. Current.command = "disconnect" /\ exec.state \in {"Exited", "Ready"} /\ Ahead(op) = "disconnect"
        BY <1>3, <2>1 DEF SkipDisconnect, NothingToEnd, At, Current, Ahead
      <3>2. exec.state = "Stopped"
        BY <1>4, <3>1 DEF Busy, Planned, Where, Changes, Resumptions
      <3> QED BY <3>1, <3>2
    <2> HIDE DEF k
    <2>2. CASE Send
      BY <1>2, <1>4, <2>2, SendCarries
    <2>3. CASE TakeBuffered
      BY <1>2, <1>4, <2>3, TakeBufferedCarries
    <2>4. CASE Receive
      BY <1>2, <1>4, <2>4, ReceiveCarries
    <2>5. CASE ReadEnd
      BY <1>2, <1>4, <2>5, ReadEndCarries
    <2>6. CASE WaitEnds
      BY <1>2, <1>4, <2>6, WaitEndsCarries
    <2>7. CASE Outcome
      BY <1>2, <1>4, <2>7, OutcomeCarries
    <2>8. CASE LoadWindow
      BY <1>2, <1>4, <2>8, LoadWindowCarries
    <2> QED BY <2>1, <2>2, <2>3, <2>4, <2>5, <2>6, <2>7, <2>8
  <1> QED BY <1>1, <1>5, <1>6, StaysClean DEF Carries

-----------------------------------------------------------------------------
(* What a launch prepares, and how operations end.                         *)

\* The steps of a launch follow each other.
LEMMA LaunchChained ==
  ASSUME applied \in SUBSET Points, NEW p, p.todo = LaunchSteps, p.name = "launch"
  PROVE  Chained(p) /\ Ahead(p) = "launch"
  <1> DEFINE A == <<Step("launch"), Step("initialized")>>
             B == ConfigurationSteps(applied)
             C == <<Step("configurationDone"), Step("launched"), Step("stable"), Step("outcome")>>
  <1>1. /\ A \in Seq(Steps) /\ Len(A) = 2 /\ A[1] = Step("launch") /\ A[2] = Step("initialized")
    <2>1. Step("launch") \in Steps /\ Step("initialized") \in Steps
      BY PlainSteps DEF Commands
    <2> HIDE DEF Steps
    <2> QED BY <2>1
  <1>2. B \in Seq(Steps) /\ \A i \in DOMAIN B : B[i].command \in Changes
    <2> DEFINE K == {s \in ChangeSteps(applied) : s.command = "evaluate" => s.on = "set"}
    <2>1. B \in Seq(K)
      BY ConfigurationCovers
    <2>2. K \subseteq Steps /\ \A s \in K : s.command \in Changes
      BY DEF ChangeSteps
    <2> HIDE DEF K, B, Steps
    <2> QED BY <2>1, <2>2
  <1>3. /\ C \in Seq(Steps) /\ Len(C) = 4 /\ C[1] = Step("configurationDone")
        /\ C[2] = Step("launched") /\ C[3] = Step("stable") /\ C[4] = Step("outcome")
    <2>1. /\ Step("configurationDone") \in Steps /\ Step("launched") \in Steps
          /\ Step("stable") \in Steps /\ Step("outcome") \in Steps
      BY PlainSteps DEF Commands
    <2> HIDE DEF Steps
    <2> QED BY <2>1
  <1>4. LaunchSteps = A \o B \o C
    BY DEF LaunchSteps
  <1> HIDE DEF A, B, C
  <1> DEFINE t == A \o B
             s == t \o C
             b == Len(B)
  <1>5. /\ t \in Seq(Steps) /\ Len(t) = Len(A) + Len(B)
        /\ \A i \in 1 .. Len(A) + Len(B) : t[i] = IF i <= Len(A) THEN A[i] ELSE B[i - Len(A)]
    <2> HIDE DEF Steps
    <2> QED BY <1>1, <1>2, ConcatProperties
  <1>6. b \in Nat /\ DOMAIN B = 1 .. b
    <2> HIDE DEF Steps
    <2> QED BY <1>2
  <1> HIDE DEF t
  <1>7. /\ s \in Seq(Steps) /\ Len(s) = Len(t) + Len(C)
        /\ \A i \in 1 .. Len(t) + Len(C) : s[i] = IF i <= Len(t) THEN t[i] ELSE C[i - Len(t)]
    <2>1. t \in Seq(Steps) /\ C \in Seq(Steps)
      BY <1>3, <1>5
    <2> HIDE DEF Steps
    <2>2. /\ t \o C \in Seq(Steps) /\ Len(t \o C) = Len(t) + Len(C)
          /\ \A i \in 1 .. Len(t) + Len(C) : (t \o C)[i] =
                   IF i <= Len(t) THEN t[i] ELSE C[i - Len(t)]
      BY ZenonT(60), <2>1, ConcatProperties
    <2> QED BY <2>2
  <1>8. s = LaunchSteps
    BY <1>4 DEF t
  <1> HIDE DEF s, b
  <1>9. Len(t) = 2 + b /\ Len(s) = 6 + b
    BY <1>1, <1>3, <1>5, <1>6, <1>7 DEF b
  <1>10. /\ s[1] = Step("launch") /\ s[2] = Step("initialized")
         /\ \A i \in 1 .. b : s[2 + i].command \in Changes
    <2>1. t[1] = Step("launch") /\ t[2] = Step("initialized")
      BY <1>1, <1>5, <1>6 DEF b
    <2>2. ASSUME NEW i \in 1 .. b PROVE t[2 + i].command \in Changes
      <3>1. 2 + i \in 1 .. Len(A) + Len(B) /\ ~(2 + i <= Len(A)) /\ 2 + i - Len(A) = i
        BY <1>1, <1>6 DEF b
      <3>2. t[2 + i] = B[i]
        BY <1>5, <3>1
      <3> QED BY <1>2, <1>6, <3>2
    <2>3. \A i \in 1 .. 2 + b : s[i] = t[i]
      BY <1>3, <1>6, <1>7, <1>9
    <2> QED BY <1>6, <2>1, <2>2, <2>3
  <1>11. /\ s[3 + b] = Step("configurationDone") /\ s[4 + b] = Step("launched")
         /\ s[5 + b] = Step("stable") /\ s[6 + b] = Step("outcome")
    <2>1. \A j \in 1 .. 4 : s[2 + b + j] = C[j]
      <3>1. ASSUME NEW j \in 1 .. 4 PROVE s[2 + b + j] = C[j]
        <4> DEFINE n == 2 + b + j
        <4>1. n \in 1 .. Len(t) + Len(C) /\ ~(n <= Len(t)) /\ n - Len(t) = j
          BY <1>3, <1>6, <1>9
        <4> HIDE DEF n
        <4>2. s[n] = C[j]
          BY <1>7, <4>1
        <4> QED BY <4>2 DEF n
      <3> QED BY <3>1
    <2>2. 2 + b + 1 = 3 + b /\ 2 + b + 2 = 4 + b /\ 2 + b + 3 = 5 + b /\ 2 + b + 4 = 6 + b
      BY <1>6
    <2> QED BY <1>3, <2>1, <2>2
  <1>12. \A c : Step(c).command = c
    BY DEF Step
  <1>13. /\ Then("launch", "launch") = {"initialized"}
         /\ \A c \in {"initialized"} \cup Changes :
               Then("launch", c) = Changes \cup {"configurationDone"}
         /\ Then("launch", "configurationDone") = {"launched"}
         /\ Then("launch", "launched") = {"stable"} /\ Then("launch", "stable") = {"outcome"}
         /\ Then("launch", "outcome") = {"done"}
    BY DEF Then, Changes, Resumptions
  <1>14. ASSUME NEW i \in DOMAIN s
         PROVE  IF i = Len(s) THEN "done" \in Then("launch", s[i].command)
                ELSE s[i + 1].command \in Then("launch", s[i].command)
    <2>1. i \in 1 .. 6 + b
      BY <1>7, <1>9
    <2>2. CASE i = 1
      <3>1. i + 1 = 2 /\ i # Len(s)
        BY <1>6, <1>9, <2>2
      <3> QED BY <1>10, <1>12, <1>13, <2>2, <3>1
    <2>3. CASE i = 2
      <3>1. i + 1 = 3 /\ i # Len(s)
        BY <1>6, <1>9, <2>3
      <3>2. s[3].command \in Changes \cup {"configurationDone"}
        <4>1. CASE b = 0
          BY <1>11, <1>12, <4>1
        <4>2. CASE b # 0
          <5>1. 1 \in 1 .. b /\ 2 + 1 = 3
            BY <1>6, <4>2
          <5> QED BY <1>10, <5>1
        <4> QED BY <4>1, <4>2
      <3> QED BY <1>10, <1>12, <1>13, <2>3, <3>1, <3>2
    <2>4. CASE i > 2 /\ i <= 2 + b
      <3> DEFINE j == i - 2
      <3>1. j \in 1 .. b /\ 2 + j = i /\ i # Len(s)
        BY <1>6, <1>9, <2>1, <2>4
      <3>2. s[i].command \in Changes
        BY <1>10, <3>1
      <3>3. s[i + 1].command \in Changes \cup {"configurationDone"}
        <4>1. CASE j = b
          <5>1. i + 1 = 3 + b
            BY <1>6, <2>1, <4>1
          <5> QED BY <1>11, <1>12, <5>1
        <4>2. CASE j # b
          <5>1. j + 1 \in 1 .. b /\ 2 + (j + 1) = i + 1
            BY <1>6, <2>1, <3>1, <4>2
          <5> QED BY <1>10, <5>1
        <4> QED BY <4>1, <4>2
      <3> QED BY <1>13, <3>1, <3>2, <3>3
    <2>5. CASE i \in {3 + b, 4 + b, 5 + b}
      <3>1. i # Len(s) /\ (i = 3 + b => i + 1 = 4 + b) /\ (i = 4 + b => i + 1 = 5 + b)
            /\ (i = 5 + b => i + 1 = 6 + b)
        BY <1>6, <1>9, <2>5
      <3> QED BY <1>11, <1>12, <1>13, <2>5, <3>1
    <2>6. CASE i = 6 + b
      BY <1>9, <1>11, <1>12, <1>13, <2>6
    <2> QED BY <1>6, <2>1, <2>2, <2>3, <2>4, <2>5, <2>6
  <1>15. s # <<>> /\ Head(s) = s[1]
    <2>1. s # <<>>
      BY <1>6, <1>9
    <2> HIDE DEF Steps
    <2> QED BY <1>7, <2>1, TailSteps
  <1>16. Chained(p)
    BY <1>8, <1>14 DEF Chained
  <1>17. Ahead(p) = "launch"
    BY <1>8, <1>10, <1>12, <1>15 DEF Ahead
  <1> QED BY <1>16, <1>17

\* What is quiet stays so: the adapter is left alone and nothing is on its way.
LEMMA QuietConnects ==
  ASSUME NEW k, Connected(exec, op, adapters[k], targets[k]),
         Ahead(op) \notin {"release", "close", "disconnect"}, op.waits = NoRequest,
         Ahead(op) # "initialized",
         UNCHANGED adapters, exec'.state = exec.state, exec'.inbox = exec.inbox
  PROVE  Connected(exec', op', adapters'[k], targets[k])
  <1>1. /\ Answerable(adapters[k].messages, targets[k].owed, exec.inbox) /\ Silent(targets[k].owed)
        /\ Outstanding(adapters[k].requests, op, exec.state) /\ IsUp(adapters[k])
        /\ Known(exec.state, adapters[k].requests, adapters[k].messages, targets[k].program)
    BY DEF Connected
  <1>2. adapters[k].requests = <<>>
    BY <1>1 DEF Outstanding
  <1>3. Outstanding(adapters[k].requests, op', exec.state)
    <2>1. Len(<<>>) <= 1
      OBVIOUS
    <2> QED BY <1>2, <2>1 DEF Outstanding
  <1> QED BY <1>1, <1>3 DEF Connected

\* An operation is over, or goes on without its adapter.
LEMMA QuietIsClean ==
  ASSUME IInv, Clean, Has, NEW k, k = exec.adapter, exec'.adapter = k, UNCHANGED prep,
         answer' \notin {"failed", "timed out", "refused", "rejected"}, targets'[k] = targets[k],
         Ahead(op) \notin {"release", "close", "disconnect", "initialized"}, op.waits = NoRequest,
         UNCHANGED adapters, exec'.state = exec.state, exec'.inbox = exec.inbox,
         Planned(op', exec'), Framed(op', exec', view')
  PROVE  Clean'
  <1>1. prep.status = "none"
    <2>1. prep = NoPreparation
      BY DEF IInv, OneAtATime
    <2> QED BY <2>1 DEF NoPreparation
  <1>2. Connected(exec, op, adapters[k], targets[k])
    BY DEF Clean
  <1>3. Connected(exec', op', adapters'[k], targets[k])
    BY <1>2, QuietConnects
  <1>4. Connected(exec', op', adapters'[exec'.adapter], targets'[exec'.adapter])
    BY <1>3
  <1> QED BY <1>1, <1>4 DEF Clean

LEMMA IdlePlanned ==
  ASSUME NEW x, x.state = "Stopped", x.thread # NoThread
  PROVE  Planned(Idle, x) /\ Ahead(Idle) = "done" /\ Idle.name = "idle"
  <1>1. Idle.todo = <<>> /\ Idle.name = "idle" /\ Idle.failing = FALSE /\ Idle.waits = NoRequest
    BY DEF Idle, Doing
  <1>2. Chained(Idle) /\ Ahead(Idle) = "done"
    BY <1>1 DEF Chained, Ahead
  <1> QED BY <1>1, <1>2 DEF Planned, Where, Changes, Resumptions

LEMMA UnreadableStaysClean ==
  ASSUME IInv, Typed, CInv, Clean, EndClosed, Unreadable
  PROVE  Clean'
  <1> DEFINE k == exec.adapter
  <1>1. /\ At("unreadable") /\ op' = Idle /\ answer' = "unreadable"
        /\ UNCHANGED <<adapters, exec, view, prep>>
    BY DEF Unreadable, Answers
  <1>2. Has /\ op.todo # <<>> /\ Current.command = "unreadable"
    BY <1>1, NeedsExecution DEF IInv, At, Current
  <1>3. Busy(k)
    BY <1>2 DEF Busy, Clean
  <1>4. /\ op \in Operations /\ op.name = "find" /\ ~op.failing /\ op.waits = NoRequest
    BY <1>1, <1>2, StepNames DEF At, Typed, Operates, CInv, Awaited, Resumptions
  <1>5. Ahead(op) = "unreadable" /\ exec.state = "Stopped" /\ exec.thread # NoThread
    BY <1>1, <1>2, <1>4 DEF Ahead, Current, CInv, Reached, LooksAt, First, InReach
  <1>6. Planned(op', exec') /\ Ahead(op') = "done" /\ op'.name = "idle"
    BY <1>1, <1>5, IdlePlanned
  <1>7. Framed(op', exec', view')
    BY <1>1, <1>3, <1>6 DEF Busy, Framed
  <1>8. targets'[k] = targets[k]
    <2>1. k \in DOMAIN adapters /\ adapters[k].open
      BY <1>2 DEF Typed, ExecutionTyped
    <2> QED BY <1>1, <2>1 DEF EndClosed
  <1> QED BY <1>1, <1>2, <1>4, <1>5, <1>6, <1>7, <1>8, QuietIsClean

LEMMA ReturnStaysClean ==
  ASSUME IInv, Typed, CInv, Clean, EndClosed, Return
  PROVE  Clean'
  <1> DEFINE k == exec.adapter
  <1>1. /\ op.name # "idle" /\ op.todo = <<>> /\ UNCHANGED <<adapters, prep>>
    BY DEF Return
  <1>2. Has /\ op \in Operations /\ exec \in Executions
    BY <1>1, NeedsExecution DEF IInv, Typed, Operates, ExecutionTyped
  <1>3. op.waits = NoRequest /\ Ahead(op) = "done" /\ ~op.failing
    BY <1>1, <1>2 DEF Typed, Operates, Ahead, Clean, Planned
  <1>4. /\ Planned(op, exec) /\ Framed(op, exec, view)
        /\ exec.state = "Stopped" /\ exec.thread # NoThread
    BY <1>2, <1>3 DEF Clean, Planned, Where, Changes, Resumptions
  <1>5. /\ exec'.adapter = k /\ exec'.state = exec.state /\ exec'.inbox = exec.inbox
        /\ exec'.thread = exec.thread /\ exec'.windows = exec.windows
        /\ exec'.frames = exec.frames /\ exec'.whole = exec.whole
    <2>1. CASE op.name = "sync"
      <3>1. exec' = [exec EXCEPT !.outcomes = @ \cap (op.want.on \cup exec.handles)]
        BY <2>1 DEF Return
      <3> QED BY <1>2, <3>1 DEF Executions
    <2>2. CASE op.name # "sync"
      BY <2>2 DEF Return
    <2> QED BY <2>1, <2>2
  <1>6. targets'[k] = targets[k]
    <2>1. k \in DOMAIN adapters /\ adapters[k].open
      BY <1>2 DEF Typed, ExecutionTyped
    <2> QED BY <1>1, <2>1 DEF EndClosed
  <1>7. \/ /\ op.name \in {"launch", "resume"} /\ ~op.settling
           /\ op' = [Follow(<<Step("window")>>) EXCEPT !.settling = TRUE]
           /\ UNCHANGED <<answer, view>>
        \/ /\ op.name \in {"launch", "resume"} /\ op.settling /\ op' = Idle /\ answer' = "stopped"
           /\ view' = [phase |-> "Stopped", windows |-> 1, whole |-> exec.whole]
        \/ /\ op.name = "stack" /\ op' = Idle /\ answer' = "done"
           /\ view' = [view EXCEPT !.windows = op.page + 1, !.whole = exec.whole]
        \/ op' = Idle /\ answer' = "done" /\ view' = view
    <2> HIDE DEF k
    <2>1. CASE op.name \in {"launch", "resume"} /\ ~op.settling
      <3>1. /\ (op.name \in {"launch", "resume"} /\ ~op.settling) = TRUE
            /\ (op.name \in {"launch", "resume"} /\ op.settling) = FALSE
            /\ (op.name = "stack") = FALSE
        BY <2>1
      <3> QED BY <2>1, <3>1 DEF Return
    <2>2. CASE op.name \in {"launch", "resume"} /\ op.settling
      <3>1. /\ (op.name \in {"launch", "resume"} /\ ~op.settling) = FALSE
            /\ (op.name \in {"launch", "resume"} /\ op.settling) = TRUE
            /\ (op.name = "stack") = FALSE
        BY <2>2
      <3> QED BY <2>2, <3>1 DEF Return, Answers
    <2>3. CASE op.name = "stack"
      <3>1. /\ (op.name \in {"launch", "resume"} /\ ~op.settling) = FALSE
            /\ (op.name \in {"launch", "resume"} /\ op.settling) = FALSE
            /\ (op.name = "stack") = TRUE
        BY <2>3
      <3> QED BY <2>3, <3>1 DEF Return, Answers
    <2>4. CASE op.name \notin {"launch", "resume", "stack"}
      <3>1. /\ (op.name \in {"launch", "resume"} /\ ~op.settling) = FALSE
            /\ (op.name \in {"launch", "resume"} /\ op.settling) = FALSE
            /\ (op.name = "stack") = FALSE
        BY <2>4
      <3> QED BY <2>4, <3>1 DEF Return, Answers
    <2> QED BY <2>1, <2>2, <2>3, <2>4
  <1>8. answer' \notin {"failed", "timed out", "refused", "rejected"}
    BY <1>7 DEF Clean
  <1>9. Planned(op', exec') /\ Framed(op', exec', view')
    <2>1. CASE /\ op.name \in {"launch", "resume"} /\ ~op.settling
               /\ op' = [Follow(<<Step("window")>>) EXCEPT !.settling = TRUE]
               /\ UNCHANGED <<answer, view>>
      <3>1. /\ op'.todo = <<Step("window")>> /\ op'.name = op.name /\ op'.failing = op.failing
            /\ op'.waits = NoRequest /\ op'.stale = op.stale
        BY <1>2, <2>1 DEF Operations, Follow
      <3>2. Chained(op') /\ Ahead(op') = "window"
        <4>1. "done" \in Then(op'.name, "window")
          BY DEF Then, Changes, Resumptions
        <4> QED BY <3>1, <4>1, ShortChains
      <3>3. Planned(op', exec')
        BY <1>4, <1>5, <3>1, <3>2 DEF Planned, Where, Changes, Resumptions
      <3>4. Framed(op', exec', view')
        BY <1>4, <1>5, <2>1, <3>1, <3>2 DEF Framed
      <3> QED BY <3>3, <3>4
    <2>2. CASE op' = Idle
      <3>1. Planned(op', exec') /\ Ahead(op') = "done" /\ op'.name = "idle"
        BY <1>4, <1>5, <2>2, IdlePlanned
      <3>2. view'.phase = "Stopped" => exec.frames >= 1
        <4>1. CASE op.name \in {"launch", "resume"}
          BY <1>3, <1>4, <4>1 DEF Framed
        <4>2. CASE op.name = "stack"
          BY <1>4, <4>2 DEF Framed
        <4>3. CASE view' = view
          BY <1>4, <4>3 DEF Framed
        <4> QED BY <1>7, <4>1, <4>2, <4>3
      <3>3. Framed(op', exec', view')
        BY <1>4, <1>5, <3>1, <3>2 DEF Framed
      <3> QED BY <3>1, <3>3
    <2> QED BY <1>7, <2>1, <2>2
  <1> QED BY <1>1, <1>2, <1>3, <1>5, <1>6, <1>8, <1>9, QuietIsClean

\* What lets the execution go.
LEMMA EndStaysClean ==
  ASSUME IInv, Typed, CInv, Clean, Release \/ Complete \/ Discard \/ Close
  PROVE  Clean'
  <1>1. NoExecution.adapter = 0 /\ Spawned.status = "spawned" /\ NoPreparation.status = "none"
    BY DEF NoExecution, Fresh, Spawned, NoPreparation
  <1>2. CASE Release
    <2>1. exec' = NoExecution /\ prep' = Spawned /\ answer' = answer
      BY <1>2 DEF Release, LetGo
    <2>2. ~Has'
      BY <1>1, <2>1 DEF Has
    <2> QED BY <1>1, <2>1, <2>2 DEF Clean
  <1>3. CASE Complete
    <2>1. exec' = NoExecution /\ prep' = Spawned /\ answer' = "exited"
      BY <1>3 DEF Complete, LetGo, Answers
    <2>2. ~Has'
      BY <1>1, <2>1 DEF Has
    <2> QED BY <1>1, <2>1, <2>2 DEF Clean
  <1>4. CASE Discard
    <2>1. op.todo # <<>> /\ Current.command = "discard" /\ At("discard")
      BY <1>4 DEF Discard, At, Current
    <2>2. Has
      BY <2>1, NeedsExecution DEF IInv
    <2>3. Ahead(op) = "discard"
      BY <2>1 DEF Ahead, Current
    <2> QED BY <2>2, <2>3 DEF Clean, Planned, Where, Changes, Resumptions
  <1>5. CASE Close
    <2>1. exec' = NoExecution /\ prep' = NoPreparation /\ answer' = "closed"
      BY <1>5 DEF Close, Answers
    <2>2. ~Has'
      BY <1>1, <2>1 DEF Has
    <2> QED BY <1>1, <2>1, <2>2 DEF Clean
  <1> QED BY <1>2, <1>3, <1>4, <1>5

LEMMA PrepareStartStaysClean ==
  ASSUME IInv, Typed, Typed', Clean, EndClosed, PrepareStart
  PROVE  Clean'
  <1> DEFINE n == Len(adapters) + 1
             a == Written(Process, InitialRequest)
  <1>1. /\ adapters' = Append(adapters, a) /\ prep' = Preparing(n) /\ prep = Spawned
        /\ UNCHANGED <<exec, answer>>
    BY DEF PrepareStart, InitialRequest
  <1>2. ~Has /\ ~Has'
    <2>1. prep # NoPreparation
      BY <1>1 DEF Spawned, NoPreparation
    <2> QED BY <1>1, <2>1 DEF IInv, OneAtATime, Has
  <1>3. /\ AdaptersTyped /\ adapters' \in Seq(Processes) /\ adapters \in Seq(Processes)
    BY DEF Typed, AdaptersTyped
  <1>4. /\ a.requests = <<InitialRequest>> /\ a.messages = <<>> /\ a.exit = Running
        /\ a.open
    BY DEF Written, Process
  <1> HIDE DEF a
  <1>5. n \in DOMAIN adapters' /\ n \notin DOMAIN adapters /\ adapters'[n] = a
    <2> HIDE DEF Processes
    <2>1. Len(adapters) \in Nat /\ DOMAIN adapters = 1 .. Len(adapters)
      BY <1>3
    <2>2. Len(adapters') = n /\ DOMAIN adapters' = 1 .. n /\ adapters'[n] = a
      BY <1>1, <1>3
    <2> QED BY <2>1, <2>2
  <1>6. targets'[n] = Target
    BY <1>3, <1>5, EndClosedTyped
  <1>7. prep'.status = "initializing" /\ prep'.adapter = n
    BY <1>1 DEF Preparing
  <1>8. Len(<<InitialRequest>>) = 1
    OBVIOUS
  <1> HIDE DEF n
  <1>9. ASSUME NEW q, q = n PROVE Clear(prep.adapter)'
    <2>1. prep'.adapter = q /\ adapters'[q] = a /\ targets'[q] = Target
      BY <1>5, <1>6, <1>7, <1>9
    <2>2. /\ IsUp(adapters'[q]) /\ adapters'[q].messages = <<>>
          /\ adapters'[q].requests = <<InitialRequest>>
      BY <1>4, <2>1 DEF IsUp
    <2>3. Len(adapters'[q].requests) = 1
      BY <1>8, <2>2
    <2>4. Target.program = "none" /\ Target.owed = <<>>
      BY DEF Target
    <2>5. targets'[q].program = "none" /\ targets'[q].owed = <<>>
      BY <2>1, <2>4
    <2>6. Clear(q)'
      BY <1>7, <2>2, <2>3, <2>5 DEF Clear
    <2> QED BY <2>1, <2>6 DEF Clear
  <1>10. Clear(prep.adapter)'
    BY <1>9
  <1> QED BY <1>1, <1>2, <1>7, <1>10 DEF Clean

LEMMA PrepareReadStaysClean ==
  ASSUME IInv, Typed, Typed', Clean, EndClosed, PrepareRead
  PROVE  Clean'
  <1> DEFINE p == prep.adapter
             r == Response(InitialRequest, TRUE)
  <1>1. /\ prep.status = "initializing" /\ UNCHANGED <<exec, answer>>
        /\ adapters[p].messages # <<>> \/ AtEnd(adapters[p])
    BY DEF PrepareRead
  <1>2. ~Has /\ ~Has'
    <2>1. prep # NoPreparation
      BY <1>1 DEF NoPreparation
    <2> QED BY <1>1, <2>1 DEF IInv, OneAtATime, Has
  <1>3. /\ p \in DOMAIN adapters /\ adapters[p].open /\ AdaptersTyped
        /\ adapters \in Seq(Processes) /\ adapters[p] \in Processes
    BY <1>1, AdapterTypes DEF IInv, OneAtATime, Typed, AdaptersTyped
  <1>4. Clear(p)
    BY <1>1 DEF Clean
  <1>5. /\ IsUp(adapters[p]) /\ targets[p].program = "none" /\ targets[p].owed = <<>>
        /\ adapters[p].requests = <<>> /\ adapters[p].messages = <<r>>
    BY <1>1, <1>4 DEF Clear, AtEnd
  <1>6. /\ r.name = "initialize" /\ r.to = 1 /\ r.ok /\ IsResponse(r)
    BY DEF Response, InitialRequest, Request, IsResponse
  <1> HIDE DEF r
  <1>7. <<r>> # <<>> /\ Head(<<r>>) = r /\ Tail(<<r>>) = <<>>
    OBVIOUS
  <1>8. /\ adapters[p].messages # <<>> /\ Head(adapters[p].messages).name \notin Outputs
        /\ Matches(Head(adapters[p].messages), 1) /\ Head(adapters[p].messages).ok
    BY <1>5, <1>6, <1>7 DEF Outputs, Matches
  <1>9. /\ adapters' = [adapters EXCEPT ![p] = Read(adapters[p])]
        /\ prep' = [prep EXCEPT !.status = "ready"]
    BY <1>8 DEF PrepareRead
  <1>10. adapters'[p] = Read(adapters[p])
    BY <1>3, <1>9
  <1>11. /\ adapters'[p].requests = <<>> /\ adapters'[p].messages = <<>>
         /\ IsUp(adapters'[p]) /\ adapters'[p].open
    BY <1>3, <1>5, <1>7, <1>10 DEF Read, Processes, IsUp
  <1>12. p \in DOMAIN adapters' /\ targets'[p] = targets[p]
    <2>1. p \in DOMAIN adapters'
      BY <1>3, <1>9
    <2>2. adapters' \in Seq(Processes)
      BY DEF Typed, AdaptersTyped
    <2> QED BY <1>3, <1>11, <2>1, <2>2, EndClosedTyped
  <1>13. prep'.status = "ready" /\ prep'.adapter = p
    BY <1>9 DEF IInv, OneAtATime
  <1> HIDE DEF p
  <1>14. ASSUME NEW q, q = p PROVE Clear(prep.adapter)'
    <2>1. /\ prep'.adapter = q /\ targets'[q] = targets[q]
          /\ targets[q].program = "none" /\ targets[q].owed = <<>>
          /\ adapters'[q].requests = <<>> /\ adapters'[q].messages = <<>> /\ IsUp(adapters'[q])
      BY <1>5, <1>11, <1>12, <1>13, <1>14
    <2>2. Clear(q)'
      BY <1>13, <2>1 DEF Clear
    <2> QED BY <2>1, <2>2 DEF Clear
  <1>15. Clear(prep.adapter)'
    BY <1>14
  <1> QED BY <1>1, <1>2, <1>13, <1>15 DEF Clean

LEMMA TakePreparationStaysClean ==
  ASSUME IInv, Typed, Typed', CInv, Clean, EndClosed, TakePreparation
  PROVE  Clean'
  <1> DEFINE p == prep.adapter
  <1>1. op.todo # <<>> /\ Current.command = "prepare" /\ At("prepare") /\ UNCHANGED adapters
    BY DEF TakePreparation, At, Current
  <1>2. ~Has
    <2>1. SUFFICES ASSUME Has PROVE FALSE
      OBVIOUS
    <2>2. Ahead(op) = "prepare"
      BY <1>1 DEF Ahead, Current
    <2> QED BY <2>1, <2>2 DEF Clean, Planned, Where, Changes, Resumptions
  <1>3. /\ prep.status = "ready" /\ exec' = Fresh(p) /\ prep' = NoPreparation
        /\ op' = Follow(LaunchSteps) /\ UNCHANGED <<view, answer>>
    BY <1>2 DEF TakePreparation, Clean
  <1>4. /\ IsUp(adapters[p]) /\ targets[p].program = "none" /\ targets[p].owed = <<>>
        /\ adapters[p].requests = <<>> /\ adapters[p].messages = <<>>
    BY <1>3 DEF Clean, Clear
  <1>5. p \in DOMAIN adapters /\ adapters[p].open /\ targets'[p] = targets[p]
    <2>1. p \in DOMAIN adapters /\ adapters[p].open
      BY <1>3 DEF IInv, OneAtATime
    <2> QED BY <1>1, <2>1 DEF EndClosed
  <1>6. /\ op \in Operations /\ op.name = "launch" /\ ~op.failing /\ applied \in SUBSET Points
        /\ view.phase # "Stopped"
    BY <1>1, <1>2, StepNames DEF Typed, Operates, CInv, Reached, Has
  <1>7. /\ op'.todo = LaunchSteps /\ op'.name = "launch" /\ ~op'.failing /\ op'.waits = NoRequest
    BY <1>3, <1>6 DEF Follow, Operations
  <1>8. Chained(op') /\ Ahead(op') = "launch"
    BY <1>6, <1>7, LaunchChained
  <1>9. exec'.adapter = p /\ exec'.state = "Ready" /\ exec'.inbox = {}
    BY <1>3 DEF Fresh
  <1>10. Connected(exec', op', adapters'[p], targets'[p])
    <2>1. Answerable(<<>>, <<>>, {}) /\ Silent(<<>>)
      BY NoMessage DEF Answerable
    <2>2. Len(<<>>) <= 1
      OBVIOUS
    <2>3. Outstanding(<<>>, op', "Ready")
      BY <2>2 DEF Outstanding
    <2>4. Known("Ready", <<>>, <<>>, "none")
      BY DEF Known
    <2> QED BY <1>1, <1>4, <1>5, <1>9, <2>1, <2>3, <2>4 DEF Connected
  <1>11. Planned(op', exec')
    BY <1>7, <1>8, <1>9 DEF Planned, Where, Changes, Resumptions
  <1>12. Framed(op', exec', view')
    BY <1>3, <1>6, <1>7, <1>8, <1>9 DEF Framed
  <1> HIDE DEF p
  <1>13. Connected(exec', op', adapters'[exec'.adapter], targets'[exec'.adapter])
    BY <1>9, <1>10
  <1>14. prep'.status = "none" /\ answer' = answer
    BY <1>3 DEF NoPreparation
  <1> QED BY <1>11, <1>12, <1>13, <1>14 DEF Clean

\* What the backend does by itself.
LEMMA ClientStaysClean ==
  ASSUME IInv, Typed, Typed', CInv, Clean, ClientActs
  PROVE  Clean'
  <1>1. EndClosed /\ Proceed
    BY DEF ClientActs
  <1>2. CASE PrepareStart
    BY <1>1, <1>2, PrepareStartStaysClean
  <1>3. CASE PrepareRead
    BY <1>1, <1>3, PrepareReadStaysClean
  <1>4. CASE TakePreparation
    BY <1>1, <1>4, TakePreparationStaysClean
  <1>5. CASE Send \/ SkipDisconnect \/ TakeBuffered \/ Receive \/ ReadEnd \/ WaitEnds
             \/ Outcome \/ LoadWindow
    BY <1>1, <1>5, StepStaysClean
  <1>6. CASE Release \/ Complete \/ Discard \/ Close
    BY <1>6, EndStaysClean
  <1>7. CASE Unreadable
    BY <1>1, <1>7, UnreadableStaysClean
  <1>8. CASE Return
    BY <1>1, <1>8, ReturnStaysClean
  <1> QED BY <1>1, <1>2, <1>3, <1>4, <1>5, <1>6, <1>7, <1>8 DEF Proceed

-----------------------------------------------------------------------------
(* What the user asks for at the prompt, and every step.                   *)

\* At the prompt nothing is on its way, and an execution is at a stop.
LEMMA PromptIsQuiet ==
  ASSUME Typed, CInv, Clean, AtPrompt
  PROVE  /\ op.name = "idle" /\ op.todo = <<>> /\ op.waits = NoRequest /\ Ahead(op) = "done"
         /\ Has => InStop /\ Framed(op, exec, view)
         /\ view.phase = "Stopped" => Has /\ exec.frames >= 1
  <1>1. op.name = "idle" /\ op.todo = <<>> /\ op.waits = NoRequest /\ Ahead(op) = "done"
    BY PromptIs DEF Begun, Ahead
  <1>2. Has => InStop /\ Framed(op, exec, view)
    BY <1>1 DEF Clean, Planned, Where, Changes, Resumptions, InStop
  <1>3. view.phase = "Stopped" => Has
    BY PromptIs
  <1> QED BY <1>1, <1>2, <1>3 DEF Framed

\* A call begins with the adapters as they are.
LEMMA CallIsClean ==
  ASSUME IInv, Typed, CInv, Clean, AtPrompt, UNCHANGED <<adapters, prep, exec, targets>>,
         answer' = "none", Has => Planned(op', exec) /\ Framed(op', exec, view')
  PROVE  Clean'
  <1>1. CASE Has
    <2> DEFINE k == exec.adapter
    <2>1. /\ exec'.adapter = k /\ exec'.state = exec.state /\ exec'.inbox = exec.inbox
          /\ targets'[k] = targets[k]
      OBVIOUS
    <2>2. Planned(op', exec') /\ Framed(op', exec', view')
      BY <1>1
    <2>3. op.waits = NoRequest /\ Ahead(op) = "done"
      BY PromptIsQuiet
    <2>4. answer' \notin {"failed", "timed out", "refused", "rejected"}
      OBVIOUS
    <2> HIDE DEF k
    <2>5. ASSUME NEW b, b = k PROVE Clean'
      <3>1. /\ b = exec.adapter /\ exec'.adapter = b /\ targets'[b] = targets[b]
        BY <2>1, <2>5 DEF k
      <3> QED BY <1>1, <2>1, <2>2, <2>3, <2>4, <3>1, QuietIsClean
    <2> QED BY <2>5
  <1>2. CASE ~Has
    <2>1. ~Has'
      BY <1>2 DEF Has
    <2>2. ASSUME NEW p, p = prep.adapter, Clear(p) PROVE Clear(prep.adapter)'
      BY <2>2 DEF Clear
    <2> QED BY <2>1, <2>2 DEF Clean
  <1> QED BY <1>1, <1>2

\* What a call plans from a stop.
LEMMA CallPlanned ==
  ASSUME InStop, NEW name, NEW todo, NEW c, op'.name = name, ~op'.failing,
         op'.waits = NoRequest, op'.stale = FALSE, Chained(op'), Ahead(op') = c,
         \/ c \in Resumptions \cup {"window", "scopes", "variables", "disconnect", "done"}
         \/ c \in Changes /\ name = "sync"
  PROVE  Planned(op', exec)
  <1>1. "Stopped" \in Where(name, c, FALSE)
    BY DEF Where, Changes, Resumptions
  <1> QED BY <1>1 DEF Planned, InStop

LEMMA LaunchIsClean ==
  ASSUME IInv, Typed, CInv, Clean, UNCHANGED targets, NEW want, Launch(want)
  PROVE  Clean'
  <1>1. /\ AtPrompt /\ UNCHANGED <<adapters, prep, exec, targets>> /\ answer' = "none"
    BY DEF Launch, Begins
  <1>2. ASSUME Has PROVE Planned(op', exec) /\ Framed(op', exec, view')
    <2> DEFINE todo == <<Step("disconnect"), Step("release")>>
    <2>1. InStop /\ Framed(op, exec, view)
      BY <1>1, <1>2, PromptIsQuiet
    <2>2. op' = [Doing("launch", todo) EXCEPT !.filter = TRUE]
      BY <1>2, <2>1 DEF Launch, Begins, InStop
    <2>3. /\ op'.name = "launch" /\ op'.todo = todo /\ op'.waits = NoRequest
          /\ ~op'.failing /\ op'.stale = FALSE
      BY <2>2 DEF Doing
    <2>4. Chained(op') /\ Ahead(op') = "disconnect"
      <3>1. "release" \in Then("launch", "disconnect") /\ "done" \in Then("launch", "release")
        BY DEF Then, Changes, Resumptions
      <3> QED BY <2>3, <3>1, ShortChains
    <2>5. Planned(op', exec)
      BY <2>1, <2>3, <2>4, CallPlanned
    <2>6. view'.phase # "Stopped"
      BY DEF Launch, Begins, Viewing
    <2>7. Framed(op', exec, view')
      BY <2>1, <2>3, <2>4, <2>6 DEF Framed
    <2> QED BY <2>5, <2>7
  <1> QED BY <1>1, <1>2, CallIsClean

LEMMA ResumeIsClean ==
  ASSUME IInv, Typed, CInv, Clean, UNCHANGED targets, NEW command \in {"continue", "next"},
         Resume(command)
  PROVE  Clean'
  <1> DEFINE todo == <<Step(command), Step("stable"), Step("outcome")>>
  <1>1. AtPrompt /\ view.phase = "Stopped"
    BY DEF Resume
  <1>2. InStop /\ Framed(op, exec, view)
    BY <1>1, PromptIsQuiet
  <1>3. /\ op' = [Doing("resume", todo) EXCEPT !.filter = (command = "continue")]
        /\ view'.phase # "Stopped" /\ answer' = "none"
        /\ UNCHANGED <<adapters, prep, exec, targets>>
    BY <1>1, <1>2 DEF Resume, InvokeInStop, Begins, Viewing
  <1>4. /\ op'.name = "resume" /\ op'.todo = todo /\ op'.waits = NoRequest
        /\ ~op'.failing /\ op'.stale = FALSE
    BY <1>3 DEF Doing
  <1>5. Chained(op') /\ Ahead(op') = command
    <2>1. /\ "stable" \in Then("resume", command) /\ "outcome" \in Then("resume", "stable")
          /\ "done" \in Then("resume", "outcome")
      BY DEF Then, Changes, Resumptions
    <2> QED BY <1>4, <2>1, ShortChains
  <1>6. Planned(op', exec)
    BY <1>2, <1>4, <1>5, CallPlanned DEF Resumptions
  <1>7. Framed(op', exec, view')
    BY <1>2, <1>3, <1>4, <1>5 DEF Framed
  <1> QED BY <1>1, <1>3, <1>6, <1>7, CallIsClean

LEMMA InspectIsClean ==
  ASSUME IInv, Typed, CInv, Clean, UNCHANGED targets, NEW name \in {"find", "locals"},
         Inspect(name)
  PROVE  Clean'
  <1> DEFINE scopes == IF "scopes" \in exec.read THEN <<>> ELSE <<Step("scopes")>>
             variables == IF "variables" \in exec.read THEN <<>> ELSE <<Step("variables")>>
             todo == scopes \o variables
  <1>1. AtPrompt /\ view.phase = "Stopped"
    BY DEF Inspect
  <1>2. InStop /\ Framed(op, exec, view)
    BY <1>1, PromptIsQuiet
  <1>3. /\ op' = Doing(name, todo) /\ view' = view /\ answer' = "none"
        /\ UNCHANGED <<adapters, prep, exec, targets>>
    BY <1>1, <1>2 DEF Inspect, InvokeInStop, Begins
  <1>4. /\ op'.name = name /\ op'.todo = todo /\ op'.waits = NoRequest
        /\ ~op'.failing /\ op'.stale = FALSE
    BY <1>3 DEF Doing
  <1>5. Chained(op') /\ Ahead(op') \in {"scopes", "variables", "done"}
    <2>1. /\ "variables" \in Then(name, "scopes") /\ "done" \in Then(name, "scopes")
          /\ "done" \in Then(name, "variables")
      BY DEF Then, Changes, Resumptions
    <2>2. \/ op'.todo = <<>> \/ op'.todo = <<Step("scopes")>> \/ op'.todo = <<Step("variables")>>
          \/ op'.todo = <<Step("scopes"), Step("variables")>>
      <3> DEFINE x == <<Step("scopes")>>
                 y == <<Step("variables")>>
                 z == <<Step("scopes"), Step("variables")>>
                 T == {Step("scopes"), Step("variables")}
      <3>1. <<>> \o <<>> = <<>> /\ x \o <<>> = x /\ <<>> \o y = y
        OBVIOUS
      <3>2. x \o y = z
        <4>1. Step("scopes") \in T /\ Step("variables") \in T
          OBVIOUS
        <4> HIDE DEF T
        <4> QED BY <4>1, PairOfTwo
      <3>3. scopes \in {<<>>, x} /\ variables \in {<<>>, y}
        OBVIOUS
      <3> HIDE DEF scopes, variables
      <3>4. op'.todo = scopes \o variables
        BY <1>4
      <3> HIDE DEF x, y, z
      <3>5. op'.todo = <<>> \/ op'.todo = x \/ op'.todo = y \/ op'.todo = z
        BY <3>1, <3>2, <3>3, <3>4
      <3> QED BY <3>5 DEF x, y, z
    <2> QED BY <1>4, <2>1, <2>2, ShortChains
  <1> HIDE DEF todo
  <1>6. Planned(op', exec)
    BY <1>2, <1>4, <1>5, CallPlanned
  <1>7. Framed(op', exec, view')
    BY <1>2, <1>3, <1>4, <1>5 DEF Framed
  <1> QED BY <1>1, <1>3, <1>6, <1>7, CallIsClean

LEMMA ExtendIsClean ==
  ASSUME IInv, Typed, CInv, Clean, UNCHANGED targets, Extend
  PROVE  Clean'
  <1> DEFINE todo == <<Step("window")>>
  <1>1. AtPrompt /\ view.phase = "Stopped"
    BY DEF Extend
  <1>2. InStop /\ Framed(op, exec, view) /\ exec.frames >= 1
    BY <1>1, PromptIsQuiet
  <1>3. /\ op' = [Doing("stack", todo) EXCEPT !.page = view.windows]
        /\ view' = view /\ answer' = "none"
        /\ UNCHANGED <<adapters, prep, exec, targets>>
    BY <1>1 DEF Extend, Begins
  <1>4. /\ op'.name = "stack" /\ op'.todo = todo /\ op'.waits = NoRequest
        /\ ~op'.failing /\ op'.stale = FALSE
    BY <1>3 DEF Doing
  <1>5. Chained(op') /\ Ahead(op') = "window"
    <2>1. "done" \in Then("stack", "window")
      BY DEF Then, Changes, Resumptions
    <2> QED BY <1>4, <2>1, ShortChains
  <1>6. Planned(op', exec)
    BY <1>2, <1>4, <1>5, CallPlanned
  <1>7. Framed(op', exec, view')
    BY <1>2, <1>3, <1>4, <1>5 DEF Framed
  <1> QED BY <1>1, <1>3, <1>6, <1>7, CallIsClean

LEMMA QuitIsClean ==
  ASSUME IInv, Typed, CInv, Clean, UNCHANGED targets, Quit
  PROVE  Clean'
  <1>1. /\ AtPrompt /\ UNCHANGED <<adapters, prep, exec, targets>> /\ answer' = "none"
    BY DEF Quit, Begins
  <1>2. ASSUME Has PROVE Planned(op', exec) /\ Framed(op', exec, view')
    <2> DEFINE todo == <<Step("disconnect"), Step("close")>>
    <2>1. InStop /\ Framed(op, exec, view)
      BY <1>1, <1>2, PromptIsQuiet
    <2>2. op' = Doing("quit", todo)
      BY <1>2 DEF Quit, Begins
    <2>3. /\ op'.name = "quit" /\ op'.todo = todo /\ op'.waits = NoRequest
          /\ ~op'.failing /\ op'.stale = FALSE
      BY <2>2 DEF Doing
    <2>4. Chained(op') /\ Ahead(op') = "disconnect"
      <3>1. "close" \in Then("quit", "disconnect") /\ "done" \in Then("quit", "close")
        BY DEF Then, Changes, Resumptions
      <3> QED BY <2>3, <3>1, ShortChains
    <2>5. Planned(op', exec)
      BY <2>1, <2>3, <2>4, CallPlanned
    <2>6. view'.phase # "Stopped"
      BY DEF Quit, Begins, Viewing
    <2>7. Framed(op', exec, view')
      BY <2>1, <2>3, <2>4, <2>6 DEF Framed
    <2> QED BY <2>5, <2>7
  <1> QED BY <1>1, <1>2, CallIsClean

LEMMA SynchronizeIsClean ==
  ASSUME IInv, Typed, Typed', CInv, Clean, UNCHANGED targets, NEW want \in Wants, Synchronize(want)
  PROVE  Clean'
  <1> DEFINE todo == SynchronizationSteps(want)
             tables == targets[exec.adapter].tables
  <1>1. AtPrompt /\ view.phase = "Stopped"
    BY DEF Synchronize
  <1>2. InStop /\ Framed(op, exec, view)
    BY <1>1, PromptIsQuiet
  <1>3. /\ op' = [Doing("sync", todo) EXCEPT !.want = want]
        /\ view' = view /\ answer' = "none"
        /\ UNCHANGED <<adapters, prep, exec, targets>>
    BY <1>1, <1>2 DEF Synchronize, Begins, InStop
  <1>4. /\ op'.name = "sync" /\ op'.todo = todo /\ op'.waits = NoRequest
        /\ ~op'.failing /\ op'.stale = FALSE
    BY <1>3 DEF Doing
  <1>5. todo \in Seq(ChangeSteps(want.on))
    <2>1. /\ Begun(op, "idle", <<>>, 0) /\ ~op.failing /\ op.waits = NoRequest
          /\ \A p \in Points : SettledIn(p, exec, tables, applied)
      BY <1>1, <1>2, PromptIs DEF Over, Begun, InStop
    <2>2. /\ want \in Configurations /\ want.on \cap Families \subseteq want.known
          /\ applied \in SUBSET Points /\ exec.handles \in SUBSET Families
          /\ exec.active \in SUBSET Families /\ exec.active \subseteq exec.handles
      BY DEF Typed, ExecutionTyped, Executions, Coherent, Wants
    <2>3. applied \cap Families = exec.active
      BY <2>1, <2>2 DEF SettledIn, Families, OfKind
    <2> QED BY <2>2, <2>3, SynchronizationCovers
  <1>6. todo \in Seq(Steps) /\ \A i \in DOMAIN todo : todo[i].command \in Changes
    <2> DEFINE K == ChangeSteps(want.on)
    <2>1. K \subseteq Steps /\ \A s \in K : s.command \in Changes
      BY DEF ChangeSteps, Wants, Configurations
    <2> HIDE DEF K, todo, Steps
    <2>2. todo \in Seq(K)
      BY <1>5 DEF K
    <2> QED BY <2>1, <2>2
  <1> HIDE DEF todo
  <1>7. Chained(op') /\ Ahead(op') \in Changes \cup {"done"}
    <2> HIDE DEF Steps
    <2> QED BY <1>4, <1>6, ChangesChained
  <1>8. Planned(op', exec)
    BY <1>2, <1>4, <1>7, CallPlanned
  <1>9. Framed(op', exec, view')
    BY <1>2, <1>3, <1>4, <1>7 DEF Framed, Changes
  <1> QED BY <1>1, <1>3, <1>8, <1>9, CallIsClean

LEMMA UserStaysClean ==
  ASSUME IInv, Typed, Typed', CInv, Clean, UserCalls
  PROVE  Clean'
  <1>1. UNCHANGED targets
    BY DEF UserCalls
  <1>2. \/ \E want \in Wants : Launch(want) \/ Synchronize(want)
        \/ \E command \in {"continue", "next"} : Resume(command)
        \/ \E name \in {"find", "locals"} : Inspect(name)
        \/ Extend \/ Quit
    BY DEF UserCalls
  <1>3. ASSUME NEW want \in Wants, Launch(want) PROVE Clean'
    BY <1>1, <1>3, LaunchIsClean
  <1>4. ASSUME NEW want \in Wants, Synchronize(want) PROVE Clean'
    BY <1>1, <1>4, SynchronizeIsClean
  <1>5. ASSUME NEW command \in {"continue", "next"}, Resume(command) PROVE Clean'
    BY <1>1, <1>5, ResumeIsClean
  <1>6. ASSUME NEW name \in {"find", "locals"}, Inspect(name) PROVE Clean'
    BY <1>1, <1>6, InspectIsClean
  <1> QED BY <1>1, <1>2, <1>3, <1>4, <1>5, <1>6, ExtendIsClean, QuitIsClean

\* What goes wrong is counted.
LEMMA FaultsCount ==
  ASSUME IInv, [Next]_system
  PROVE  /\ faults \in Nat /\ faults' \in Nat /\ faults' >= faults
         /\ TimeActs => faults' # 0
  <1>1. faults \in Nat
    BY DEF IInv, AdaptersAreOwned
  <1>2. CASE UserCalls \/ ClientActs \/ UNCHANGED system
    <2>1. faults' = faults
      BY <1>2 DEF UserCalls, ClientActs, system
    <2>2. TimeActs => faults' = faults + 1
      BY DEF TimeActs, Fault
    <2> QED BY <1>1, <2>1, <2>2
  <1>3. CASE TimeActs
    <2>1. faults' = faults + 1
      BY <1>3 DEF TimeActs, Fault
    <2> QED BY <1>1, <2>1
  <1>4. CASE AdaptersAct
    <2>1. faults' \in Nat /\ faults' >= faults
      BY <1>1, <1>4, ActsAlone DEF AdaptersAct
    <2>2. TimeActs => faults' = faults + 1
      BY DEF TimeActs, Fault
    <2> QED BY <1>1, <2>1, <2>2
  <1> QED BY <1>2, <1>3, <1>4 DEF Next

LEMMA CleanAtFirst == SystemInit => Clean
  <1> SUFFICES ASSUME SystemInit PROVE Clean
    OBVIOUS
  <1>1. prep = Spawned /\ exec = NoExecution /\ answer = "none"
    BY DEF SystemInit, Init
  <1>2. Spawned.status = "spawned" /\ NoExecution.adapter = 0
    BY DEF Spawned, NoExecution, Fresh
  <1>3. ~Has
    BY <1>1, <1>2 DEF Has
  <1> QED BY <1>1, <1>2, <1>3 DEF Clean

LEMMA NextStaysClean ==
  ASSUME IInv, Typed, CInv, CleanInv, [Next]_system
  PROVE  CleanInv'
  <1> SUFFICES ASSUME faults' = 0 PROVE Clean'
    BY DEF CleanInv
  <1>1. /\ faults = 0 /\ faults' = faults /\ ~TimeActs
    BY FaultsCount
  <1>2. Clean
    BY <1>1 DEF CleanInv
  <1>3. Typed'
    BY StepIsTyped
  <1>4. CASE UserCalls
    BY <1>2, <1>3, <1>4, UserStaysClean
  <1>5. CASE ClientActs
    BY <1>2, <1>3, <1>5, ClientStaysClean
  <1>6. CASE AdaptersAct
    BY <1>1, <1>2, <1>6, CleanActs
  <1>7. CASE UNCHANGED system
    <2>1. /\ prep' = prep /\ exec' = exec /\ op' = op /\ view' = view /\ answer' = answer
          /\ adapters' = adapters /\ targets' = targets
      BY <1>7 DEF system
    <2>2. Has' = Has
      BY <2>1 DEF Has
    <2>3. ASSUME NEW p, p = prep.adapter, Clear(p) PROVE Clear(prep.adapter)'
      BY <2>1, <2>3 DEF Clear
    <2> QED BY <1>2, <2>1, <2>2, <2>3 DEF Clean
  <1> QED BY <1>1, <1>4, <1>5, <1>6, <1>7 DEF Next

\* Without a fault no operation fails, is refused or rejected, or takes too long: in
\* every state the client's step is one that the adapter's answer allows
\* (session.mbt, execution.mbt).
THEOREM NeverFailsForNothing == Spec => []FailsForCause
  <1>1. SystemInit => CleanInv
    BY CleanAtFirst DEF CleanInv
  <1>2. IInv /\ Typed /\ CInv /\ CleanInv /\ [Next]_system => CleanInv'
    BY NextStaysClean
  <1>3. IInv /\ CleanInv => FailsForCause
    <2>1. CleanInv /\ faults = 0 => answer \notin {"failed", "timed out", "refused", "rejected"}
      BY DEF CleanInv, Clean
    <2>2. IInv /\ faults # 0 => faults > 0
      BY DEF IInv, AdaptersAreOwned
    <2> QED BY <2>1, <2>2 DEF FailsForCause
  <1> QED BY <1>1, <1>2, <1>3, Invariant, TypesHold, BreakpointsAreFollowed, PTL DEF Spec
=============================================================================
