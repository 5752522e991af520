--------------------------- MODULE LldbSystemProofs ---------------------------
(***************************************************************************)
(* Two results on the backend with its adapters, for any sources, functions   *)
(* and families and any number of operations and faults.  First who owns an   *)
(* adapter process, the theorem behind NothingLeaks of LldbSystem.  Its proof *)
(* needs nothing of what messages and steps are about: an action works within *)
(* an execution and on its adapter only, or lets it go, or is the             *)
(* preparation's.  Then what messages and steps are about: the exact types of *)
(* all variables, from which TypeOK follows.                                  *)
(***************************************************************************)
EXTENDS LldbSystem, FiniteSetTheorems, SequenceTheorems, TLAPS

InitialRequest == Request(1, "initialize", "none", {}, NoThread)

\* A sequence of whatever its elements are.
IsSequence(s) == s \in Seq({s[i] : i \in DOMAIN s})

\* An adapter that no execution has was asked to initialize at most, and has no
\* program that lives.
Untouched(a) ==
    /\ {"requests", "messages", "exit", "open"} \subseteq DOMAIN adapters[a]
    /\ adapters[a].requests \in Seq({InitialRequest})
    /\ "program" \in DOMAIN targets[a]
    /\ ~Alive(targets[a])

AdaptersAreOwned ==
    /\ IsSequence(adapters)
    /\ DOMAIN targets = DOMAIN adapters
    /\ \A a \in DOMAIN adapters : adapters[a].open /\ a # exec.adapter =>
          Untouched(a) /\ (Owned(a) \/ a \in dropped)

\* An execution takes the place of the preparation.
OneAtATime ==
    /\ "adapter" \in DOMAIN exec
    /\ prep \in [status : {"spawned", "initializing", "ready", "failed", "none"},
                 adapter : Nat]
    /\ prep.status \in {"initializing", "ready"} =>
          prep.adapter \in DOMAIN adapters /\ adapters[prep.adapter].open
    /\ Has => prep = NoPreparation

\* Without an execution there is nothing to be done with one.
NothingToDo ==
    /\ {"todo", "waits"} \subseteq DOMAIN op
    /\ ~Has =>
          \/ op = Idle
          \/ op.waits = NoRequest
             /\ op.todo \in {<<Step("prepare")>>, <<Step("close")>>}

NoneWhenClosed ==
    answer = "closed" =>
        /\ AtPrompt /\ ~Has /\ prep = NoPreparation
        /\ \A a \in DOMAIN adapters : ~adapters[a].open

IInv ==
    /\ faults \in Nat
    /\ AdaptersAreOwned
    /\ OneAtATime
    /\ NothingToDo
    /\ NoneWhenClosed

-----------------------------------------------------------------------------
(* Sequences of anything.                                                   *)

LEMMA EmptyIsSequence == IsSequence(<<>>)
  BY DEF IsSequence

LEMMA SequenceOfItsOwn ==
  ASSUME NEW S, NEW s \in Seq(S)
  PROVE  IsSequence(s)
  <1> DEFINE E == {s[i] : i \in DOMAIN s}
  <1>1. Len(s) \in Nat /\ DOMAIN s = 1 .. Len(s) /\ s = [i \in 1 .. Len(s) |-> s[i]]
    OBVIOUS
  <1>2. \A i \in 1 .. Len(s) : s[i] \in E
    BY <1>1
  <1>3. s \in Seq(E)
    BY <1>1, <1>2
  <1> QED BY <1>3 DEF IsSequence

LEMMA LikeASequence ==
  ASSUME NEW s, IsSequence(s), NEW t, t = [i \in DOMAIN s |-> t[i]]
  PROVE  IsSequence(t) /\ DOMAIN t = DOMAIN s
  BY DEF IsSequence

LEMMA AppendIsSequence ==
  ASSUME NEW s, IsSequence(s), NEW x
  PROVE  /\ IsSequence(Append(s, x))
         /\ Len(s) \in Nat /\ DOMAIN s = 1 .. Len(s)
         /\ DOMAIN Append(s, x) = 1 .. Len(s) + 1
         /\ \A i \in DOMAIN s : Append(s, x)[i] = s[i]
         /\ Append(s, x)[Len(s) + 1] = x
  <1> DEFINE S == {s[i] : i \in DOMAIN s} \cup {x}
  <1>1. s \in Seq(S) /\ x \in S
    BY DEF IsSequence
  <1>2. Append(s, x) \in Seq(S)
    BY <1>1
  <1>3. Len(s) \in Nat /\ DOMAIN s = 1 .. Len(s) /\ DOMAIN Append(s, x) = 1 .. Len(s) + 1
    BY <1>1
  <1>4. /\ \A i \in DOMAIN s : Append(s, x)[i] = s[i]
        /\ Append(s, x)[Len(s) + 1] = x
    BY <1>1, <1>3
  <1>5. IsSequence(Append(s, x))
    BY <1>2, SequenceOfItsOwn
  <1> QED BY <1>3, <1>4, <1>5

-----------------------------------------------------------------------------
(* What keeps the adapter of an execution.                                   *)

Keeps(x, y) == "adapter" \in DOMAIN x => "adapter" \in DOMAIN y /\ y.adapter = x.adapter

LEMMA AcceptedKeeps ==
  ASSUME NEW x, NEW m
  PROVE  Keeps(x, Accepted(x, m))
  BY DEF Keeps, Accepted, Blank

LEMMA EndsKeep ==
  ASSUME NEW x
  PROVE  Keeps(x, Failed(x)) /\ Keeps(x, Finished(x))
  BY DEF Keeps, Failed, Finished

LEMMA ConfiguredKeeps ==
  ASSUME NEW x, NEW s
  PROVE  Keeps(x, Configured(x, s))
  BY DEF Keeps, Configured

-----------------------------------------------------------------------------
(* The actions that work within an execution.                                *)

\* Such an action leaves every adapter alone but the one of the execution.
Within ==
    /\ Has /\ exec'.adapter = exec.adapter /\ "adapter" \in DOMAIN exec'
    /\ \/ adapters' = adapters
       \/ \E x : adapters' = [adapters EXCEPT ![exec.adapter] = x]
    /\ UNCHANGED prep
    /\ {"todo", "waits"} \subseteq DOMAIN op'
    /\ answer' # "closed"

IsOp(o) == {"todo", "waits"} \subseteq DOMAIN o

\* Operations are records however they go on.
LEMMA OperationsStay ==
  ASSUME IsOp(op)
  PROVE  /\ IsOp(Advanced) /\ IsOp(Recovering) /\ IsOp(Looked) /\ IsOp(Idle)
         /\ \A todo : IsOp(Follow(todo))
         /\ \A todo : Follow(todo).todo = todo /\ Follow(todo).waits = NoRequest
  BY DEF IsOp, Advanced, Recovering, Looked, Follow, Idle, Doing

\* Without an execution an operation can only wait for one, or close.
LEMMA NeedsExecution ==
  ASSUME NothingToDo
  PROVE  /\ IsOp(op)
         /\ \A c : c \notin {"prepare", "close"} /\ At(c) => Has
         /\ op.waits # NoRequest => Has
         /\ op.todo # <<>> /\ Current.command \notin {"prepare", "close"} => Has
         /\ op.name # "idle" /\ op.todo = <<>> => Has
         /\ Waiting => Has
  <1>1. IsOp(op)
    BY DEF NothingToDo, IsOp
  <1>2. Idle.todo = <<>> /\ Idle.waits = NoRequest /\ Idle.name = "idle"
    BY DEF Idle, Doing
  <1>3. \A c : Len(<<Step(c)>>) = 1 /\ <<Step(c)>> # <<>> /\ Head(<<Step(c)>>).command = c
    BY DEF Step
  <1>4. ~Has => op.waits = NoRequest
    BY <1>2 DEF NothingToDo
  <1>5. ~Has => (op.todo = <<>> /\ op.name = "idle")
                \/ (op.todo # <<>> /\ Head(op.todo).command \in {"prepare", "close"})
    BY <1>2, <1>3 DEF NothingToDo
  <1>6. \A c : c \notin {"prepare", "close"} /\ At(c) => Has
    BY <1>5 DEF At
  <1>7. Waiting => Has
    BY <1>4, <1>6 DEF Waiting
  <1> QED BY <1>1, <1>4, <1>5, <1>6, <1>7 DEF Current

\* The answer of an operation that is not over is not "closed".
LEMMA NotClosed ==
  ASSUME NoneWhenClosed
  PROVE  Has \/ op # Idle => answer # "closed"
  BY DEF NoneWhenClosed, AtPrompt

LEMMA FailsWithin ==
  ASSUME NEW x, Keeps(exec, x), "adapter" \in DOMAIN exec, IsOp(op), NEW lost, Fails(x, lost)
  PROVE  /\ exec'.adapter = exec.adapter /\ "adapter" \in DOMAIN exec'
         /\ IsOp(op')
  BY EndsKeep, OperationsStay DEF Fails, Keeps

LEMMA MatchWithin ==
  ASSUME NEW x, Keeps(exec, x), "adapter" \in DOMAIN exec, IsOp(op), NEW r, Match(x, r)
  PROVE  /\ exec'.adapter = exec.adapter /\ "adapter" \in DOMAIN exec'
         /\ IsOp(op')
  <1> DEFINE Good == /\ exec'.adapter = exec.adapter /\ "adapter" \in DOMAIN exec'
                     /\ IsOp(op')
  <1>1. ASSUME Fails(x, FALSE) PROVE Good
    BY <1>1, FailsWithin
  <1>2. ASSUME exec' = x, op' \in {Advanced, [op EXCEPT !.launched = TRUE], Looked}
        PROVE  Good
    BY <1>2, OperationsStay DEF Keeps, IsOp
  <1>3. ASSUME exec' = x, NEW todo, op' = Follow(todo) PROVE Good
    BY <1>3, OperationsStay DEF Keeps
  <1>4. ASSUME exec' = Finished(x), op' = Advanced PROVE Good
    BY <1>4, OperationsStay, EndsKeep DEF Keeps
  <1>5. ASSUME exec' = Configured(x, Current), op' = Looked PROVE Good
    BY <1>5, OperationsStay, ConfiguredKeeps DEF Keeps
  <1>6. \/ exec' = Finished(x) /\ op' = Advanced
        \/ exec' = x /\ op' = [op EXCEPT !.launched = TRUE]
        \/ exec' = [x EXCEPT !.thread = 1] /\ op' = Advanced
        \/ /\ exec' = [x EXCEPT !.windows = @ \cup {op.page}, !.frames = op.page + 1,
                                !.whole = ~r.full]
           /\ op' = Advanced
        \/ exec' = [x EXCEPT !.read = @ \cup {Current.command}] /\ op' = Advanced
        \/ exec' = x /\ op' = Follow(<<Step("unreadable")>>)
        \/ /\ exec' = x
           /\ op' \in {Advanced}
                      \cup IF r.ok /\ StillThere
                           THEN {Follow(<<Step("continue"), Step("stable"),
                                          Step("outcome")>>)}
                           ELSE {}
        \/ exec' = Configured(x, Current) /\ op' = Looked
        \/ exec' = x /\ op' = Advanced
        \/ Fails(x, FALSE)
    BY Zenon DEF Match
  <1>7. ASSUME exec' = x,
               op' \in {Advanced}
                       \cup IF r.ok /\ StillThere
                            THEN {Follow(<<Step("continue"), Step("stable"),
                                           Step("outcome")>>)}
                            ELSE {}
        PROVE  Good
    <2>1. op' = Advanced \/ op' = Follow(<<Step("continue"), Step("stable"),
                                           Step("outcome")>>)
      BY <1>7
    <2> QED BY <2>1, <1>7, <1>2, <1>3
  <1>8. ASSUME exec' = [x EXCEPT !.thread = 1], op' = Advanced PROVE Good
    BY <1>8, OperationsStay DEF Keeps
  <1>9. ASSUME exec' = [x EXCEPT !.read = @ \cup {Current.command}], op' = Advanced
         PROVE  Good
    BY <1>9, OperationsStay DEF Keeps
  <1>10. ASSUME exec' = [x EXCEPT !.windows = @ \cup {op.page}, !.frames = op.page + 1,
                                  !.whole = ~r.full], op' = Advanced
         PROVE  Good
    BY <1>10, OperationsStay DEF Keeps
  <1>11. ASSUME exec' = x, op' = [op EXCEPT !.launched = TRUE] \/ op' = Advanced
         PROVE  Good
    BY <1>11, <1>2
  <1>12. ASSUME exec' = x, op' = Follow(<<Step("unreadable")>>) PROVE Good
    BY <1>12, <1>3
  <1> HIDE DEF Good
  <1>13. Good
    BY <1>1, <1>4, <1>5, <1>6, <1>7, <1>8, <1>9, <1>10, <1>11, <1>12, Zenon
  <1> QED BY <1>13 DEF Good

LEMMA SendWithin ==
  ASSUME OneAtATime, NothingToDo, NoneWhenClosed, Send
  PROVE  Within
  <1>1. Has /\ IsOp(op) /\ "adapter" \in DOMAIN exec /\ answer # "closed"
    BY NeedsExecution, NotClosed DEF Send, Awaited, Resumptions, OneAtATime
  <1>2. Keeps(exec, Sending(Current.command)) /\ Keeps(exec, exec)
    BY DEF Keeps, Sending, Blank
  <1> DEFINE sent == MaySend(Current.command) /\ Writable(adapters[exec.adapter])
  <1>3. CASE sent
    <2>1. exec' = [Sending(Current.command) EXCEPT !.next = @ + 1]
      BY <1>3 DEF Send
    <2>2. exec'.adapter = exec.adapter /\ "adapter" \in DOMAIN exec'
      BY <2>1, <1>1, <1>2 DEF Keeps
    <2>3. op' = [Advanced EXCEPT !.launch = exec.next] \/ op' = [op EXCEPT !.waits = exec.next, !.stale = FALSE]
      BY <1>3 DEF Send
    <2>4. IsOp(op')
      BY <2>3, <1>1, OperationsStay DEF IsOp
    <2>5. \E x : adapters' = [adapters EXCEPT ![exec.adapter] = x]
      BY <1>3 DEF Send
    <2> QED BY <1>1, <2>2, <2>4, <2>5 DEF Within, Send, IsOp
  <1>4. CASE ~sent
    <2>1. adapters' = adapters
      BY <1>4 DEF Send
    <2>2. \E x : Keeps(exec, x) /\ Fails(x, FALSE)
      BY <1>4, <1>2 DEF Send
    <2>3. exec'.adapter = exec.adapter /\ "adapter" \in DOMAIN exec' /\ IsOp(op')
      BY <2>2, <1>1, FailsWithin
    <2> QED BY <1>1, <2>1, <2>3 DEF Within, Send, IsOp
  <1> QED BY <1>3, <1>4

LEMMA ObserveWithin ==
  ASSUME "adapter" \in DOMAIN exec, IsOp(op), NEW e, Observe(e)
  PROVE  /\ exec'.adapter = exec.adapter /\ "adapter" \in DOMAIN exec'
         /\ IsOp(op')
  <1>1. Keeps(exec, exec) /\ Keeps(exec, Accepted(exec, e))
        /\ Keeps(exec, Finished(Accepted(exec, e)))
    BY AcceptedKeeps, EndsKeep DEF Keeps
  <1>2. \/ \E lost : Fails(exec, lost)
        \/ exec' = Finished(Accepted(exec, e)) /\ op' = Advanced
        \/ /\ exec' = Accepted(exec, e)
           /\ op' = [op EXCEPT !.stale = @ \/ e.name = "stopped"]
    BY DEF Observe
  <1>3. CASE \E lost : Fails(exec, lost)
    BY <1>3, <1>1, FailsWithin
  <1>4. CASE exec' = Finished(Accepted(exec, e)) /\ op' = Advanced
    BY <1>4, <1>1, OperationsStay DEF Keeps
  <1>5. CASE /\ exec' = Accepted(exec, e)
             /\ op' = [op EXCEPT !.stale = @ \/ e.name = "stopped"]
    BY <1>5, <1>1 DEF Keeps, IsOp
  <1> QED BY <1>2, <1>3, <1>4, <1>5

LEMMA WaitWithin ==
  ASSUME OneAtATime, NothingToDo, NoneWhenClosed,
         TakeBuffered \/ Receive \/ ReadEnd
  PROVE  Within
  <1>1. Has /\ IsOp(op) /\ "adapter" \in DOMAIN exec /\ answer # "closed"
    BY NeedsExecution, NotClosed DEF TakeBuffered, Receive, ReadEnd, OneAtATime
  <1> DEFINE Good == /\ exec'.adapter = exec.adapter /\ "adapter" \in DOMAIN exec'
                     /\ IsOp(op')
             a == adapters[exec.adapter]
             m == Head(a.messages)
  <1>2. ASSUME TakeBuffered PROVE Good
    <2> DEFINE r == Taken(exec.inbox, Awaits)
               x == [exec EXCEPT !.inbox = Without(@, r)]
    <2>1. Keeps(exec, x) /\ Match(x, r)
      BY <1>2 DEF TakeBuffered, Keeps
    <2> QED BY <2>1, <1>1, MatchWithin
  <1>3. ASSUME Receive PROVE Good
    <2>1. Keeps(exec, exec)
      BY DEF Keeps
    <2>2. CASE IsEvent(m)
      BY <2>2, <1>3, <1>1, ObserveWithin DEF Receive
    <2>3. CASE ~IsEvent(m) /\ Matches(m, Awaits)
      BY <2>3, <2>1, <1>3, <1>1, MatchWithin DEF Receive
    <2>4. CASE ~IsEvent(m) /\ ~Matches(m, Awaits) /\ IsDuplicate(exec.inbox, m)
      BY <2>4, <2>1, <1>3, <1>1, FailsWithin DEF Receive
    <2>5. CASE ~IsEvent(m) /\ ~Matches(m, Awaits) /\ ~IsDuplicate(exec.inbox, m)
      BY <2>5, <1>3, <1>1 DEF Receive, IsOp
    <2> QED BY <2>2, <2>3, <2>4, <2>5
  <1>4. ASSUME ReadEnd PROVE Good
    <2>1. Keeps(exec, exec) /\ Keeps(exec, Finished(exec))
      BY EndsKeep DEF Keeps
    <2>2. CASE At("disconnect")
      BY <2>2, <2>1, <1>4, <1>1, OperationsStay DEF ReadEnd, Keeps
    <2>3. CASE ~At("disconnect")
      BY <2>3, <2>1, <1>4, <1>1, FailsWithin DEF ReadEnd
    <2> QED BY <2>2, <2>3
  <1>5. Good
    BY <1>2, <1>3, <1>4
  <1>6. \/ adapters' = adapters
        \/ \E x : adapters' = [adapters EXCEPT ![exec.adapter] = x]
    BY DEF TakeBuffered, Receive, ReadEnd
  <1>7. UNCHANGED <<prep, answer>>
    BY DEF TakeBuffered, Receive, ReadEnd
  <1> QED BY <1>1, <1>5, <1>6, <1>7 DEF Within, IsOp

LEMMA StepWithin ==
  ASSUME OneAtATime, NothingToDo, NoneWhenClosed,
         SkipDisconnect \/ TimesOut \/ WaitEnds \/ Outcome \/ LoadWindow \/ Unreadable
         \/ Return
  PROVE  Within
  <1>1. IsOp(op) /\ "adapter" \in DOMAIN exec
    BY NeedsExecution DEF OneAtATime
  <1>2. Has
    BY NeedsExecution
    DEF SkipDisconnect, NothingToEnd, TimesOut, WaitEnds, Outcome, LoadWindow, Unreadable,
        Return
  <1>3. answer # "closed"
    BY <1>2, NotClosed
  <1>4. Keeps(exec, exec) /\ Keeps(exec, Finished(exec)) /\ Keeps(exec, Failed(exec))
    BY EndsKeep DEF Keeps
  <1>5. UNCHANGED <<adapters, prep>>
    BY DEF SkipDisconnect, TimesOut, WaitEnds, Outcome, LoadWindow, Unreadable, Return
  <1> DEFINE Good == /\ exec'.adapter = exec.adapter /\ "adapter" \in DOMAIN exec'
                     /\ IsOp(op') /\ answer' # "closed"
  <1>6. ASSUME SkipDisconnect \/ TimesOut PROVE Good
    BY <1>6, <1>1, <1>3, <1>4, OperationsStay DEF SkipDisconnect, TimesOut, Keeps
  <1>7. ASSUME WaitEnds PROVE Good
    <2>1. op' = Advanced \/ \E todo : op' = Follow(todo)
      BY <1>7 DEF WaitEnds
    <2> QED BY <2>1, <1>7, <1>1, <1>3, OperationsStay DEF WaitEnds
  <1>8. ASSUME Outcome PROVE Good
    <2>1. \/ UNCHANGED exec /\ \E todo : op' = Follow(todo)
          \/ Fails(exec, FALSE)
      BY <1>8, Zenon DEF Outcome
    <2>2. exec'.adapter = exec.adapter /\ "adapter" \in DOMAIN exec' /\ IsOp(op')
      BY <2>1, <1>1, <1>4, FailsWithin, OperationsStay
    <2> QED BY <2>2, <1>8, <1>3 DEF Outcome
  <1>9. ASSUME LoadWindow PROVE Good
    <2>1. \/ UNCHANGED exec /\ (op' = Advanced \/ \E todo : op' = Follow(todo))
          \/ Fails(exec, FALSE)
      BY <1>9 DEF LoadWindow
    <2>2. exec'.adapter = exec.adapter /\ "adapter" \in DOMAIN exec' /\ IsOp(op')
      BY <2>1, <1>1, <1>4, FailsWithin, OperationsStay
    <2> QED BY <2>2, <1>9, <1>3 DEF LoadWindow
  <1>10. ASSUME Unreadable PROVE Good
    BY <1>10, <1>1, OperationsStay DEF Unreadable, Answers
  <1>11. ASSUME Return PROVE Good
    <2>1. \/ UNCHANGED answer
             /\ op' = [Follow(<<Step("window")>>) EXCEPT !.settling = TRUE]
          \/ op' = Idle /\ answer' \in {"stopped", "done"}
      BY <1>11, Zenon DEF Return, Answers
    <2>2. IsOp(op') /\ answer' # "closed"
      BY <2>1, <1>1, <1>3, OperationsStay DEF IsOp
    <2>3. exec'.adapter = exec.adapter /\ "adapter" \in DOMAIN exec'
      BY <1>11, <1>1 DEF Return
    <2> QED BY <2>2, <2>3
  <1>12. Good
    BY <1>6, <1>7, <1>8, <1>9, <1>10, <1>11
  <1> QED BY <1>2, <1>5, <1>12 DEF Within, IsOp

-----------------------------------------------------------------------------
(* The invariant is inductive.                                               *)

\* An adapter that is still open and not of the execution is as it was, and
\* whoever owned it does.
LEMMA OwnershipStays ==
  ASSUME AdaptersAreOwned, dropped \subseteq dropped', EndClosed,
         IsSequence(adapters'), DOMAIN adapters' = DOMAIN adapters,
         \A a \in DOMAIN adapters : adapters'[a].open /\ a # exec'.adapter =>
            /\ adapters'[a] = adapters[a] /\ a # exec.adapter
            /\ Owned(a) => Owned(a)' \/ a \in dropped'
  PROVE  AdaptersAreOwned'
  <1>1. DOMAIN targets' = DOMAIN adapters'
    BY DEF EndClosed
  <1>2. ASSUME NEW a \in DOMAIN adapters', adapters'[a].open, a # exec'.adapter
        PROVE  Untouched(a)' /\ (Owned(a)' \/ a \in dropped')
    <2>1. adapters'[a] = adapters[a] /\ a # exec.adapter
          /\ (Owned(a) => Owned(a)' \/ a \in dropped')
      BY <1>2
    <2>2. targets'[a] = targets[a]
      BY <1>2 DEF EndClosed
    <2>3. Untouched(a) /\ (Owned(a) \/ a \in dropped)
      BY <1>2, <2>1 DEF AdaptersAreOwned
    <2>4. Untouched(a)'
      BY <2>1, <2>2, <2>3 DEF Untouched, Alive
    <2> QED BY <2>1, <2>3, <2>4
  <1> QED BY <1>1, <1>2 DEF AdaptersAreOwned

\* Writing to the adapter of the execution, or closing it, leaves a sequence.
LEMMA ExecutionsAdapter ==
  ASSUME AdaptersAreOwned, NEW k,
         \/ adapters' = adapters
         \/ \E x : adapters' = [adapters EXCEPT ![k] = x]
  PROVE  /\ IsSequence(adapters') /\ DOMAIN adapters' = DOMAIN adapters
         /\ \A a \in DOMAIN adapters : a # k => adapters'[a] = adapters[a]
  <1>1. CASE adapters' = adapters
    BY <1>1 DEF AdaptersAreOwned
  <1>2. CASE \E x : adapters' = [adapters EXCEPT ![k] = x]
    <2>1. PICK x : adapters' = [adapters EXCEPT ![k] = x]
      BY <1>2
    <2>2. IsSequence(adapters)
      BY DEF AdaptersAreOwned
    <2>3. adapters' = [i \in DOMAIN adapters |-> adapters'[i]]
      BY <2>1
    <2>4. IsSequence(adapters') /\ DOMAIN adapters' = DOMAIN adapters
      BY <2>2, <2>3, LikeASequence
    <2> QED BY <2>1, <2>4
  <1> QED BY <1>1, <1>2

LEMMA WithinPreserves ==
  ASSUME IInv, Within, EndClosed, faults' \in Nat, dropped \subseteq dropped'
  PROVE  IInv'
  <1> USE DEF IInv
  <1>1. AdaptersAreOwned'
    <2>1. /\ IsSequence(adapters') /\ DOMAIN adapters' = DOMAIN adapters
          /\ \A a \in DOMAIN adapters : a # exec.adapter => adapters'[a] = adapters[a]
      BY ExecutionsAdapter DEF Within
    <2>2. \A a : Owned(a) => Owned(a)'
      BY DEF Owned, Within
    <2>3. \A a \in DOMAIN adapters : adapters'[a].open /\ a # exec'.adapter =>
            /\ adapters'[a] = adapters[a] /\ a # exec.adapter
            /\ Owned(a) => Owned(a)' \/ a \in dropped'
      BY <2>1, <2>2 DEF Within
    <2> QED BY <2>1, <2>3, OwnershipStays
  <1>2. OneAtATime'
    <2>1. Has /\ Has' /\ prep' = prep /\ prep = NoPreparation /\ "adapter" \in DOMAIN exec'
      BY DEF OneAtATime, Within, Has
    <2> QED BY <2>1 DEF OneAtATime, NoPreparation
  <1>3. NothingToDo'
    BY DEF NothingToDo, Within, Has
  <1>4. NoneWhenClosed'
    BY DEF NoneWhenClosed, Within
  <1> QED BY <1>1, <1>2, <1>3, <1>4

LEMMA LetGoPreserves ==
  ASSUME IInv, Has, LetGo, EndClosed, UNCHANGED <<faults, dropped>>, answer' # "closed",
         op' = Idle \/ op' = Follow(<<Step("prepare")>>)
  PROVE  IInv'
  <1> USE DEF IInv
  <1>1. exec'.adapter = 0 /\ "adapter" \in DOMAIN exec'
    BY DEF LetGo, NoExecution, Fresh
  <1>2. AdaptersAreOwned'
    <2>1. /\ IsSequence(adapters') /\ DOMAIN adapters' = DOMAIN adapters
          /\ \A a \in DOMAIN adapters : a # exec.adapter => adapters'[a] = adapters[a]
      BY ExecutionsAdapter DEF LetGo
    <2>2. exec.adapter \in DOMAIN adapters => ~adapters'[exec.adapter].open
      BY DEF LetGo, Closed, Process
    <2>3. \A a : Owned(a) => a = exec.adapter
      BY DEF Owned, OneAtATime, NoPreparation
    <2>4. \A a \in DOMAIN adapters : adapters'[a].open /\ a # exec'.adapter =>
            /\ adapters'[a] = adapters[a] /\ a # exec.adapter
            /\ Owned(a) => Owned(a)' \/ a \in dropped'
      BY <2>1, <2>2, <2>3
    <2> QED BY <2>1, <2>4, OwnershipStays
  <1>3. OneAtATime'
    BY <1>1 DEF OneAtATime, LetGo, Spawned, Has
  <1>4. NothingToDo'
    BY NeedsExecution, OperationsStay DEF NothingToDo, IsOp
  <1> QED BY <1>2, <1>3, <1>4 DEF NoneWhenClosed

\* A new adapter is asked to initialize, and is the preparation's.
LEMMA PrepareStartPreserves ==
  ASSUME IInv, PrepareStart, EndClosed, UNCHANGED <<faults, dropped>>
  PROVE  IInv'
  <1> USE DEF IInv
  <1> DEFINE new == Written(Process, InitialRequest)
             n == Len(adapters) + 1
  <1>1. /\ adapters' = Append(adapters, new) /\ prep' = Preparing(n)
        /\ prep = Spawned /\ UNCHANGED <<exec, op, answer>>
    BY DEF PrepareStart, InitialRequest
  <1>2. /\ IsSequence(adapters') /\ Len(adapters) \in Nat
        /\ DOMAIN adapters = 1 .. Len(adapters) /\ DOMAIN adapters' = 1 .. n
        /\ \A a \in DOMAIN adapters : adapters'[a] = adapters[a]
        /\ adapters'[n] = new
    BY <1>1, AppendIsSequence DEF AdaptersAreOwned
  <1>3. /\ {"requests", "messages", "exit", "open"} \subseteq DOMAIN new
        /\ new.requests \in Seq({InitialRequest})
    BY DEF Written, Process
  <1>4. AdaptersAreOwned'
    <2>1. DOMAIN targets' = DOMAIN adapters'
      BY DEF EndClosed
    <2>2. ASSUME NEW a \in DOMAIN adapters, adapters'[a].open, a # exec'.adapter
          PROVE  Untouched(a)' /\ (Owned(a)' \/ a \in dropped')
      <3>1. Untouched(a) /\ (Owned(a) \/ a \in dropped)
        BY <1>1, <1>2, <2>2 DEF AdaptersAreOwned
      <3>2. targets'[a] = targets[a]
        BY <1>2, <2>2 DEF EndClosed
      <3>3. ~Owned(a)
        BY <1>1, <2>2 DEF Owned, Spawned
      <3>4. Untouched(a)'
        BY <1>2, <3>1, <3>2 DEF Untouched, Alive
      <3> QED BY <3>1, <3>3, <3>4
    <2>3. ASSUME NEW a \in DOMAIN adapters', a = n
          PROVE  Untouched(a)' /\ Owned(a)'
      <3>1. targets'[a] = Target
        BY <1>2, <2>3 DEF EndClosed
      <3>2. "program" \in DOMAIN Target /\ ~Alive(Target)
        BY DEF Target, Alive
      <3>3. Untouched(a)'
        BY <1>2, <1>3, <2>3, <3>1, <3>2 DEF Untouched, Alive
      <3>4. Owned(a)'
        BY <1>1, <2>3 DEF Owned, Preparing
      <3> QED BY <3>3, <3>4
    <2>4. \A a \in DOMAIN adapters' : a \in DOMAIN adapters \/ a = n
      BY <1>2
    <2> QED BY <1>2, <2>1, <2>2, <2>3, <2>4 DEF AdaptersAreOwned
  <1>5. OneAtATime'
    <2>1. new.open
      BY DEF Written, Process
    <2> QED BY <1>1, <1>2, <2>1 DEF OneAtATime, Spawned, NoPreparation, Preparing, Has
  <1>6. NothingToDo'
    BY <1>1 DEF NothingToDo, Has
  <1>7. NoneWhenClosed'
    BY <1>1 DEF NoneWhenClosed, Spawned, NoPreparation
  <1> QED BY <1>4, <1>5, <1>6, <1>7

LEMMA PrepareReadPreserves ==
  ASSUME IInv, PrepareRead, EndClosed, UNCHANGED <<faults, dropped>>
  PROVE  IInv'
  <1> USE DEF IInv
  <1> DEFINE p == prep.adapter
  <1>1. /\ prep.status = "initializing" /\ UNCHANGED <<exec, op, answer>>
        /\ \/ /\ adapters' = [adapters EXCEPT ![p] = Read(adapters[p])]
              /\ prep' = prep \/ prep' = [prep EXCEPT !.status = "ready"]
           \/ /\ adapters' = [adapters EXCEPT ![p] = Closed(adapters[p])]
              /\ prep' = [prep EXCEPT !.status = "failed"]
    BY DEF PrepareRead
  <1>2. ~Has
    BY <1>1 DEF OneAtATime, NoPreparation
  <1>3. /\ IsSequence(adapters') /\ DOMAIN adapters' = DOMAIN adapters
        /\ \A a \in DOMAIN adapters : a # p => adapters'[a] = adapters[a]
    BY <1>1, ExecutionsAdapter
  <1>4. AdaptersAreOwned'
    <2>1. DOMAIN targets' = DOMAIN adapters'
      BY DEF EndClosed
    <2>2. ASSUME NEW a \in DOMAIN adapters', adapters'[a].open, a # exec'.adapter
          PROVE  Untouched(a)' /\ (Owned(a)' \/ a \in dropped')
      <3>1. CASE a # p
        <4>1. Untouched(a) /\ (Owned(a) \/ a \in dropped)
          BY <1>1, <1>3, <2>2, <3>1 DEF AdaptersAreOwned
        <4>2. targets'[a] = targets[a]
          BY <1>3, <2>2 DEF EndClosed
        <4>3. ~Owned(a)
          BY <1>1, <2>2, <3>1 DEF Owned
        <4>4. Untouched(a)'
          BY <1>3, <3>1, <2>2, <4>1, <4>2 DEF Untouched, Alive
        <4> QED BY <4>1, <4>3, <4>4
      <3>2. CASE a = p
        <4>1. /\ adapters' = [adapters EXCEPT ![p] = Read(adapters[p])]
              /\ prep' = prep \/ prep' = [prep EXCEPT !.status = "ready"]
          BY <1>1, <1>3, <2>2, <3>2 DEF Closed, Process
        <4>2. Untouched(a)
          BY <1>1, <1>3, <2>2, <3>2 DEF AdaptersAreOwned, OneAtATime
        <4>3. adapters'[a] = [adapters[a] EXCEPT !.messages = Tail(@)]
          BY <4>1, <3>2, <1>3, <2>2 DEF Read
        <4>4. targets'[a] = targets[a]
          BY <1>3, <2>2 DEF EndClosed
        <4>5. Untouched(a)'
          BY <4>2, <4>3, <4>4 DEF Untouched, Alive
        <4>6. Owned(a)'
          BY <1>1, <3>2, <4>1 DEF Owned, OneAtATime
        <4> QED BY <4>5, <4>6
      <3> QED BY <3>1, <3>2
    <2> QED BY <1>3, <2>1, <2>2 DEF AdaptersAreOwned
  <1>5. OneAtATime'
    <2>1. p \in DOMAIN adapters /\ adapters[p].open
      BY <1>1 DEF OneAtATime
    <2>2. "open" \in DOMAIN adapters[p]
      <3>1. p # 0
        BY <2>1, AppendIsSequence DEF AdaptersAreOwned
      <3> QED BY <1>2, <2>1, <3>1 DEF AdaptersAreOwned, Untouched, Has
    <2>3. prep'.status = "failed" \/ (prep'.adapter = p /\ adapters'[p].open)
      BY <1>1, <2>1, <2>2 DEF Read, OneAtATime
    <2> QED BY <1>1, <1>2, <1>3, <2>1, <2>3 DEF OneAtATime, Has
  <1>6. NothingToDo'
    BY <1>1 DEF NothingToDo, Has
  <1>7. NoneWhenClosed'
    BY <1>1 DEF NoneWhenClosed, NoPreparation
  <1> QED BY <1>4, <1>5, <1>6, <1>7

\* A preparation that is taken, or is over, changes no adapter.
LEMMA TakePreparationPreserves ==
  ASSUME IInv, TakePreparation, EndClosed, UNCHANGED <<faults, dropped>>
  PROVE  IInv'
  <1> USE DEF IInv
  <1>1. UNCHANGED adapters /\ IsSequence(adapters) /\ 0 \notin DOMAIN adapters
    BY AppendIsSequence DEF TakePreparation, AdaptersAreOwned
  <1>2. answer # "closed"
    BY DEF NoneWhenClosed, TakePreparation, At, AtPrompt, Idle, Doing
  <1>3. IsOp(Idle) /\ IsOp(Follow(LaunchSteps))
    BY NeedsExecution, OperationsStay
  <1>4. CASE Has /\ op' = Idle /\ answer' = "refused" /\ UNCHANGED <<prep, exec>>
    <2>1. AdaptersAreOwned'
      BY <1>1, <1>4, OwnershipStays DEF Owned
    <2>2. OneAtATime' /\ NothingToDo'
      BY <1>1, <1>3, <1>4 DEF OneAtATime, NothingToDo, Has, IsOp
    <2> QED BY <1>4, <2>1, <2>2 DEF NoneWhenClosed
  <1>5. CASE /\ ~Has /\ prep.status = "ready" /\ exec' = Fresh(prep.adapter)
             /\ prep' = NoPreparation /\ op' = Follow(LaunchSteps) /\ UNCHANGED answer
    <2>1. exec'.adapter = prep.adapter /\ "adapter" \in DOMAIN exec'
      BY <1>5 DEF Fresh
    <2>2. Has'
      BY <1>1, <1>5, <2>1 DEF Has, OneAtATime
    <2>3. \A a \in DOMAIN adapters : Owned(a) => a = exec'.adapter
      BY <1>1, <1>5, <2>1 DEF Owned, Has
    <2>4. AdaptersAreOwned'
      BY <1>1, <1>5, <2>3, OwnershipStays DEF Has
    <2>5. OneAtATime' /\ NothingToDo'
      BY <1>1, <1>3, <1>5, <2>1, <2>2 DEF OneAtATime, NothingToDo, IsOp, NoPreparation
    <2> QED BY <1>2, <1>5, <2>4, <2>5 DEF NoneWhenClosed
  <1>6. CASE /\ ~Has /\ prep.status = "failed" /\ prep' = Spawned
             /\ op' = Idle /\ answer' = "failed" /\ UNCHANGED exec
    <2>1. AdaptersAreOwned'
      BY <1>1, <1>6, OwnershipStays DEF Owned
    <2>2. OneAtATime' /\ NothingToDo'
      BY <1>1, <1>3, <1>6 DEF OneAtATime, NothingToDo, Has, IsOp, Spawned
    <2> QED BY <1>6, <2>1, <2>2 DEF NoneWhenClosed
  <1> QED BY <1>4, <1>5, <1>6 DEF TakePreparation, Answers

\* A preparation that takes too long, or never comes to run.
LEMMA TimePreserves ==
  ASSUME IInv, EndClosed, faults' = faults + 1,
         \/ SpawnFails /\ UNCHANGED dropped
         \/ /\ GiveUpPreparation
            /\ dropped' = IF prep.status = "ready" THEN dropped \cup {prep.adapter}
                          ELSE dropped
  PROVE  IInv'
  <1> USE DEF IInv
  <1>1. faults' \in Nat /\ dropped \subseteq dropped'
    OBVIOUS
  <1>2. UNCHANGED exec /\ IsOp(op) /\ IsOp(Idle)
    BY NeedsExecution, OperationsStay DEF GiveUpPreparation, SpawnFails
  <1>3. \/ adapters' = adapters
        \/ ~Has /\ adapters' = [adapters EXCEPT ![prep.adapter] = Closed(@)]
    BY DEF GiveUpPreparation, SpawnFails
  <1>4. /\ IsSequence(adapters') /\ DOMAIN adapters' = DOMAIN adapters
        /\ \A a \in DOMAIN adapters : a # prep.adapter => adapters'[a] = adapters[a]
    BY <1>3, ExecutionsAdapter
  <1>5. \A a \in DOMAIN adapters : adapters'[a].open => adapters'[a] = adapters[a]
    BY <1>3, <1>4 DEF Closed, Process
  <1>6. AdaptersAreOwned'
    <2>1. ASSUME NEW a \in DOMAIN adapters, adapters'[a].open, a # exec'.adapter, Owned(a)
          PROVE  a \in dropped'
      <3>1. a = prep.adapter /\ prep.status \in {"initializing", "ready"}
        BY <1>2, <2>1 DEF Owned
      <3>2. GiveUpPreparation
        BY <3>1 DEF SpawnFails, Spawned
      <3>3. prep.status # "initializing"
        BY <2>1, <3>1, <3>2 DEF GiveUpPreparation, Closed, Process
      <3> QED BY <3>1, <3>2, <3>3 DEF SpawnFails, Spawned
    <2> QED BY <1>1, <1>2, <1>4, <1>5, <2>1, OwnershipStays
  <1>7. CASE GiveUpPreparation
    <2>1. ~Has /\ prep' = Spawned /\ op' = Idle /\ answer' = "timed out"
      BY <1>7 DEF GiveUpPreparation, Answers
    <2>2. OneAtATime' /\ NothingToDo'
      BY <1>2, <2>1 DEF OneAtATime, NothingToDo, Has, IsOp, Spawned
    <2> QED BY <1>1, <1>6, <2>1, <2>2 DEF NoneWhenClosed
  <1>8. CASE SpawnFails
    <2>1. /\ prep = Spawned /\ prep' = [prep EXCEPT !.status = "failed"]
          /\ UNCHANGED <<op, answer>>
      BY <1>8 DEF SpawnFails
    <2>2. OneAtATime' /\ NothingToDo'
      BY <1>2, <2>1 DEF OneAtATime, NothingToDo, Has, Spawned, NoPreparation
    <2> QED BY <1>1, <1>6, <2>1, <2>2 DEF NoneWhenClosed, Spawned, NoPreparation
  <1> QED BY <1>7, <1>8

\* Closing the session closes every adapter.
LEMMA ClosePreserves ==
  ASSUME IInv, Close, EndClosed, UNCHANGED <<faults, dropped>>
  PROVE  IInv'
  <1> USE DEF IInv
  <1>1. /\ exec'.adapter = 0 /\ "adapter" \in DOMAIN exec' /\ prep' = NoPreparation
        /\ op' = Idle /\ IsOp(op')
    BY NeedsExecution, OperationsStay DEF Close, NoExecution, Fresh, Answers
  <1>2. \A a \in DOMAIN adapters' : ~adapters'[a].open
    BY DEF Close, Closed, Process
  <1>3. IsSequence(adapters') /\ DOMAIN adapters' = DOMAIN adapters
    BY LikeASequence DEF Close, AdaptersAreOwned
  <1>4. AdaptersAreOwned'
    BY <1>2, <1>3, OwnershipStays
  <1>5. OneAtATime' /\ NothingToDo'
    BY <1>1 DEF OneAtATime, NothingToDo, Has, IsOp, NoPreparation
  <1>6. NoneWhenClosed'
    BY <1>1, <1>2 DEF NoneWhenClosed, AtPrompt, Has
  <1> QED BY <1>4, <1>5, <1>6

-----------------------------------------------------------------------------
(* The user and the adapters.                                                *)

LEMMA UserPreserves ==
  ASSUME IInv, UserCalls
  PROVE  IInv'
  <1> USE DEF IInv
  <1>1. UNCHANGED <<adapters, prep, exec, targets, faults, dropped>>
    BY DEF UserCalls, Launch, Synchronize, Resume, Inspect, InvokeInStop, Refuse, Extend, Quit
  <1>2. AdaptersAreOwned' /\ OneAtATime'
    BY <1>1 DEF AdaptersAreOwned, OneAtATime, Untouched, Alive, Owned, Has
  <1>3. \A name, todo : IsOp(Doing(name, todo)) /\ Doing(name, todo).todo = todo
                        /\ Doing(name, todo).waits = NoRequest
    BY DEF IsOp, Doing
  <1>4. NothingToDo' /\ answer' # "closed"
    <2>1. ASSUME NEW want, Launch(want) PROVE NothingToDo' /\ answer' # "closed"
      <3> DEFINE todo == IF Has /\ exec.state = "Stopped"
                         THEN <<Step("disconnect"), Step("release")>>
                         ELSE <<Step("prepare")>>
      <3>1. op' = [Doing("launch", todo) EXCEPT !.filter = TRUE] /\ answer' = "none"
        BY <2>1 DEF Launch, Begins
      <3>2. IsOp(op') /\ op'.todo = todo /\ op'.waits = NoRequest
        BY <3>1, <1>3 DEF IsOp
      <3> QED BY <1>1, <3>1, <3>2 DEF NothingToDo, IsOp, Has
    <2>2. ASSUME Quit PROVE NothingToDo' /\ answer' # "closed"
      BY <2>2, <1>1, <1>3 DEF Quit, Begins, NothingToDo, IsOp, Has
    <2>3. ASSUME Refuse PROVE NothingToDo' /\ answer' # "closed"
      BY <2>3 DEF Refuse, NothingToDo, Has
    <2>4. ASSUME Has, NEW doing, IsOp(doing), NEW phase, Begins(doing, phase)
          PROVE  NothingToDo' /\ answer' # "closed"
      BY <2>4, <1>1 DEF Begins, NothingToDo, IsOp, Has
    <2>5. ASSUME NEW want, Synchronize(want) PROVE NothingToDo' /\ answer' # "closed"
      <3> DEFINE doing == [Doing("sync", SynchronizationSteps(want)) EXCEPT !.want = want]
      <3>1. IsOp(doing)
        BY <1>3 DEF IsOp
      <3>2. \/ Has /\ Begins(doing, "Stopped")
            \/ answer' = "rejected" /\ UNCHANGED op
        BY <2>5 DEF Synchronize
      <3> HIDE DEF doing
      <3> QED BY <3>1, <3>2, <2>4, <1>1 DEF NothingToDo, Has
    <2>6. ASSUME NEW doing, IsOp(doing), NEW phase, InvokeInStop(doing, phase)
          PROVE  NothingToDo' /\ answer' # "closed"
      BY <2>6, <2>3, <2>4 DEF InvokeInStop, InStop
    <2>7. ASSUME NEW command, Resume(command) PROVE NothingToDo' /\ answer' # "closed"
      <3> DEFINE doing == [Doing("resume", <<Step(command), Step("stable"), Step("outcome")>>)
                           EXCEPT !.filter = (command = "continue")]
      <3>1. IsOp(doing)
        BY <1>3 DEF IsOp
      <3>2. InvokeInStop(doing, "Running")
        BY <2>7 DEF Resume
      <3> HIDE DEF doing
      <3> QED BY <3>1, <3>2, <2>6
    <2>8. ASSUME NEW name, Inspect(name) PROVE NothingToDo' /\ answer' # "closed"
      BY <2>8, <2>6, <1>3 DEF Inspect
    <2>9. ASSUME Extend PROVE NothingToDo' /\ answer' # "closed"
      <3> DEFINE doing == [Doing("stack", <<Step("window")>>) EXCEPT !.page = view.windows]
      <3>1. IsOp(doing)
        BY <1>3 DEF IsOp
      <3>2. Has /\ Begins(doing, "Stopped")
        BY <2>9 DEF Extend
      <3> HIDE DEF doing
      <3> QED BY <3>1, <3>2, <2>4
    <2> QED BY <2>1, <2>2, <2>5, <2>7, <2>8, <2>9 DEF UserCalls
  <1> QED BY <1>1, <1>2, <1>4 DEF NoneWhenClosed

\* An adapter that no execution has can only be asked to initialize.
LEMMA UntouchedServes ==
  ASSUME NEW a, Untouched(a), Serve(a)
  PROVE  \E t, ms : /\ Does(a, t, ms)
                    /\ "program" \in DOMAIN t /\ t.program = targets[a].program
  <1> DEFINE req == Head(adapters[a].requests)
             t == targets[a]
             Good == \E u, ms : /\ Does(a, u, ms)
                                /\ "program" \in DOMAIN u /\ u.program = t.program
  <1>1. req.command = "initialize"
    BY DEF Serve, Untouched, InitialRequest, Request
  <1>2. AnswerRequest(a, req, t) \/ RejectRequest(a, req, t)
    BY <1>1 DEF Serve
  <1>3. "program" \in DOMAIN t
    BY DEF Untouched
  <1>4. ASSUME NEW tables, NEW ms, Does(a, [t EXCEPT !.tables = tables], ms) PROVE Good
    <2>1. "program" \in DOMAIN [t EXCEPT !.tables = tables]
          /\ [t EXCEPT !.tables = tables].program = t.program
      BY <1>3
    <2> QED BY <1>4, <2>1
  <1>5. ASSUME NEW ms, Does(a, t, ms) PROVE Good
    BY <1>5, <1>3
  <1>6. ASSUME AnswerRequest(a, req, t) PROVE Good
    <2>1. \/ req.command = "launch" \/ req.command = "configurationDone"
          \/ req.command \in Resumptions
          \/ Does(a, t, <<Response(req, FALSE)>>)
          \/ \E full \in BOOLEAN : Does(a, t, <<[Response(req, TRUE) EXCEPT !.full = full]>>)
          \/ Does(a, [t EXCEPT !.tables = Tables(@, req)], <<Response(req, TRUE)>>)
      BY <1>6, Zenon DEF AnswerRequest
    <2>2. \/ \E ms : Does(a, t, ms)
          \/ Does(a, [t EXCEPT !.tables = Tables(@, req)], <<Response(req, TRUE)>>)
      BY <2>1, <1>1 DEF Resumptions
    <2> HIDE DEF Good
    <2> QED BY <2>2, <1>4, <1>5
  <1>7. ASSUME RejectRequest(a, req, t) PROVE Good
    <2>1. PICK tables : Does(a, [t EXCEPT !.tables = tables], <<Response(req, FALSE)>>)
      BY <1>7 DEF RejectRequest
    <2> HIDE DEF Good
    <2> QED BY <2>1, <1>4
  <1> QED BY <1>2, <1>6, <1>7

\* It stays without a program.
LEMMA UntouchedStays ==
  ASSUME NEW a \in DOMAIN adapters, a \in DOMAIN targets, Untouched(a), AdapterActs(a)
  PROVE  Untouched(a)' /\ adapters'[a].open = adapters[a].open
  <1>1. CASE Serve(a)
    <2>1. PICK t, ms : /\ Does(a, t, ms)
                       /\ "program" \in DOMAIN t /\ t.program = targets[a].program
      BY <1>1, UntouchedServes
    <2>2. /\ adapters'[a] = Answered(adapters[a], ms)
          /\ targets'[a] = t
      BY <2>1 DEF Does
    <2>3. adapters[a].requests # <<>>
      BY <1>1 DEF Serve
    <2> QED BY <2>1, <2>2, <2>3 DEF Untouched, Alive, Answered, Sent
  <1>2. CASE Duplicates(a)
    BY <1>2 DEF Duplicates, Untouched, Alive, Sent
  <1>3. CASE Dies(a)
    BY <1>3 DEF Dies, Untouched, Alive
  <1>4. ~PayOwed(a) /\ ~ProgramStops(a) /\ ~ProgramExits(a) /\ ~Repeats(a) /\ ~Killed(a)
    BY DEF Untouched, Alive, PayOwed, ProgramStops, ProgramExits, Repeats, Killed
  <1> QED BY <1>1, <1>2, <1>3, <1>4 DEF AdapterActs

\* An adapter acts on nothing but itself and its program.
Alone(a) ==
    /\ adapters' = [b \in DOMAIN adapters |-> adapters'[b]]
    /\ \A b \in DOMAIN adapters : b # a => adapters'[b] = adapters[b]
    /\ DOMAIN targets' = DOMAIN targets
    /\ \A b \in DOMAIN targets : b # a => targets'[b] = targets[b]

LEMMA ActsAlone ==
  ASSUME NEW a, AdapterActs(a), faults \in Nat
  PROVE  Alone(a) /\ faults' \in Nat /\ faults' >= faults
  <1> DEFINE req == Head(adapters[a].requests)
             t == targets[a]
  <1>1. ASSUME NEW u, NEW ms, Does(a, u, ms) PROVE Alone(a)
    BY <1>1 DEF Does, Alone
  <1>2. ASSUME NEW ms, NEW program, Tells(a, ms, program) PROVE Alone(a)
    BY <1>2 DEF Tells, Alone
  <1>3. ASSUME AnswerRequest(a, req, t) PROVE Alone(a)
    <2>1. \/ Launches(a, req, t) \/ Runs(a, req, t)
          \/ Does(a, t, <<Response(req, FALSE)>>)
          \/ \E full \in BOOLEAN : Does(a, t, <<[Response(req, TRUE) EXCEPT !.full = full]>>)
          \/ Does(a, [t EXCEPT !.tables = Tables(@, req)], <<Response(req, TRUE)>>)
      BY <1>3, Zenon DEF AnswerRequest
    <2>2. ASSUME Launches(a, req, t) PROVE \E u, ms : Does(a, u, ms)
      BY <2>2, Zenon DEF Launches
    <2>3. ASSUME Runs(a, req, t) PROVE \E u, ms : Does(a, u, ms)
      BY <2>3, Zenon DEF Runs
    <2>4. \E u, ms : Does(a, u, ms)
      BY <2>1, <2>2, <2>3, Zenon
    <2> QED BY <2>4, <1>1
  <1>4. ASSUME EndsAtOnce(a, req, t) \/ RejectRequest(a, req, t) PROVE Alone(a)
    <2>1. \E u, ms : Does(a, u, ms)
      BY <1>4, Zenon DEF EndsAtOnce, RejectRequest
    <2> QED BY <2>1, <1>1
  <1>5. ASSUME Serve(a) PROVE Alone(a)
    <2>1. CASE req.command = "disconnect"
      BY <1>5, <2>1 DEF Serve, Alone
    <2>2. CASE req.command # "disconnect"
      BY <1>5, <2>2, <1>3, <1>4 DEF Serve
    <2> QED BY <2>1, <2>2
  <1>6. ASSUME PayOwed(a) \/ ProgramExits(a) \/ Repeats(a) \/ Killed(a) PROVE Alone(a)
    <2>1. \E ms, program : Tells(a, ms, program)
      BY <1>6, Zenon DEF PayOwed, ProgramExits, Repeats, Killed
    <2> QED BY <2>1, <1>2
  <1>7. ASSUME ProgramStops(a) \/ Duplicates(a) \/ Dies(a) PROVE Alone(a)
    BY <1>7 DEF ProgramStops, Duplicates, Dies, Alone
  <1>8. Alone(a)
    BY <1>5, <1>6, <1>7 DEF AdapterActs
  <1>9. NoFault \/ (\E kind : Fault(kind))
    BY DEF AdapterActs, Serve, PayOwed, ProgramStops, ProgramExits, Repeats, Killed,
           Duplicates, Dies
  <1> QED BY <1>8, <1>9 DEF NoFault, Fault

LEMMA AdaptersPreserve ==
  ASSUME IInv, AdaptersAct
  PROVE  IInv'
  <1> USE DEF IInv
  <1>1. PICK a \in DOMAIN adapters : adapters[a].open /\ AdapterActs(a)
    BY DEF AdaptersAct, AdapterActs
  <1>2. /\ Alone(a) /\ faults' \in Nat
    BY <1>1, ActsAlone
  <1>3. IsSequence(adapters') /\ DOMAIN adapters' = DOMAIN adapters
    BY <1>2, LikeASequence DEF Alone, AdaptersAreOwned
  <1>4. UNCHANGED <<prep, exec, op, answer, dropped>>
    BY DEF AdaptersAct
  <1>5. a # exec.adapter => Untouched(a)' /\ adapters'[a].open
    BY <1>1, UntouchedStays DEF AdaptersAreOwned
  <1>6. ASSUME NEW b \in DOMAIN adapters, b # exec.adapter, adapters'[b].open
        PROVE  Untouched(b)' /\ adapters[b].open
    <2>1. CASE b = a
      BY <1>1, <1>5, <1>6, <2>1
    <2>2. CASE b # a
      <3>1. adapters'[b] = adapters[b] /\ targets'[b] = targets[b]
        BY <1>2, <2>2 DEF Alone, AdaptersAreOwned
      <3>2. Untouched(b)
        BY <1>6, <3>1 DEF AdaptersAreOwned
      <3> QED BY <1>6, <3>1, <3>2 DEF Untouched, Alive
    <2> QED BY <2>1, <2>2
  <1>7. AdaptersAreOwned'
    <2>1. \A b : Owned(b)' <=> Owned(b)
      BY <1>4 DEF Owned
    <2> QED BY <1>2, <1>3, <1>4, <1>6, <2>1 DEF AdaptersAreOwned, Alone
  <1>8. OneAtATime'
    <2>1. ASSUME prep.status \in {"initializing", "ready"}
          PROVE  prep.adapter \in DOMAIN adapters' /\ adapters'[prep.adapter].open
      <3>1. prep.adapter \in DOMAIN adapters /\ adapters[prep.adapter].open /\ ~Has
        BY <2>1 DEF OneAtATime, NoPreparation
      <3>2. prep.adapter # exec.adapter
        BY <3>1, AppendIsSequence DEF Has, AdaptersAreOwned
      <3>3. adapters'[prep.adapter].open
        BY <1>2, <1>5, <3>1, <3>2 DEF Alone
      <3> QED BY <1>3, <3>1, <3>3
    <2> QED BY <1>4, <2>1 DEF OneAtATime, Has
  <1>9. NothingToDo'
    BY <1>4 DEF NothingToDo, Has
  <1>10. NoneWhenClosed'
    BY <1>1, <1>4 DEF NoneWhenClosed
  <1> QED BY <1>2, <1>7, <1>8, <1>9, <1>10

-----------------------------------------------------------------------------
(* The theorems.                                                            *)

LEMMA InitiallyIInv == SystemInit => IInv
  <1> SUFFICES ASSUME SystemInit PROVE IInv
    OBVIOUS
  <1>1. faults \in Nat /\ AdaptersAreOwned
    BY EmptyIsSequence DEF SystemInit, Init, AdaptersAreOwned
  <1>2. OneAtATime
    BY DEF SystemInit, Init, OneAtATime, NoExecution, Fresh, Spawned, Has
  <1>3. NothingToDo
    BY DEF SystemInit, Init, NothingToDo, Idle, Doing
  <1>4. NoneWhenClosed
    BY DEF SystemInit, Init, NoneWhenClosed
  <1> QED BY <1>1, <1>2, <1>3, <1>4 DEF IInv

LEMMA ClientPreserves ==
  ASSUME IInv, ClientActs
  PROVE  IInv'
  <1>1. /\ EndClosed /\ UNCHANGED <<faults, dropped>>
        /\ faults' \in Nat /\ dropped \subseteq dropped'
        /\ Proceed
    BY DEF ClientActs, IInv
  <1>2. OneAtATime /\ NothingToDo /\ NoneWhenClosed
    BY DEF IInv
  <1>3. CASE Send
    BY <1>1, <1>2, <1>3, SendWithin, WithinPreserves
  <1>4. CASE TakeBuffered \/ Receive \/ ReadEnd
    BY <1>1, <1>2, <1>4, WaitWithin, WithinPreserves
  <1>5. CASE SkipDisconnect \/ WaitEnds \/ Outcome \/ LoadWindow \/ Unreadable \/ Return
    BY <1>1, <1>2, <1>5, StepWithin, WithinPreserves
  <1>6. CASE PrepareStart
    BY <1>1, <1>6, PrepareStartPreserves
  <1>7. CASE PrepareRead
    BY <1>1, <1>7, PrepareReadPreserves
  <1>8. CASE TakePreparation
    BY <1>1, <1>8, TakePreparationPreserves
  <1>9. CASE Release
    <2>1. Has /\ answer # "closed"
      BY <1>2, <1>9, NeedsExecution, NotClosed DEF Release
    <2> QED BY <1>1, <1>9, <2>1, LetGoPreserves DEF Release
  <1>10. CASE Complete \/ Discard
    <2>1. Has
      BY <1>2, <1>10, NeedsExecution DEF Complete, Discard
    <2> QED BY <1>1, <1>10, <2>1, LetGoPreserves DEF Complete, Discard, Answers
  <1>11. CASE Close
    BY <1>1, <1>11, ClosePreserves
  <1> QED BY <1>1, <1>3, <1>4, <1>5, <1>6, <1>7, <1>8, <1>9, <1>10, <1>11 DEF Proceed

LEMMA StepPreserves == IInv /\ [Next]_system => IInv'
  <1> SUFFICES ASSUME IInv, [Next]_system PROVE IInv'
    OBVIOUS
  <1>1. CASE UserCalls
    BY <1>1, UserPreserves
  <1>2. CASE ClientActs
    BY <1>2, ClientPreserves
  <1>3. CASE TimeActs
    <2>1. EndClosed /\ faults' = faults + 1 /\ faults' \in Nat
      <3>1. EndClosed /\ faults' = faults + 1
        BY <1>3 DEF TimeActs, Fault
      <3>2. faults \in Nat
        BY DEF IInv
      <3> QED BY <3>1, <3>2
    <2>2. CASE TimesOut /\ UNCHANGED dropped
      BY <2>1, <2>2, StepWithin, WithinPreserves DEF IInv
    <2>3. CASE \/ SpawnFails /\ UNCHANGED dropped
               \/ /\ GiveUpPreparation
                  /\ dropped' = IF prep.status = "ready" THEN dropped \cup {prep.adapter}
                                ELSE dropped
      BY <2>1, <2>3, TimePreserves
    <2> QED BY <1>3, <2>2, <2>3 DEF TimeActs
  <1>4. CASE AdaptersAct
    BY <1>4, AdaptersPreserve
  <1>5. CASE UNCHANGED system
    BY <1>5 DEF system, IInv, AdaptersAreOwned, OneAtATime, NothingToDo, NoneWhenClosed,
                Untouched, Alive, Owned, Has, AtPrompt
  <1> QED BY <1>1, <1>2, <1>3, <1>4, <1>5 DEF Next

\* The invariant holds for any number of operations and of faults of any kind
\* (the life cycle of lldb_dap/session.mbt).
THEOREM Invariant == Spec => []IInv
  BY InitiallyIInv, StepPreserves, PTL DEF Spec

\* Whatever the adapters do and whichever preparation, answer or disconnect times
\* out, an open adapter is the execution's or the preparation's, or was ready just when
\* the wait for it timed out; it has no program unless an execution owns it, and closing
\* the session closes them all
\* (lldb_dap/session.mbt:59-96, 256-288).
THEOREM AdaptersNeverLeak == Spec => []NothingLeaks
  <1>1. IInv => NothingLeaks
    <2> SUFFICES ASSUME IInv, NEW a \in DOMAIN adapters, adapters[a].open
                 PROVE  /\ answer # "closed"
                        /\ Owned(a) \/ a \in dropped
                        /\ a # exec.adapter =>
                              /\ ~Alive(targets[a])
                              /\ \A i \in DOMAIN adapters[a].requests :
                                    adapters[a].requests[i].command = "initialize"
      BY DEF NothingLeaks
    <2>1. answer # "closed"
      BY DEF IInv, NoneWhenClosed
    <2>2. Owned(a) \/ a \in dropped
      BY DEF IInv, AdaptersAreOwned, Owned
    <2>3. ASSUME a # exec.adapter PROVE Untouched(a)
      BY <2>3 DEF IInv, AdaptersAreOwned
    <2>4. ASSUME Untouched(a), NEW i \in DOMAIN adapters[a].requests
          PROVE  adapters[a].requests[i].command = "initialize"
      BY <2>4 DEF Untouched, InitialRequest, Request
    <2> QED BY <2>1, <2>2, <2>3, <2>4 DEF Untouched
  <1> QED BY <1>1, Invariant, PTL

-----------------------------------------------------------------------------
(***************************************************************************)
(* The types of LldbSystem, and with them what the contract counts on:        *)
(* the steps of a launch or of a synchronization cover every breakpoint that  *)
(* is not as it is wanted; each step is one the execution can do; and an      *)
(* adapter answers no request but those it was sent.                         *)
(***************************************************************************)
-----------------------------------------------------------------------------
(* The numbers of a set in order.                                            *)

LEMMA LeastNumber ==
  ASSUME NEW T \in SUBSET Nat, T # {}
  PROVE  \E x \in T : \A y \in T : x <= y
  <1> DEFINE R == OpToRel(<, Nat)
  <1>1. IsWellFoundedOn(R, Nat)
    BY NatLessThanWellFounded
  <1>2. \A a, b \in Nat : a < b => <<a, b>> \in R
    BY DEF OpToRel
  <1> HIDE DEF R
  <1>3. \E x \in T : \A y \in T : ~(<<y, x>> \in R)
    BY <1>1, WFMin, Zenon
  <1>4. PICK x \in T : \A y \in T : ~(<<y, x>> \in R)
    BY <1>3
  <1>5. ASSUME NEW y \in T PROVE x <= y
    <2>1. x \in Nat /\ y \in Nat
      OBVIOUS
    <2>2. ~(y < x)
      BY <1>2, <1>4, <2>1
    <2> QED BY <2>1, <2>2
  <1> QED BY <1>5

\* An enumeration of S that increases.
Ascends(s, S) ==
    /\ s \in [1 .. Cardinality(S) -> S]
    /\ \A i, j \in DOMAIN s : i < j => s[i] < s[j]

LEMMA OrderExists ==
  ASSUME NEW S \in SUBSET Nat, IsFiniteSet(S)
  PROVE  \E s : Ascends(s, S)
  <1> DEFINE Bad == {n \in Nat : \E T \in SUBSET Nat : /\ IsFiniteSet(T) /\ Cardinality(T) = n
                                                       /\ \A s : ~Ascends(s, T)}
  <1> SUFFICES ASSUME Bad # {} PROVE FALSE
    BY FS_CardinalityType
  <1>1. Bad \in SUBSET Nat
    OBVIOUS
  <1>2. PICK n \in Bad : \A m \in Bad : n <= m
    BY <1>1, LeastNumber, Zenon
  <1>3. PICK T \in SUBSET Nat : /\ IsFiniteSet(T) /\ Cardinality(T) = n
                                /\ \A s : ~Ascends(s, T)
    BY <1>2
  <1>4. n \in Nat
    OBVIOUS
  <1>5. n # 0
    <2>1. ASSUME n = 0 PROVE Ascends([i \in 1 .. 0 |-> 0], T)
      BY <2>1, <1>3 DEF Ascends
    <2> QED BY <1>3, <2>1
  <1>6. T # {}
    BY <1>3, <1>5, FS_EmptySet
  <1>7. PICK x \in T : \A y \in T : x <= y
    BY <1>6, LeastNumber
  <1> DEFINE U == T \ {x}
  <1>8. IsFiniteSet(U) /\ Cardinality(U) = n - 1 /\ U \in SUBSET Nat
    BY <1>3, FS_RemoveElement
  <1>9. n - 1 \in Nat /\ n - 1 < n
    BY <1>4, <1>5
  <1>10. n - 1 \notin Bad
    BY <1>2, <1>9
  <1>11. PICK s : Ascends(s, U)
    BY <1>8, <1>9, <1>10
  <1> DEFINE t == [i \in 1 .. n |-> IF i = 1 THEN x ELSE s[i - 1]]
  <1>12. s \in [1 .. n - 1 -> U] /\ \A i, j \in 1 .. n - 1 : i < j => s[i] < s[j]
    BY <1>8, <1>11 DEF Ascends
  <1>13. t \in [1 .. n -> T]
    BY <1>4, <1>12
  <1>14. ASSUME NEW i \in 1 .. n, NEW j \in 1 .. n, i < j PROVE t[i] < t[j]
    <2>1. j # 1 /\ j - 1 \in 1 .. n - 1 /\ t[j] = s[j - 1] /\ s[j - 1] \in U
      BY <1>4, <1>12, <1>14
    <2>2. CASE i = 1
      <3>1. t[i] = x /\ x <= s[j - 1] /\ x # s[j - 1]
        BY <1>4, <1>7, <2>1, <2>2
      <3>2. x \in Nat /\ s[j - 1] \in Nat
        BY <2>1
      <3> QED BY <2>1, <3>1, <3>2
    <2>3. CASE i # 1
      BY <1>4, <1>12, <1>14, <2>1, <2>3
    <2> QED BY <2>2, <2>3
  <1>15. Ascends(t, T)
    BY <1>3, <1>13, <1>14 DEF Ascends
  <1> QED BY <1>3, <1>15

\* InOrder enumerates a set of numbers: each of them, and nothing else.
LEMMA InOrderEnumerates ==
  ASSUME NEW S \in SUBSET Nat, IsFiniteSet(S)
  PROVE  /\ InOrder(S) \in Seq(S)
         /\ \A x \in S : \E i \in DOMAIN InOrder(S) : InOrder(S)[i] = x
  <1> DEFINE n == Cardinality(S)
             s == InOrder(S)
  <1>1. n \in Nat
    BY FS_CardinalityType
  <1>2. \E t \in [1 .. n -> S] : \A i, j \in DOMAIN t : i < j => t[i] < t[j]
    BY OrderExists DEF Ascends
  <1>3. s \in [1 .. n -> S] /\ \A i, j \in DOMAIN s : i < j => s[i] < s[j]
    BY <1>2 DEF InOrder
  <1> HIDE DEF s
  <1>4. s \in Seq(S)
    BY <1>1, <1>3
  <1>5. ASSUME NEW i \in 1 .. n, NEW j \in 1 .. n, i # j PROVE s[i] # s[j]
    <2>1. i < j \/ j < i
      BY <1>1, <1>5
    <2>2. s[i] < s[j] \/ s[j] < s[i]
      BY <1>3, <2>1
    <2>3. s[i] \in S /\ s[j] \in S
      BY <1>3
    <2>4. s[i] \in Nat /\ s[j] \in Nat
      BY <2>3
    <2> QED BY <2>2, <2>4
  <1>6. ASSUME NEW x \in S, \A i \in 1 .. n : s[i] # x PROVE FALSE
    <2>1. IsFiniteSet(S \ {x}) /\ Cardinality(S \ {x}) = n - 1
      BY FS_RemoveElement
    <2>2. IsFiniteSet(1 .. n) /\ Cardinality(1 .. n) = n
      BY <1>1, FS_Interval
    <2>3. s \in [1 .. n -> S \ {x}]
      BY <1>3, <1>6
    <2>4. \E i, j \in 1 .. n : i # j /\ s[i] = s[j]
      BY <1>1, <2>1, <2>2, <2>3, FS_PigeonHole
    <2> QED BY <1>5, <2>4
  <1> QED BY <1>3, <1>4, <1>6 DEF s

\* Picked takes the elements at these positions.
LEMMA PickedElements ==
  ASSUME NEW T, NEW s \in Seq(T), NEW I \in SUBSET DOMAIN s
  PROVE  /\ Picked(s, I) \in Seq(T)
         /\ \A i \in I : \E j \in DOMAIN Picked(s, I) : Picked(s, I)[j] = s[i]
  <1>1. Len(s) \in Nat /\ DOMAIN s = 1 .. Len(s)
    OBVIOUS
  <1>2. I \in SUBSET Nat /\ IsFiniteSet(I)
    <2>1. I \in SUBSET (1 .. Len(s))
      BY <1>1
    <2>2. IsFiniteSet(1 .. Len(s))
      BY <1>1, FS_Interval
    <2> QED BY <2>1, <2>2, FS_Subset
  <1> DEFINE c == InOrder(I)
  <1>3. c \in Seq(I) /\ \A x \in I : \E i \in DOMAIN c : c[i] = x
    BY <1>2, InOrderEnumerates
  <1>4. Picked(s, I) = [i \in DOMAIN c |-> s[c[i]]]
    BY DEF Picked
  <1> HIDE DEF c
  <1>5. DOMAIN c = 1 .. Len(c) /\ Len(c) \in Nat
    BY <1>3
  <1>6. \A i \in DOMAIN c : s[c[i]] \in T
    BY <1>1, <1>3
  <1>7. Picked(s, I) \in Seq(T)
    BY <1>4, <1>5, <1>6
  <1> QED BY <1>3, <1>4, <1>7

-----------------------------------------------------------------------------
(* What the steps of configuring breakpoints cover.                          *)

Commands ==
    {"initialize", "launch", "initialized", "configurationDone", "launched", "stable",
     "outcome", "threads", "window", "stackTrace", "condition", "complete",
     "continue", "next", "stepIn", "stepOut", "scopes", "variables", "unreadable",
     "disconnect", "discard", "release", "prepare", "close",
     "setBreakpoints", "setFunctionBreakpoints", "evaluate"}
Paths == {Catalog[p].path : p \in Points}
Objects == Paths \cup {"none", "set", "enable", "disable", "delete", "list"}

StepRecords == [command : Commands, on : Objects, points : SUBSET Points]
Steps ==
    {s \in StepRecords :
        s.command = "evaluate" => s.points \subseteq Families}

\* The breakpoints a step decides about, and that it does so as wanted.
Scope(s) ==
    {p \in Points :
        \/ s.command = "setBreakpoints" /\ Catalog[p].kind = "source"
           /\ Catalog[p].path = s.on
        \/ s.command = "setFunctionBreakpoints" /\ Catalog[p].kind = "exact"
        \/ s.command = "evaluate" /\ s.on \in {"set", "enable", "disable", "delete"}
           /\ p \in s.points}
Aims(s, goal) ==
    /\ s.command = "setBreakpoints" => s.points = InPath(goal, s.on)
    /\ s.command = "setFunctionBreakpoints" => s.points = Exacts(goal)
    /\ s.command = "evaluate" /\ s.on \in {"set", "enable"} => s.points \subseteq goal
    /\ s.command = "evaluate" /\ s.on \in {"disable", "delete"} => s.points \cap goal = {}

ChangeSteps(goal) == {s \in Steps : s.command \in Changes /\ Aims(s, goal)}
Covers(todo, p) == \E i \in DOMAIN todo : p \in Scope(todo[i])

LEMMA PointsAreNumbers == Points \in SUBSET Nat /\ IsFiniteSet(Points)
  <1> DEFINE Entries == [kind : {"source", "exact", "family"}, path : STRING]
  <1>1. Catalog \in Seq(Entries)
    BY BackendAssumption
  <1> HIDE DEF Entries
  <1>2. Points = 1 .. Len(Catalog) /\ Len(Catalog) \in Nat
    BY <1>1 DEF Points
  <1> QED BY <1>2, FS_Interval

LEMMA NumbersInOrder ==
  ASSUME NEW S \in SUBSET Points
  PROVE  /\ InOrder(S) \in Seq(S)
         /\ \A p \in S : \E i \in DOMAIN InOrder(S) : InOrder(S)[i] = p
  <1>1. S \in SUBSET Nat /\ IsFiniteSet(S)
    BY PointsAreNumbers, FS_Subset
  <1> QED BY <1>1, InOrderEnumerates

\* Every source file of these breakpoints is listed.
LEMMA PathsListed ==
  ASSUME NEW points \in Seq(Points)
  PROVE  /\ PathsOf(points) \in Seq(Paths)
         /\ \A i \in DOMAIN points : \E k \in DOMAIN PathsOf(points) :
               PathsOf(points)[k] = Catalog[points[i]].path
  <1> DEFINE paths == [i \in DOMAIN points |-> Catalog[points[i]].path]
             firsts == {i \in DOMAIN paths : \A j \in 1 .. i - 1 : paths[j] # paths[i]}
  <1>1. Len(points) \in Nat /\ DOMAIN points = 1 .. Len(points)
    OBVIOUS
  <1>2. ASSUME NEW i \in DOMAIN points PROVE Catalog[points[i]].path \in Paths
    <2>1. points[i] \in Points
      BY <1>1
    <2> QED BY <2>1 DEF Paths
  <1>3. paths \in Seq(Paths) /\ DOMAIN paths = 1 .. Len(points)
    BY <1>1, <1>2
  <1>4. PathsOf(points) = Picked(paths, firsts)
    BY DEF PathsOf
  <1>5. ASSUME NEW i \in DOMAIN points
        PROVE  \E f \in firsts : paths[f] = paths[i]
    <2> DEFINE same == {j \in 1 .. Len(points) : paths[j] = paths[i]}
    <2>1. same \in SUBSET Nat /\ i \in same
      BY <1>1
    <2>2. PICK f \in same : \A j \in same : f <= j
      BY <2>1, LeastNumber, Zenon
    <2>3. ASSUME NEW j \in 1 .. f - 1 PROVE paths[j] # paths[f]
      <3>1. f \in 1 .. Len(points) /\ j \in 1 .. Len(points) /\ j < f
        BY <1>1
      <3> QED BY <2>2, <3>1
    <2> QED BY <1>3, <2>3
  <1>6. firsts \in SUBSET DOMAIN paths
    OBVIOUS
  <1> HIDE DEF paths, firsts
  <1>7. /\ Picked(paths, firsts) \in Seq(Paths)
        /\ \A i \in firsts : \E j \in DOMAIN Picked(paths, firsts) :
              Picked(paths, firsts)[j] = paths[i]
    BY <1>3, <1>6, PickedElements
  <1>8. ASSUME NEW i \in DOMAIN points
        PROVE  \E k \in DOMAIN PathsOf(points) : PathsOf(points)[k] = paths[i]
    BY <1>4, <1>5, <1>7
  <1> QED BY <1>4, <1>7, <1>8 DEF paths

LEMMA StepsAreRecords ==
  ASSUME NEW command \in Commands, NEW on \in Objects, NEW points \in SUBSET Points
  PROVE  /\ StepOn(command, on, points) \in StepRecords
         /\ StepOn(command, on, points).command = command
         /\ StepOn(command, on, points).on = on
         /\ StepOn(command, on, points).points = points
  BY DEF StepOn, StepRecords

LEMMA ConcatCovers ==
  ASSUME NEW T, NEW s \in Seq(T), NEW t \in Seq(T), NEW p, Covers(s, p) \/ Covers(t, p)
  PROVE  Covers(s \o t, p)
  <1>1. /\ Len(s) \in Nat /\ Len(t) \in Nat
        /\ DOMAIN s = 1 .. Len(s) /\ DOMAIN t = 1 .. Len(t)
        /\ DOMAIN (s \o t) = 1 .. Len(s) + Len(t)
        /\ \A i \in 1 .. Len(s) : (s \o t)[i] = s[i]
        /\ \A i \in 1 .. Len(t) : (s \o t)[Len(s) + i] = t[i]
    OBVIOUS
  <1>2. CASE Covers(s, p)
    BY <1>1, <1>2 DEF Covers
  <1>3. CASE Covers(t, p)
    <2>1. PICK i \in 1 .. Len(t) : p \in Scope(t[i])
      BY <1>1, <1>3 DEF Covers
    <2>2. Len(s) + i \in DOMAIN (s \o t) /\ (s \o t)[Len(s) + i] = t[i]
      BY <1>1
    <2> QED BY <2>1, <2>2 DEF Covers
  <1> QED BY <1>2, <1>3

\* One replacement per source file.
LEMMA SourceStepsCover ==
  ASSUME NEW S \in SUBSET Points, NEW paths \in Seq(Paths)
  PROVE  /\ SourceSteps(S, paths) \in Seq({s \in ChangeSteps(S) : s.command = "setBreakpoints"})
         /\ \A p \in Points : Catalog[p].kind = "source"
               /\ (\E i \in DOMAIN paths : paths[i] = Catalog[p].path)
               => Covers(SourceSteps(S, paths), p)
  <1> DEFINE steps == SourceSteps(S, paths)
             K == {s \in ChangeSteps(S) : s.command = "setBreakpoints"}
  <1>1. /\ Len(paths) \in Nat /\ DOMAIN paths = 1 .. Len(paths)
        /\ steps = [i \in 1 .. Len(paths) |->
                      StepOn("setBreakpoints", paths[i], InPath(S, paths[i]))]
    BY DEF SourceSteps
  <1>2. ASSUME NEW i \in 1 .. Len(paths) PROVE steps[i] \in K
    <2>1. steps[i] = StepOn("setBreakpoints", paths[i], InPath(S, paths[i]))
          /\ paths[i] \in Objects
      BY <1>1 DEF Objects
    <2>2. InPath(S, paths[i]) \in SUBSET Points
      BY DEF InPath
    <2>3. /\ steps[i].command = "setBreakpoints" /\ steps[i].on = paths[i]
          /\ steps[i].points = InPath(S, paths[i])
          /\ steps[i] \in StepRecords
      BY <2>1, <2>2, StepsAreRecords DEF Commands
    <2> QED BY <2>3 DEF ChangeSteps, Steps, Changes, Aims
  <1>3. steps \in Seq(K)
    BY <1>1, <1>2
  <1>4. ASSUME NEW p \in Points, Catalog[p].kind = "source",
               NEW i \in DOMAIN paths, paths[i] = Catalog[p].path
        PROVE  Covers(steps, p)
    <2>1. i \in DOMAIN steps /\ steps[i].command = "setBreakpoints" /\ steps[i].on = paths[i]
      BY <1>1 DEF StepOn
    <2>2. p \in Scope(steps[i])
      BY <1>4, <2>1 DEF Scope
    <2> QED BY <2>1, <2>2 DEF Covers
  <1> QED BY <1>3, <1>4

LEMMA ExactStepCovers ==
  ASSUME NEW S \in SUBSET Points
  PROVE  /\ ExactStep(S) \in Seq({s \in ChangeSteps(S) : s.command = "setFunctionBreakpoints"})
         /\ \A p \in OfKind("exact") : Covers(ExactStep(S), p)
  <1> DEFINE step == StepOn("setFunctionBreakpoints", "none", Exacts(S))
  <1>1. /\ step.command = "setFunctionBreakpoints" /\ step.points = Exacts(S)
        /\ step \in StepRecords
    <2>1. Exacts(S) \in SUBSET Points
      BY DEF Exacts
    <2> QED BY <2>1, StepsAreRecords DEF Commands, Objects
  <1>2. step \in {s \in ChangeSteps(S) : s.command = "setFunctionBreakpoints"}
    BY <1>1 DEF ChangeSteps, Steps, Changes, Aims
  <1> HIDE DEF step
  <1>3. ExactStep(S) = <<step>>
    BY DEF ExactStep, step
  <1>4. ExactStep(S) \in Seq({s \in ChangeSteps(S) : s.command = "setFunctionBreakpoints"})
    BY <1>2, <1>3
  <1>5. ASSUME NEW p \in OfKind("exact") PROVE Covers(ExactStep(S), p)
    <2>1. 1 \in DOMAIN ExactStep(S) /\ ExactStep(S)[1] = step
      BY <1>3
    <2>2. p \in Scope(step)
      BY <1>1 DEF Scope, OfKind
    <2> QED BY <2>1, <2>2 DEF Covers
  <1> QED BY <1>4, <1>5

\* A step for each family, about that family.
LEMMA FamilyStepsCover ==
  ASSUME NEW F \in SUBSET Families, NEW goal,
         NEW command,
         \A p \in F : /\ command[p] \in {"set", "enable", "disable", "delete"}
                      /\ command[p] \in {"set", "enable"} => p \in goal
                      /\ command[p] \in {"disable", "delete"} => p \notin goal
  PROVE  /\ FamilySteps(F, command) \in
              Seq({s \in ChangeSteps(goal) :
                     s.command = "evaluate" /\ \E p \in F : s.points = {p} /\ s.on = command[p]})
         /\ \A p \in F : Covers(FamilySteps(F, command), p)
  <1> DEFINE ids == InOrder(F)
             steps == FamilySteps(F, command)
             K == {s \in ChangeSteps(goal) :
                     s.command = "evaluate" /\ \E p \in F : s.points = {p} /\ s.on = command[p]}
  <1>1. F \in SUBSET Points
    BY DEF Families, OfKind
  <1>2. ids \in Seq(F) /\ \A p \in F : \E i \in DOMAIN ids : ids[i] = p
    BY <1>1, NumbersInOrder
  <1>3. steps = [i \in DOMAIN ids |-> StepOn("evaluate", command[ids[i]], {ids[i]})]
    BY DEF FamilySteps
  <1> HIDE DEF ids
  <1>4. Len(ids) \in Nat /\ DOMAIN ids = 1 .. Len(ids)
    BY <1>2
  <1>5. ASSUME NEW p \in F
        PROVE  StepOn("evaluate", command[p], {p}) \in K
               /\ p \in Scope(StepOn("evaluate", command[p], {p}))
    <2> DEFINE s == StepOn("evaluate", command[p], {p})
    <2>1. s.command = "evaluate" /\ s.on = command[p] /\ s.points = {p}
      BY DEF StepOn
    <2>2. command[p] \in {"set", "enable", "disable", "delete"}
      OBVIOUS
    <2>3. s \in StepRecords
      <3>1. command[p] \in Objects /\ {p} \in SUBSET Points
        BY <1>1, <2>2 DEF Objects
      <3> QED BY <3>1, StepsAreRecords DEF Commands
    <2>4. s \in Steps
      BY <2>1, <2>3 DEF Steps
    <2> HIDE DEF s
    <2>5. Aims(s, goal)
      BY <2>1, <2>2 DEF Aims
    <2>6. s \in K
      BY <2>1, <2>4, <2>5 DEF ChangeSteps, Changes
    <2>7. p \in Scope(s)
      BY <1>1, <2>1, <2>2 DEF Scope
    <2> QED BY <2>6, <2>7 DEF s
  <1>6. steps \in Seq(K)
    <2>1. \A i \in 1 .. Len(ids) : ids[i] \in F
      BY <1>2, <1>4
    <2>2. ASSUME NEW i \in 1 .. Len(ids) PROVE steps[i] \in K
      <3>1. steps[i] = StepOn("evaluate", command[ids[i]], {ids[i]})
        BY <1>3, <1>4
      <3> HIDE DEF K, steps
      <3> QED BY <3>1, <1>5, <2>1
    <2>3. DOMAIN steps = 1 .. Len(ids) /\ steps = [i \in 1 .. Len(ids) |-> steps[i]]
      BY <1>3, <1>4
    <2> HIDE DEF K, steps
    <2> QED BY <1>4, <2>2, <2>3
  <1>7. ASSUME NEW p \in F PROVE Covers(steps, p)
    <2>1. PICK i \in DOMAIN ids : ids[i] = p
      BY <1>2
    <2>2. i \in DOMAIN steps /\ steps[i] = StepOn("evaluate", command[p], {p})
      BY <1>3, <2>1
    <2> QED BY <1>5, <2>2 DEF Covers
  <1> QED BY <1>6, <1>7

LEMMA KindsOfPoints == \A p \in Points : Catalog[p].kind \in {"source", "exact", "family"}
  <1> DEFINE Entries == [kind : {"source", "exact", "family"}, path : STRING]
  <1>1. Catalog \in Seq(Entries)
    BY BackendAssumption
  <1>2. \A e \in Entries : e.kind \in {"source", "exact", "family"}
    OBVIOUS
  <1> HIDE DEF Entries
  <1>3. \A p \in Points : Catalog[p] \in Entries
    BY <1>1 DEF Points
  <1> QED BY <1>2, <1>3

\* The source file of a breakpoint that is in one set only is among the changed.
LEMMA ChangedListed ==
  ASSUME NEW S \in SUBSET Points, NEW T \in SUBSET Points
  PROVE  /\ Changed(S, T) \in Seq(Paths)
         /\ \A p \in Points : Catalog[p].kind = "source" /\ (p \in S) # (p \in T) =>
               \E k \in DOMAIN Changed(S, T) : Changed(S, T)[k] = Catalog[p].path
  <1> DEFINE listed == Sources(S) \o Sources(T)
             paths == PathsOf(listed)
             those == {i \in DOMAIN paths : InPath(S, paths[i]) # InPath(T, paths[i])}
  <1>1. ASSUME NEW U \in SUBSET Points
        PROVE  Sources(U) \in Seq(Points)
               /\ \A p \in U : Catalog[p].kind = "source" =>
                     \E i \in DOMAIN Sources(U) : Sources(U)[i] = p
    <2>1. U \cap OfKind("source") \in SUBSET Points
      OBVIOUS
    <2>2. Sources(U) \in Seq(U \cap OfKind("source"))
          /\ \A p \in U \cap OfKind("source") : \E i \in DOMAIN Sources(U) : Sources(U)[i] = p
      BY <2>1, NumbersInOrder DEF Sources
    <2>3. Sources(U) \in Seq(Points)
      BY <2>1, <2>2
    <2> QED BY <2>2, <2>3 DEF OfKind
  <1>2. listed \in Seq(Points)
    BY <1>1
  <1>3. ASSUME NEW p \in S \cup T, Catalog[p].kind = "source"
        PROVE  \E i \in DOMAIN listed : listed[i] = p
    <2> DEFINE s == Sources(S)
               t == Sources(T)
    <2>1. s \in Seq(Points) /\ t \in Seq(Points)
      BY <1>1
    <2>2. (\E i \in DOMAIN s : s[i] = p) \/ (\E i \in DOMAIN t : t[i] = p)
      BY <1>1, <1>3
    <2> HIDE DEF s, t
    <2>3. /\ Len(s) \in Nat /\ Len(t) \in Nat
          /\ DOMAIN s = 1 .. Len(s) /\ DOMAIN t = 1 .. Len(t)
          /\ DOMAIN (s \o t) = 1 .. Len(s) + Len(t)
          /\ \A i \in 1 .. Len(s) : (s \o t)[i] = s[i]
          /\ \A i \in 1 .. Len(t) : (s \o t)[Len(s) + i] = t[i]
      BY <2>1
    <2>4. CASE \E i \in DOMAIN s : s[i] = p
      BY <2>3, <2>4 DEF s, t
    <2>5. CASE \E i \in DOMAIN t : t[i] = p
      <3>1. PICK i \in 1 .. Len(t) : t[i] = p
        BY <2>3, <2>5
      <3>2. Len(s) + i \in DOMAIN (s \o t) /\ (s \o t)[Len(s) + i] = p
        BY <2>3, <3>1
      <3> QED BY <3>2 DEF s, t
    <2> QED BY <2>2, <2>4, <2>5
  <1> HIDE DEF listed
  <1>4. paths \in Seq(Paths)
        /\ \A i \in DOMAIN listed : \E k \in DOMAIN paths : paths[k] = Catalog[listed[i]].path
    BY <1>2, PathsListed
  <1>5. Changed(S, T) = Picked(paths, those)
    BY DEF Changed, listed
  <1>6. those \in SUBSET DOMAIN paths
    OBVIOUS
  <1> HIDE DEF paths, those
  <1>7. /\ Picked(paths, those) \in Seq(Paths)
        /\ \A i \in those : \E j \in DOMAIN Picked(paths, those) :
              Picked(paths, those)[j] = paths[i]
    BY <1>4, <1>6, PickedElements
  <1>8. ASSUME NEW p \in Points, Catalog[p].kind = "source", (p \in S) # (p \in T)
        PROVE  \E k \in DOMAIN Changed(S, T) : Changed(S, T)[k] = Catalog[p].path
    <2>1. PICK i \in DOMAIN listed : listed[i] = p
      BY <1>3, <1>8
    <2>2. PICK k \in DOMAIN paths : paths[k] = Catalog[p].path
      BY <1>4, <2>1
    <2>3. p \in InPath(S, paths[k]) <=> p \in S
      BY <1>8, <2>2 DEF InPath, OfKind
    <2>4. p \in InPath(T, paths[k]) <=> p \in T
      BY <1>8, <2>2 DEF InPath, OfKind
    <2>5. k \in those
      BY <1>8, <2>3, <2>4 DEF those
    <2> QED BY <1>5, <1>7, <2>2, <2>5
  <1> QED BY <1>5, <1>7, <1>8

\* Each of these families is installed.
LEMMA InstallationsCover ==
  ASSUME NEW F \in SUBSET Families, NEW goal, F \subseteq goal
  PROVE  /\ Installations(F) \in
              Seq({s \in ChangeSteps(goal) : s.command = "evaluate" /\ s.on = "set"})
         /\ \A p \in F : Covers(Installations(F), p)
  <1> DEFINE command == [p \in F |-> "set"]
             L == {s \in ChangeSteps(goal) :
                     s.command = "evaluate" /\ \E p \in F : s.points = {p} /\ s.on = command[p]}
  <1>1. Installations(F) = FamilySteps(F, command)
    BY DEF Installations
  <1>2. \A p \in F : /\ command[p] \in {"set", "enable", "disable", "delete"}
                     /\ command[p] \in {"set", "enable"} => p \in goal
                     /\ command[p] \in {"disable", "delete"} => p \notin goal
    OBVIOUS
  <1>3. \A p \in F : command[p] = "set"
    OBVIOUS
  <1> HIDE DEF command
  <1>4. FamilySteps(F, command) \in Seq(L) /\ \A p \in F : Covers(FamilySteps(F, command), p)
    BY <1>2, FamilyStepsCover
  <1>5. L \subseteq {s \in ChangeSteps(goal) : s.command = "evaluate" /\ s.on = "set"}
    BY <1>3
  <1> HIDE DEF L
  <1> QED BY <1>1, <1>4, <1>5

\* The steps of a launch cover every enabled breakpoint.
LEMMA ConfigurationCovers ==
  ASSUME NEW S \in SUBSET Points
  PROVE  /\ ConfigurationSteps(S) \in
              Seq({s \in ChangeSteps(S) : s.command = "evaluate" => s.on = "set"})
         /\ \A p \in S : Covers(ConfigurationSteps(S), p)
  <1> DEFINE K == {s \in ChangeSteps(S) : s.command = "evaluate" => s.on = "set"}
             paths == PathsOf(Sources(S))
             A == SourceSteps(S, paths)
             B == IF Exacts(S) = {} THEN <<>> ELSE ExactStep(S)
             F == S \cap Families
             C == Installations(F)
  <1>1. Sources(S) \in Seq(Points)
        /\ \A p \in S : Catalog[p].kind = "source" =>
              \E i \in DOMAIN Sources(S) : Sources(S)[i] = p
    <2>1. S \cap OfKind("source") \in SUBSET Points
      OBVIOUS
    <2>2. Sources(S) \in Seq(S \cap OfKind("source"))
          /\ \A p \in S \cap OfKind("source") : \E i \in DOMAIN Sources(S) : Sources(S)[i] = p
      BY <2>1, NumbersInOrder DEF Sources
    <2>3. Sources(S) \in Seq(Points)
      BY <2>1, <2>2
    <2> QED BY <2>2, <2>3 DEF OfKind
  <1>2. paths \in Seq(Paths)
        /\ \A i \in DOMAIN Sources(S) : \E k \in DOMAIN paths :
              paths[k] = Catalog[Sources(S)[i]].path
    BY <1>1, PathsListed
  <1> HIDE DEF paths
  <1>3. A \in Seq({s \in ChangeSteps(S) : s.command = "setBreakpoints"})
        /\ \A p \in S : Catalog[p].kind = "source" => Covers(A, p)
    <2>1. ASSUME NEW p \in S, Catalog[p].kind = "source"
          PROVE  \E k \in DOMAIN paths : paths[k] = Catalog[p].path
      <3>1. PICK i \in DOMAIN Sources(S) : Sources(S)[i] = p
        BY <1>1, <2>1
      <3> QED BY <1>2, <3>1
    <2> QED BY <1>2, <2>1, SourceStepsCover
  <1>4. B \in Seq(K) /\ \A p \in S : Catalog[p].kind = "exact" => Covers(B, p)
    <2>1. /\ ExactStep(S) \in Seq({s \in ChangeSteps(S) : s.command = "setFunctionBreakpoints"})
          /\ \A p \in OfKind("exact") : Covers(ExactStep(S), p)
      BY ExactStepCovers
    <2>2. ExactStep(S) \in Seq(K)
      BY <2>1
    <2>3. \A p \in S : Catalog[p].kind = "exact" => p \in Exacts(S) /\ p \in OfKind("exact")
      BY DEF Exacts, OfKind
    <2> QED BY <2>1, <2>2, <2>3
  <1>5. C \in Seq(K) /\ \A p \in F : Covers(C, p)
    <2> HIDE DEF C, F, K
    <2>1. C \in Seq({s \in ChangeSteps(S) : s.command = "evaluate" /\ s.on = "set"})
          /\ \A p \in F : Covers(C, p)
      BY InstallationsCover DEF C, F
    <2>2. {s \in ChangeSteps(S) : s.command = "evaluate" /\ s.on = "set"} \subseteq K
      BY DEF K
    <2> QED BY <2>1, <2>2
  <1>6. A \in Seq(K)
    BY <1>3
  <1>7. ConfigurationSteps(S) = (A \o B) \o C
    BY DEF ConfigurationSteps, paths
  <1>8. \A p \in Points : \/ Catalog[p].kind = "source" \/ Catalog[p].kind = "exact"
                          \/ p \in Families
    BY KindsOfPoints DEF Families, OfKind
  <1> HIDE DEF A, B, C, K
  <1>9. A \o B \in Seq(K) /\ (A \o B) \o C \in Seq(K)
    BY <1>4, <1>5, <1>6
  <1>10. \A p \in S : Covers((A \o B) \o C, p)
    BY <1>3, <1>4, <1>5, <1>6, <1>8, <1>9, ConcatCovers DEF F
  <1> QED BY <1>7, <1>9, <1>10 DEF K

\* A family that is enabled is installed and stays so in this synchronization.
Fits(s, x, want) ==
    /\ s.command = "evaluate" /\ s.on = "enable" => s.points \subseteq x.handles \cap want.known
    /\ s.command = "evaluate" /\ s.on = "delete" => s.points \cap want.known = {}

\* The steps of a synchronization cover every breakpoint that changes.
LEMMA SynchronizationCovers ==
  ASSUME NEW want \in Configurations, want.on \cap Families \subseteq want.known,
         applied \in SUBSET Points, exec.handles \in SUBSET Families,
         exec.active \subseteq exec.handles
  PROVE  /\ SynchronizationSteps(want) \in {s \in Seq(ChangeSteps(want.on)) :
                \A i \in DOMAIN s : Fits(s[i], exec, want)}
         /\ applied \cap Families = exec.active =>
               \A p \in Points : (p \in applied) # (p \in want.on) =>
                   Covers(SynchronizationSteps(want), p)
  <1> DEFINE K == {s \in ChangeSteps(want.on) : Fits(s, exec, want)}
             on == want.on
             paths == Changed(applied, on)
             A == SourceSteps(on, paths)
             B == IF Exacts(applied) = Exacts(on) THEN <<>> ELSE ExactStep(on)
             F == {p \in exec.handles : FamilyChange(want, p) # "keep"}
             change == [p \in exec.handles |-> FamilyChange(want, p)]
             C == FamilySteps(F, change)
             G == (on \cap Families) \ exec.handles
             D == Installations(G)
             Differs(p) == (p \in applied) # (p \in on)
  <1>1. on \in SUBSET Points
    BY DEF Configurations
  <1>2. paths \in Seq(Paths)
        /\ \A p \in Points : Catalog[p].kind = "source" /\ Differs(p) =>
              \E k \in DOMAIN paths : paths[k] = Catalog[p].path
    BY <1>1, ChangedListed
  <1> HIDE DEF paths
  <1>3. A \in Seq({s \in ChangeSteps(on) : s.command = "setBreakpoints"})
        /\ \A p \in Points : Catalog[p].kind = "source" /\ Differs(p) => Covers(A, p)
    BY <1>1, <1>2, SourceStepsCover
  <1>4. A \in Seq(K)
    <2>1. \A s \in ChangeSteps(on) : s.command = "setBreakpoints" => s \in K
      BY DEF Fits
    <2> HIDE DEF A
    <2> QED BY <1>3, <2>1
  <1>5. B \in Seq(K) /\ \A p \in Points : Catalog[p].kind = "exact" /\ Differs(p) => Covers(B, p)
    <2>1. /\ ExactStep(on) \in Seq({s \in ChangeSteps(on) : s.command = "setFunctionBreakpoints"})
          /\ \A p \in OfKind("exact") : Covers(ExactStep(on), p)
      BY <1>1, ExactStepCovers
    <2>2. \A s \in ChangeSteps(on) : s.command = "setFunctionBreakpoints" => s \in K
      BY DEF Fits
    <2>3. ExactStep(on) \in Seq(K)
      <3> HIDE DEF K
      <3> QED BY <2>1, <2>2
    <2>4. \A p \in Points : Catalog[p].kind = "exact" /\ Differs(p) =>
             Exacts(applied) # Exacts(on) /\ p \in OfKind("exact")
      BY DEF Exacts, OfKind
    <2> HIDE DEF K
    <2> QED BY <2>1, <2>3, <2>4
  <1>6. C \in Seq(K) /\ \A p \in F : Covers(C, p)
    <2>1. \A p \in F : /\ change[p] = FamilyChange(want, p)
                       /\ change[p] \in {"set", "enable", "disable", "delete"}
                       /\ change[p] \in {"set", "enable"} => p \in on
                       /\ change[p] \in {"disable", "delete"} => p \notin on
                       /\ change[p] = "enable" => p \in want.known
                       /\ change[p] = "delete" => p \notin want.known
      BY DEF FamilyChange
    <2>2. F \in SUBSET Families /\ F \subseteq exec.handles
      OBVIOUS
    <2> HIDE DEF change, F
    <2> DEFINE L == {s \in ChangeSteps(on) :
                       s.command = "evaluate" /\ \E p \in F : s.points = {p} /\ s.on = change[p]}
    <2>3. C \in Seq(L) /\ \A p \in F : Covers(C, p)
      BY <2>1, <2>2, FamilyStepsCover
    <2>4. \A s \in L : s \in K
      BY <2>1, <2>2 DEF Fits
    <2> HIDE DEF C, K, L
    <2> QED BY <2>3, <2>4
  <1>7. D \in Seq(K) /\ \A p \in G : Covers(D, p)
    <2> HIDE DEF D, G, K
    <2>1. D \in Seq({s \in ChangeSteps(on) : s.command = "evaluate" /\ s.on = "set"})
          /\ \A p \in G : Covers(D, p)
      <3>1. G \in SUBSET Families /\ G \subseteq on
        BY DEF G
      <3> QED BY <3>1, InstallationsCover DEF D
    <2>2. {s \in ChangeSteps(on) : s.command = "evaluate" /\ s.on = "set"} \subseteq K
      BY DEF K, Fits
    <2> QED BY <2>1, <2>2
  <1>8. ASSUME applied \cap Families = exec.active, NEW p \in Families, Differs(p)
        PROVE  p \in F \/ p \in G
    <2>1. CASE p \in on
      BY <1>8, <2>1 DEF FamilyChange
    <2>2. CASE p \notin on
      BY <1>8, <2>2 DEF FamilyChange
    <2> QED BY <2>1, <2>2
  <1>9. SynchronizationSteps(want) = ((A \o B) \o C) \o D
    BY DEF SynchronizationSteps, paths
  <1>10. \A p \in Points : \/ Catalog[p].kind = "source" \/ Catalog[p].kind = "exact"
                           \/ p \in Families
    BY KindsOfPoints DEF Families, OfKind
  <1> HIDE DEF A, B, C, D, K, F, G
  <1>11. A \o B \in Seq(K) /\ (A \o B) \o C \in Seq(K) /\ ((A \o B) \o C) \o D \in Seq(K)
    BY <1>4, <1>5, <1>6, <1>7
  <1>12. ((A \o B) \o C) \o D \in {s \in Seq(ChangeSteps(want.on)) :
                \A i \in DOMAIN s : Fits(s[i], exec, want)}
    <2> DEFINE s == ((A \o B) \o C) \o D
    <2> HIDE DEF s
    <2>1. s \in Seq(K) => s \in Seq(ChangeSteps(want.on)) /\ \A i \in DOMAIN s : Fits(s[i], exec, want)
      BY DEF K
    <2> QED BY <1>11, <2>1 DEF s
  <1>13. ASSUME applied \cap Families = exec.active, NEW p \in Points, Differs(p)
         PROVE  Covers(((A \o B) \o C) \o D, p)
    <2>1. Covers(A, p) \/ Covers(B, p) \/ Covers(C, p) \/ Covers(D, p)
      BY <1>3, <1>5, <1>6, <1>7, <1>8, <1>10, <1>13
    <2> QED BY <1>4, <1>5, <1>6, <1>7, <1>11, <2>1, ConcatCovers
  <1> QED BY <1>9, <1>12, <1>13

-----------------------------------------------------------------------------
(* Types.                                                                    *)

RequestRecords ==
    [seq : Nat, command : Commands, on : Objects, points : SUBSET Points, thread : {0, 1}]
Messages ==
    [kind : {"response", "event"}, to : Nat,
     name : Commands \cup {"stopped", "exited", "terminated"}, ok : BOOLEAN, thread : {0, 1}, full : BOOLEAN]
Processes ==
    [requests : Seq(RequestRecords), messages : Seq(Messages), exit : Int, open : BOOLEAN]
Targets ==
    [program : {"none", "loaded", "running", "stopped", "gone"}, tables : SUBSET Points,
     owed : Seq(Messages)]

States == {"Ready", "Preparing", "Configuring", "Running", "Stopped", "Exited", "Failed"}
Executions ==
    [adapter : Nat, state : States, next : Nat \ {0, 1}, inbox : SUBSET Messages, thread : {0, 1},
     windows : SUBSET Nat, frames : Nat, whole : BOOLEAN,
     read : SUBSET {"scopes", "variables"}, handles : SUBSET Families,
     active : SUBSET Families, outcomes : SUBSET Points, output : Seq(Outputs)]
Operations ==
    [name : {"idle", "launch", "resume", "sync", "find", "locals", "stack", "quit"},
     todo : Seq(Steps), waits : Nat \cup {NoRequest}, launch : Nat \cup {NoRequest},
     launched : BOOLEAN, want : Configurations, page : Nat, filter : BOOLEAN,
     settling : BOOLEAN, failing : BOOLEAN, stale : BOOLEAN]
Views ==
    [phase : {"Ready", "Running", "Stopped", "Exited"}, windows : Nat, whole : BOOLEAN]
AnswersGiven ==
    {"none", "stopped", "exited", "failed", "timed out", "refused", "rejected", "done",
     "unreadable", "closed"}

\* The windows of a stop are cached from the first one on, the families in use are
\* installed, and what waits in the inbox are responses to requests that were sent.
Coherent(x) ==
    /\ x.windows = {} \/ x.windows = 0 .. x.frames - 1
    /\ x.active \subseteq x.handles
    /\ \A m \in x.inbox : IsResponse(m) /\ m.to < x.next

Operates(o, x) ==
    /\ o \in Operations
    /\ o.waits # NoRequest => o.todo # <<>>
    /\ \A i \in DOMAIN o.todo : Fits(o.todo[i], x, o.want)

\* What an adapter has sent or will.
Heard(a) ==
    {adapters[a].messages[i] : i \in DOMAIN adapters[a].messages}
    \cup {targets[a].owed[i] : i \in DOMAIN targets[a].owed}

\* The requests of an adapter were given these numbers, and it answers no others.
Numbered(a, next) ==
    /\ \A i \in DOMAIN adapters[a].requests : adapters[a].requests[i].seq < next
    /\ \A m \in Heard(a) : m.to < next

\* An adapter that no execution has was sent the first request only.
NextNumber(a) == IF a = exec.adapter THEN exec.next ELSE 2

AdaptersTyped ==
    /\ adapters \in Seq(Processes)
    /\ targets \in Seq(Targets)
    /\ DOMAIN targets = DOMAIN adapters
    /\ \A a \in DOMAIN adapters : adapters[a].open => Numbered(a, NextNumber(a))

ExecutionTyped ==
    /\ exec \in Executions /\ Coherent(exec)
    /\ Has => exec.adapter \in DOMAIN adapters /\ adapters[exec.adapter].open
    /\ prep.adapter \in 0 .. Len(adapters)

Typed ==
    /\ AdaptersTyped
    /\ ExecutionTyped
    /\ applied \subseteq Points
    /\ Operates(op, exec)
    /\ view \in Views
    /\ answer \in AnswersGiven

-----------------------------------------------------------------------------
(* What becomes of an execution.                                             *)

Sound(x) == x \in Executions /\ Coherent(x)

\* It is the same but for its program: state, stop and output.
Like(x, y) ==
    /\ y.adapter = x.adapter /\ y.next = x.next /\ y.inbox = x.inbox
    /\ y.handles = x.handles /\ y.active = x.active

LEMMA EndsAreSound ==
  ASSUME NEW x, Sound(x)
  PROVE  /\ Sound(Failed(x)) /\ Like(x, Failed(x))
         /\ Sound(Finished(x)) /\ Like(x, Finished(x))
  <1>1. /\ Failed(x) \in Executions /\ Like(x, Failed(x))
        /\ Failed(x).windows = x.windows /\ Failed(x).frames = x.frames
    BY DEF Sound, Executions, States, Failed, NoThread, Like
  <1>2. /\ Finished(x) \in Executions /\ Like(x, Finished(x))
        /\ Finished(x).windows = x.windows /\ Finished(x).frames = x.frames
    BY DEF Sound, Executions, States, Finished, NoThread, Like
  <1> QED BY <1>1, <1>2 DEF Sound, Coherent, Like

LEMMA BlankIsSound ==
  ASSUME NEW x, Sound(x)
  PROVE  /\ Sound(Blank(x)) /\ Like(x, Blank(x))
         /\ Blank(x).windows = {} /\ Blank(x).state = x.state
  <1>1. /\ Blank(x) \in Executions /\ Like(x, Blank(x))
        /\ Blank(x).windows = {} /\ Blank(x).state = x.state
    BY DEF Sound, Executions, Blank, Like
  <1> QED BY <1>1 DEF Sound, Coherent, Like

LEMMA AcceptedIsSound ==
  ASSUME NEW x, Sound(x), NEW m \in Messages
  PROVE  Sound(Accepted(x, m)) /\ Like(x, Accepted(x, m))
  <1> DEFINE b == Blank(x)
  <1>1. /\ Sound(b) /\ Like(x, b) /\ b.windows = {}
    BY BlankIsSound
  <1>2. m.thread \in {0, 1}
    BY DEF Messages
  <1> HIDE DEF b
  <1>3. ASSUME NEW s \in States, NEW t \in {0, 1}
        PROVE  /\ Sound([b EXCEPT !.state = s, !.thread = t, !.frames = 0])
               /\ Like(x, [b EXCEPT !.state = s, !.thread = t, !.frames = 0])
               /\ Sound([b EXCEPT !.state = s, !.thread = t])
               /\ Like(x, [b EXCEPT !.state = s, !.thread = t])
    <2> DEFINE y == [b EXCEPT !.state = s, !.thread = t, !.frames = 0]
               z == [b EXCEPT !.state = s, !.thread = t]
    <2>1. y \in Executions /\ Like(x, y) /\ y.windows = {}
      BY <1>1 DEF Sound, Executions, Like
    <2>2. z \in Executions /\ Like(x, z) /\ z.windows = {}
      BY <1>1 DEF Sound, Executions, Like
    <2>3. Coherent(y) /\ Coherent(z)
      BY <1>1, <2>1, <2>2 DEF Sound, Coherent, Like
    <2> QED BY <2>1, <2>2, <2>3 DEF Sound
  <1>4. ASSUME m.name \in Outputs
        PROVE  /\ Sound([x EXCEPT !.output = Append(@, m.name)])
               /\ Like(x, [x EXCEPT !.output = Append(@, m.name)])
    <2> DEFINE y == [x EXCEPT !.output = Append(@, m.name)]
    <2>1. Append(x.output, m.name) \in Seq(Outputs)
      BY <1>4 DEF Sound, Executions
    <2>2. y \in Executions /\ Like(x, y) /\ y.windows = x.windows /\ y.frames = x.frames
      BY <2>1 DEF Sound, Executions, Like
    <2> QED BY <2>2 DEF Sound, Coherent, Like
  <1>5. /\ Sound([x EXCEPT !.state = "Configuring"])
        /\ Like(x, [x EXCEPT !.state = "Configuring"])
    <2> DEFINE y == [x EXCEPT !.state = "Configuring"]
    <2>1. y \in Executions /\ Like(x, y) /\ y.windows = x.windows /\ y.frames = x.frames
      BY DEF Sound, Executions, States, Like
    <2> QED BY <2>1 DEF Sound, Coherent, Like
  <1>6. \/ m.name \in Outputs /\ Accepted(x, m) = [x EXCEPT !.output = Append(@, m.name)]
        \/ Accepted(x, m) = [x EXCEPT !.state = "Configuring"]
        \/ Accepted(x, m) = b
        \/ Accepted(x, m) = [b EXCEPT !.state = "Stopped", !.thread = m.thread, !.frames = 0]
        \/ Accepted(x, m) = [b EXCEPT !.state = "Exited", !.thread = NoThread]
        \/ Accepted(x, m) = x
    BY DEF Accepted, b
  <1>7. /\ Sound([b EXCEPT !.state = "Stopped", !.thread = m.thread, !.frames = 0])
        /\ Like(x, [b EXCEPT !.state = "Stopped", !.thread = m.thread, !.frames = 0])
    BY <1>2, <1>3 DEF States
  <1>8. /\ Sound([b EXCEPT !.state = "Exited", !.thread = NoThread])
        /\ Like(x, [b EXCEPT !.state = "Exited", !.thread = NoThread])
    BY <1>3 DEF States, NoThread
  <1>9. Sound(x) /\ Like(x, x)
    BY DEF Like
  <1> QED BY <1>1, <1>4, <1>5, <1>6, <1>7, <1>8, <1>9, Zenon

LEMMA SendingIsSound ==
  ASSUME Sound(exec), NEW command
  PROVE  Sound(Sending(command)) /\ Like(exec, Sending(command))
  <1> DEFINE b == Blank(exec)
  <1>1. Sound(b) /\ Like(exec, b)
    BY BlankIsSound
  <1>2. \/ Sending(command) = [exec EXCEPT !.state = "Preparing"]
        \/ Sending(command) = [exec EXCEPT !.state = "Running", !.thread = NoThread]
        \/ Sending(command) = [b EXCEPT !.state = "Running", !.thread = NoThread]
        \/ Sending(command) = exec
    BY DEF Sending, b
  <1> HIDE DEF b
  <1>3. ASSUME NEW x \in {exec, b}
        PROVE  /\ Sound([x EXCEPT !.state = "Preparing"])
               /\ Like(exec, [x EXCEPT !.state = "Preparing"])
               /\ Sound([x EXCEPT !.state = "Running", !.thread = NoThread])
               /\ Like(exec, [x EXCEPT !.state = "Running", !.thread = NoThread])
    <2> DEFINE y == [x EXCEPT !.state = "Preparing"]
               z == [x EXCEPT !.state = "Running", !.thread = NoThread]
    <2>1. Sound(x) /\ Like(exec, x)
      BY <1>1 DEF Like
    <2>2. y \in Executions /\ Like(exec, y) /\ y.windows = x.windows /\ y.frames = x.frames
      BY <2>1 DEF Sound, Executions, States, Like
    <2>3. z \in Executions /\ Like(exec, z) /\ z.windows = x.windows /\ z.frames = x.frames
      BY <2>1 DEF Sound, Executions, States, Like, NoThread
    <2>4. Coherent(y) /\ Coherent(z)
      BY <2>1, <2>2, <2>3 DEF Sound, Coherent, Like
    <2> QED BY <2>2, <2>3, <2>4 DEF Sound
  <1>4. Like(exec, exec)
    BY DEF Like
  <1> QED BY <1>2, <1>3, <1>4

LEMMA ConfiguredIsSound ==
  ASSUME NEW x, Sound(x), NEW s \in Steps, NEW want, Fits(s, x, want),
         s.command \in Changes
  PROVE  /\ Sound(Configured(x, s))
         /\ \A t : Fits(t, x, want) => Fits(t, Configured(x, s), want)
         /\ Configured(x, s).adapter = x.adapter /\ Configured(x, s).next = x.next
         /\ Configured(x, s).inbox = x.inbox
  <1> DEFINE y == Configured(x, s)
             A == [x EXCEPT !.handles = @ \cup s.points, !.active = @ \cup s.points]
             B == [x EXCEPT !.active = @ \cup s.points]
             C == [x EXCEPT !.active = @ \ s.points]
             D == [x EXCEPT !.handles = @ \ s.points, !.active = @ \ s.points,
                            !.outcomes = @ \ s.points]
             E == [x EXCEPT !.outcomes = @ \cup s.points]
  <1>1. \/ s.command = "evaluate" /\ s.on = "set" /\ y = A
        \/ s.command = "evaluate" /\ s.on = "enable" /\ y = B
        \/ s.command = "evaluate" /\ s.on = "disable" /\ y = C
        \/ s.command = "evaluate" /\ s.on = "delete" /\ y = D
        \/ y = E
    BY Zenon DEF Configured
  <1>2. /\ s.points \subseteq Points
        /\ s.command = "evaluate" => s.points \subseteq Families
    BY DEF Steps, StepRecords
  <1> DEFINE Good(z) == /\ z \in Executions
                        /\ z.adapter = x.adapter /\ z.next = x.next /\ z.inbox = x.inbox
                        /\ z.windows = x.windows /\ z.frames = x.frames
                        /\ z.active \subseteq z.handles
                        /\ \A t : Fits(t, x, want) => Fits(t, z, want)
  <1>3. ASSUME s.command = "evaluate", s.on = "set" PROVE Good(A)
    BY <1>2, <1>3 DEF Sound, Executions, Coherent, Fits
  <1>4. ASSUME s.command = "evaluate", s.on = "enable" PROVE Good(B)
    BY <1>2, <1>4 DEF Sound, Executions, Coherent, Fits
  <1>5. ASSUME s.command = "evaluate", s.on = "disable" PROVE Good(C)
    BY <1>2, <1>5 DEF Sound, Executions, Coherent, Fits
  <1>6. ASSUME s.command = "evaluate", s.on = "delete" PROVE Good(D)
    BY <1>2, <1>6 DEF Sound, Executions, Coherent, Fits
  <1>7. Good(E)
    BY <1>2 DEF Sound, Executions, Coherent, Fits
  <1> HIDE DEF A, B, C, D, E, Good
  <1>8. Good(y)
    BY <1>1, <1>3, <1>4, <1>5, <1>6, <1>7
  <1> QED BY <1>8 DEF Good, Sound, Coherent

-----------------------------------------------------------------------------
(* How an operation goes on.                                                 *)

LEMMA TailSteps ==
  ASSUME NEW T, NEW s \in Seq(T), s # <<>>
  PROVE  /\ Tail(s) \in Seq(T) /\ Head(s) \in T
         /\ 1 \in DOMAIN s /\ Head(s) = s[1]
         /\ \A i \in DOMAIN Tail(s) : i + 1 \in DOMAIN s /\ Tail(s)[i] = s[i + 1]
         /\ \A i \in DOMAIN s : i # 1 => i - 1 \in DOMAIN Tail(s) /\ Tail(s)[i - 1] = s[i]
         /\ \A h \in T : /\ <<h>> \o Tail(s) \in Seq(T) /\ <<h>> \o Tail(s) # <<>>
                         /\ Head(<<h>> \o Tail(s)) = h
                         /\ DOMAIN (<<h>> \o Tail(s)) = DOMAIN s
                         /\ (<<h>> \o Tail(s))[1] = h
                         /\ \A i \in DOMAIN s : i # 1 => (<<h>> \o Tail(s))[i] = s[i]
  <1> DEFINE t == Tail(s)
  <1>1. /\ t \in Seq(T) /\ Head(s) \in T /\ Len(t) = Len(s) - 1 /\ Len(s) \in Nat \ {0}
        /\ \A i \in 1 .. Len(t) : t[i] = s[i + 1]
        /\ Head(s) = s[1]
    BY HeadTailProperties, EmptySeq
  <1>2. DOMAIN s = 1 .. Len(s) /\ DOMAIN t = 1 .. Len(t)
    BY <1>1
  <1> HIDE DEF t
  <1>3. ASSUME NEW h \in T
        PROVE  /\ <<h>> \o t \in Seq(T) /\ <<h>> \o t # <<>>
               /\ Head(<<h>> \o t) = h
               /\ DOMAIN (<<h>> \o t) = DOMAIN s
               /\ (<<h>> \o t)[1] = h
               /\ \A i \in DOMAIN s : i # 1 => (<<h>> \o t)[i] = s[i]
    <2> DEFINE u == <<h>> \o t
    <2>1. <<h>> \in Seq(T) /\ Len(<<h>>) = 1 /\ <<h>>[1] = h
      OBVIOUS
    <2>2. /\ u \in Seq(T) /\ Len(u) = 1 + Len(t)
          /\ \A i \in 1 .. 1 + Len(t) : u[i] = IF i <= 1 THEN <<h>>[i] ELSE t[i - 1]
      BY <1>1, <2>1, ConcatProperties
    <2> HIDE DEF u
    <2>3. Len(u) = Len(s) /\ DOMAIN u = DOMAIN s /\ u[1] = h
      BY <1>1, <1>2, <2>1, <2>2
    <2>4. u # <<>> /\ Head(u) = h
      BY <1>1, <2>2, <2>3
    <2>5. \A i \in DOMAIN s : i # 1 => u[i] = s[i]
      BY <1>1, <1>2, <2>2
    <2> QED BY <2>2, <2>3, <2>4, <2>5 DEF u
  <1> QED BY <1>1, <1>2, <1>3 DEF t

\* A step that is no breakpoint command.
Plain(s) == s.command # "evaluate" \/ s.on = "list"

\* The steps left are of those there were, or are no breakpoint commands.
Continues(o) ==
    /\ o \in Operations
    /\ o.name = op.name /\ o.want = op.want
    /\ o.waits # NoRequest => o.todo # <<>>
    /\ \A i \in DOMAIN o.todo :
          Plain(o.todo[i]) \/ \E j \in DOMAIN op.todo : o.todo[i] = op.todo[j]

LEMMA PlainSteps ==
  ASSUME NEW c \in Commands
  PROVE  /\ Step(c) \in Steps /\ Step(c).command = c
         /\ c # "evaluate" => Plain(Step(c))
  BY DEF Step, Steps, StepRecords, Commands, Objects, Plain

LEMMA AdvancedContinues ==
  ASSUME Operates(op, exec), op.todo # <<>>
  PROVE  /\ Continues(Advanced)
         /\ Advanced.todo = Tail(op.todo) /\ Advanced.waits = NoRequest
         /\ \A n \in Nat : Continues([Advanced EXCEPT !.launch = n])
  <1>1. op \in Operations /\ op.todo \in Seq(Steps)
    BY DEF Operates, Operations
  <1>2. /\ Tail(op.todo) \in Seq(Steps)
        /\ \A i \in DOMAIN Tail(op.todo) : \E j \in DOMAIN op.todo : Tail(op.todo)[i] = op.todo[j]
    BY <1>1, TailSteps
  <1>3. /\ Advanced \in Operations /\ Advanced.todo = Tail(op.todo)
        /\ Advanced.waits = NoRequest
        /\ Advanced.name = op.name /\ Advanced.want = op.want
    BY <1>1, <1>2 DEF Advanced, Operations
  <1>4. ASSUME NEW n \in Nat PROVE Continues([Advanced EXCEPT !.launch = n])
    <2> DEFINE o == [Advanced EXCEPT !.launch = n]
    <2>1. o \in Operations /\ o.todo = Tail(op.todo) /\ o.waits = NoRequest
          /\ o.name = op.name /\ o.want = op.want
      BY <1>3 DEF Operations
    <2> QED BY <1>2, <2>1 DEF Continues
  <1> QED BY <1>2, <1>3, <1>4 DEF Continues

LEMMA FollowContinues ==
  ASSUME Operates(op, exec), NEW todo \in Seq(Steps),
         \A i \in DOMAIN todo :
            Plain(todo[i]) \/ \E j \in DOMAIN op.todo : todo[i] = op.todo[j]
  PROVE  /\ Continues(Follow(todo)) /\ Follow(todo).todo = todo
         /\ Continues([Follow(todo) EXCEPT !.failing = TRUE])
         /\ Continues([Follow(todo) EXCEPT !.settling = TRUE])
  <1>1. op \in Operations
    BY DEF Operates
  <1> DEFINE f == Follow(todo)
             g == [f EXCEPT !.failing = TRUE]
             h == [f EXCEPT !.settling = TRUE]
  <1>2. f \in Operations /\ f.todo = todo /\ f.waits = NoRequest
        /\ f.name = op.name /\ f.want = op.want
    BY <1>1 DEF Follow, Operations
  <1> HIDE DEF f
  <1>3. g \in Operations /\ g.todo = todo /\ g.waits = NoRequest
        /\ g.name = op.name /\ g.want = op.want
    BY <1>2 DEF Operations
  <1>4. h \in Operations /\ h.todo = todo /\ h.waits = NoRequest
        /\ h.name = op.name /\ h.want = op.want
    BY <1>2 DEF Operations
  <1> QED BY <1>2, <1>3, <1>4 DEF Continues, f

LEMMA PlainContinues ==
  ASSUME Operates(op, exec), NEW todo \in Seq({s \in Steps : Plain(s)})
  PROVE  /\ Continues(Follow(todo)) /\ Follow(todo).todo = todo
         /\ Continues([Follow(todo) EXCEPT !.failing = TRUE])
         /\ Continues([Follow(todo) EXCEPT !.settling = TRUE])
  <1>1. todo \in Seq(Steps) /\ \A i \in DOMAIN todo : Plain(todo[i])
    OBVIOUS
  <1> QED BY <1>1, FollowContinues

LEMMA RecoveringContinues ==
  ASSUME Operates(op, exec)
  PROVE  Continues(Recovering)
  <1>1. CASE At("condition")
    BY <1>1, AdvancedContinues DEF At, Recovering
  <1>2. CASE ~At("condition")
    <2> DEFINE K == {s \in Steps : Plain(s)}
    <2>1. Step("close") \in K /\ Step("discard") \in K /\ Step("disconnect") \in K
      BY PlainSteps DEF Commands
    <2> HIDE DEF K
    <2>2. Recovery \in Seq(K)
      BY <2>1 DEF Recovery
    <2> QED BY <1>2, <2>2, PlainContinues DEF Recovering, K
  <1> QED BY <1>1, <1>2

LEMMA LookedContinues ==
  ASSUME Operates(op, exec), op.todo # <<>>
  PROVE  Continues(Looked)
  <1>1. op \in Operations /\ op.todo \in Seq(Steps)
    BY DEF Operates, Operations
  <1>2. /\ Tail(op.todo) \in Seq(Steps) /\ Current \in Steps
        /\ 1 \in DOMAIN op.todo
    BY <1>1, TailSteps DEF Current
  <1> DEFINE s == [Current EXCEPT !.on = "list"]
             todo == <<s>> \o Tail(op.todo)
  <1>3. s \in Steps /\ Plain(s)
    BY <1>2 DEF Steps, StepRecords, Objects, Plain
  <1>4. /\ todo \in Seq(Steps) /\ DOMAIN todo = DOMAIN op.todo /\ todo[1] = s
        /\ \A i \in DOMAIN op.todo : i # 1 => todo[i] = op.todo[i]
    BY <1>1, <1>3, TailSteps
  <1> HIDE DEF todo
  <1>5. Continues(Follow(todo))
    BY <1>3, <1>4, FollowContinues
  <1> QED BY <1>5, AdvancedContinues DEF Looked, todo

LEMMA FlagsContinue ==
  ASSUME Operates(op, exec)
  PROVE  /\ Continues(op)
         /\ Continues([op EXCEPT !.launched = TRUE])
         /\ \A b \in BOOLEAN : Continues([op EXCEPT !.stale = b])
         /\ \A n \in Nat : op.todo # <<>> => Continues([op EXCEPT !.waits = n, !.stale = FALSE])
  <1>1. op \in Operations
    BY DEF Operates
  <1>2. Continues(op)
    BY DEF Operates, Continues
  <1>3. Continues([op EXCEPT !.launched = TRUE])
    <2> DEFINE o == [op EXCEPT !.launched = TRUE]
    <2>1. o \in Operations /\ o.todo = op.todo /\ o.waits = op.waits
          /\ o.name = op.name /\ o.want = op.want
      BY <1>1 DEF Operations
    <2> QED BY <1>2, <2>1 DEF Continues
  <1>4. ASSUME NEW b \in BOOLEAN PROVE Continues([op EXCEPT !.stale = b])
    <2> DEFINE o == [op EXCEPT !.stale = b]
    <2>1. o \in Operations /\ o.todo = op.todo /\ o.waits = op.waits
          /\ o.name = op.name /\ o.want = op.want
      BY <1>1 DEF Operations
    <2> QED BY <1>2, <2>1 DEF Continues
  <1>5. ASSUME NEW n \in Nat, op.todo # <<>> PROVE Continues([op EXCEPT !.waits = n, !.stale = FALSE])
    <2> DEFINE o == [op EXCEPT !.waits = n, !.stale = FALSE]
    <2>1. o \in Operations /\ o.todo = op.todo /\ o.todo # <<>>
          /\ o.name = op.name /\ o.want = op.want
      BY <1>1, <1>5 DEF Operations
    <2> QED BY <1>2, <2>1 DEF Continues
  <1> QED BY <1>2, <1>3, <1>4, <1>5

-----------------------------------------------------------------------------
(* The steps of an operation keep the types of the execution and its own.    *)

Alike(x) ==
    /\ Sound(x) /\ x.adapter = exec.adapter /\ x.next = exec.next
    /\ x.handles = exec.handles

Progresses ==
    /\ Sound(exec') /\ exec'.adapter = exec.adapter
    /\ exec'.next = exec.next
    /\ \A s : Fits(s, exec, op.want) => Fits(s, exec', op.want)
    /\ Continues(op')

LEMMA AlikeProgresses ==
  ASSUME Alike(exec'), Continues(op')
  PROVE  Progresses
  BY DEF Alike, Progresses, Fits

LEMMA LikeIsAlike ==
  ASSUME NEW x, Alike(x), NEW y, Sound(y), Like(x, y)
  PROVE  Alike(y)
  BY DEF Alike, Like

LEMMA FailsProgresses ==
  ASSUME NEW x, Alike(x), NEW lost, Fails(x, lost), Operates(op, exec)
  PROVE  Progresses
  <1>1. Alike(Failed(x))
    BY EndsAreSound, LikeIsAlike DEF Alike
  <1>2. Alike(exec')
    BY <1>1 DEF Fails
  <1>3. Continues(op')
    BY RecoveringContinues DEF Fails
  <1> QED BY <1>2, <1>3, AlikeProgresses

LEMMA MatchProgresses ==
  ASSUME NEW x, Alike(x), NEW r \in Messages, Match(x, r), Operates(op, exec),
         op.todo # <<>>
  PROVE  Progresses
  <1>1. op \in Operations /\ op.todo \in Seq(Steps) /\ Current \in Steps
    <2>1. op \in Operations /\ op.todo \in Seq(Steps)
      BY DEF Operates, Operations
    <2> QED BY <2>1, TailSteps DEF Current
  <1>2. Sound(x)
    BY DEF Alike
  <1>3. Continues(Advanced) /\ Continues(Looked) /\ Continues([op EXCEPT !.launched = TRUE])
    BY AdvancedContinues, LookedContinues, FlagsContinue
  <1>4. CASE Fails(x, FALSE)
    BY <1>4, FailsProgresses
  <1>5. CASE exec' = Finished(x) /\ op' = Advanced
    <2>1. Alike(Finished(x))
      BY <1>2, EndsAreSound, LikeIsAlike
    <2> QED BY <1>3, <1>5, <2>1, AlikeProgresses
  <1>6. CASE exec' = x /\ op' \in {Advanced, [op EXCEPT !.launched = TRUE]}
    BY <1>3, <1>6, AlikeProgresses
  <1>7. CASE exec' = [x EXCEPT !.thread = 1] /\ op' = Advanced
    <2> DEFINE y == [x EXCEPT !.thread = 1]
    <2>1. y \in Executions /\ Like(x, y) /\ y.windows = x.windows /\ y.frames = x.frames
      BY <1>2 DEF Sound, Executions, Like
    <2>2. Sound(y)
      BY <1>2, <2>1 DEF Sound, Coherent, Like
    <2>3. Alike(y)
      BY <2>1, <2>2, LikeIsAlike
    <2> QED BY <1>3, <1>7, <2>3, AlikeProgresses
  <1>8. CASE /\ FitsStack(x)
             /\ exec' = [x EXCEPT !.windows = @ \cup {op.page}, !.frames = op.page + 1,
                                  !.whole = ~r.full]
             /\ op' = Advanced
    <2> DEFINE whole == ~r.full
               windows == x.windows \cup {op.page}
               frames == op.page + 1
               y == [x EXCEPT !.windows = windows, !.frames = frames, !.whole = whole]
    <2>1. op.page \in Nat /\ whole \in BOOLEAN /\ windows \in SUBSET Nat /\ frames \in Nat
      BY <1>1, <1>2 DEF Operations, Messages, Sound, Executions
    <2> HIDE DEF whole, windows, frames
    <2>2. /\ y \in Executions /\ Like(x, y)
          /\ y.windows = windows /\ y.frames = frames
      BY <1>2, <2>1 DEF Sound, Executions, Like
    <2>3. x.windows = 0 .. op.page - 1
      BY <1>8 DEF FitsStack
    <2>4. y.windows = 0 .. y.frames - 1
      BY <2>1, <2>2, <2>3 DEF windows, frames
    <2>5. Sound(y)
      BY <1>2, <2>2, <2>4 DEF Sound, Coherent, Like
    <2>6. Alike(y)
      BY <2>2, <2>5, LikeIsAlike
    <2> QED BY <1>3, <1>8, <2>6, AlikeProgresses DEF whole, windows, frames
  <1>9. CASE /\ Current.command \in {"scopes", "variables"}
             /\ exec' = [x EXCEPT !.read = @ \cup {Current.command}] /\ op' = Advanced
    <2> DEFINE y == [x EXCEPT !.read = @ \cup {Current.command}]
    <2>1. y \in Executions /\ Like(x, y) /\ y.windows = x.windows /\ y.frames = x.frames
      BY <1>2, <1>9 DEF Sound, Executions, Like
    <2>2. Sound(y)
      BY <1>2, <2>1 DEF Sound, Coherent, Like
    <2>3. Alike(y)
      BY <2>1, <2>2, LikeIsAlike
    <2> QED BY <1>3, <1>9, <2>3, AlikeProgresses
  <1>10. CASE exec' = x /\ op' = Follow(<<Step("unreadable")>>)
    <2> DEFINE K == {s \in Steps : Plain(s)}
    <2>1. Step("unreadable") \in K
      BY PlainSteps DEF Commands
    <2> HIDE DEF K
    <2>2. Continues(Follow(<<Step("unreadable")>>))
      <3>1. <<Step("unreadable")>> \in Seq(K)
        BY <2>1
      <3> QED BY <3>1, PlainContinues DEF K
    <2> QED BY <1>10, <2>2, AlikeProgresses
  <1>11. CASE /\ exec' = x
              /\ op' = Follow(<<Step("continue"), Step("stable"), Step("outcome")>>)
    <2> DEFINE K == {s \in Steps : Plain(s)}
    <2>1. Step("continue") \in K /\ Step("stable") \in K /\ Step("outcome") \in K
      BY PlainSteps DEF Commands
    <2> HIDE DEF K
    <2>2. Continues(Follow(<<Step("continue"), Step("stable"), Step("outcome")>>))
      <3>1. <<Step("continue"), Step("stable"), Step("outcome")>> \in Seq(K)
        BY <2>1
      <3> QED BY <3>1, PlainContinues DEF K
    <2> QED BY <1>11, <2>2, AlikeProgresses
  <1>12. CASE /\ Current.command \in Changes
              /\ exec' = Configured(x, Current) /\ op' = Looked
    <2>1. \A s : Fits(s, exec, op.want) => Fits(s, x, op.want)
      BY DEF Alike, Fits
    <2>2. Fits(Current, x, op.want)
      <3>1. 1 \in DOMAIN op.todo /\ Current = op.todo[1]
        BY <1>1, TailSteps DEF Current
      <3> QED BY <2>1, <3>1 DEF Operates
    <2>3. /\ Sound(exec')
          /\ \A t : Fits(t, x, op.want) => Fits(t, exec', op.want)
          /\ exec'.adapter = x.adapter /\ exec'.next = x.next
      BY <1>1, <1>2, <1>12, <2>2, ConfiguredIsSound
    <2> QED BY <1>3, <1>12, <2>1, <2>3 DEF Progresses, Alike
  <1>13. \/ exec' = Finished(x) /\ op' = Advanced
         \/ exec' = x /\ op' = [op EXCEPT !.launched = TRUE]
         \/ exec' = [x EXCEPT !.thread = 1] /\ op' = Advanced
         \/ /\ FitsStack(x)
            /\ exec' = [x EXCEPT !.windows = @ \cup {op.page}, !.frames = op.page + 1,
                                 !.whole = ~r.full]
            /\ op' = Advanced
         \/ /\ Current.command \in {"scopes", "variables"}
            /\ exec' = [x EXCEPT !.read = @ \cup {Current.command}] /\ op' = Advanced
         \/ exec' = x /\ op' = Follow(<<Step("unreadable")>>)
         \/ /\ exec' = x
            /\ op' \in {Advanced}
                       \cup IF r.ok /\ StillThere
                            THEN {Follow(<<Step("continue"), Step("stable"),
                                           Step("outcome")>>)}
                            ELSE {}
         \/ /\ Current.command \in Changes
            /\ exec' = Configured(x, Current) /\ op' = Looked
         \/ exec' = x /\ op' = Advanced
         \/ Fails(x, FALSE)
    BY Zenon DEF Match
  <1>14. ASSUME op' \in {Advanced}
                        \cup IF r.ok /\ StillThere
                             THEN {Follow(<<Step("continue"), Step("stable"),
                                            Step("outcome")>>)}
                             ELSE {}
         PROVE  op' = Advanced \/ op' = Follow(<<Step("continue"), Step("stable"), Step("outcome")>>)
    BY <1>14
  <1> QED BY <1>4, <1>5, <1>6, <1>7, <1>8, <1>9, <1>10, <1>11, <1>12, <1>13, <1>14

LEMMA ObserveProgresses ==
  ASSUME Alike(exec), NEW e \in Messages, Observe(e), Operates(op, exec), op.todo # <<>>
  PROVE  Progresses
  <1>1. Sound(exec)
    BY DEF Alike
  <1>2. Sound(Accepted(exec, e)) /\ Alike(Accepted(exec, e))
    BY <1>1, AcceptedIsSound, LikeIsAlike
  <1>3. Alike(Finished(Accepted(exec, e)))
    BY <1>2, EndsAreSound, LikeIsAlike
  <1>4. CASE \E lost : Fails(exec, lost)
    BY <1>4, FailsProgresses
  <1>5. CASE exec' = Finished(Accepted(exec, e)) /\ op' = Advanced
    BY <1>3, <1>5, AdvancedContinues, AlikeProgresses
  <1>6. CASE /\ exec' = Accepted(exec, e)
             /\ op' = [op EXCEPT !.stale = @ \/ e.name = "stopped"]
    <2> DEFINE b == op.stale \/ e.name = "stopped"
    <2>1. b \in BOOLEAN /\ op' = [op EXCEPT !.stale = b]
      BY <1>6
    <2> HIDE DEF b
    <2>2. Continues(op')
      BY <2>1, FlagsContinue
    <2> QED BY <1>2, <1>6, <2>2, AlikeProgresses
  <1>7. \/ \E lost : Fails(exec, lost)
        \/ exec' = Finished(Accepted(exec, e)) /\ op' = Advanced
        \/ /\ exec' = Accepted(exec, e)
           /\ op' = [op EXCEPT !.stale = @ \/ e.name = "stopped"]
    BY DEF Observe
  <1> QED BY <1>4, <1>5, <1>6, <1>7

LEMMA ExecIsAlike ==
  ASSUME Typed
  PROVE  Alike(exec) /\ Operates(op, exec) /\ (Waiting => op.todo # <<>>)
  <1>1. Alike(exec) /\ Operates(op, exec)
    BY DEF Typed, ExecutionTyped, Alike, Sound
  <1>2. Waiting => op.todo # <<>>
    BY <1>1 DEF Waiting, At, Operates
  <1> QED BY <1>1, <1>2

LEMMA OtherInbox ==
  ASSUME Alike(exec), NEW inbox \in SUBSET Messages,
         \A m \in inbox : IsResponse(m) /\ m.to < exec.next
  PROVE  Alike([exec EXCEPT !.inbox = inbox])
  <1> DEFINE x == [exec EXCEPT !.inbox = inbox]
  <1>1. /\ x \in Executions /\ x.inbox = inbox /\ x.adapter = exec.adapter
        /\ x.next = exec.next /\ x.handles = exec.handles /\ x.active = exec.active
        /\ x.windows = exec.windows /\ x.frames = exec.frames
    BY DEF Alike, Sound, Executions
  <1> QED BY <1>1 DEF Alike, Sound, Coherent

LEMMA TakeBufferedProgresses ==
  ASSUME Typed, TakeBuffered
  PROVE  Progresses
  <1> DEFINE r == Taken(exec.inbox, Awaits)
  <1>1. Alike(exec) /\ Operates(op, exec) /\ op.todo # <<>>
    BY ExecIsAlike DEF TakeBuffered
  <1>2. r \in exec.inbox
    BY DEF TakeBuffered, Buffered, Taken
  <1>3. /\ exec.inbox \in SUBSET Messages
        /\ \A m \in exec.inbox : IsResponse(m) /\ m.to < exec.next
    BY <1>1 DEF Alike, Sound, Executions, Coherent
  <1>4. Match([exec EXCEPT !.inbox = Without(@, r)], r)
    BY DEF TakeBuffered
  <1> HIDE DEF r
  <1>5. /\ Without(exec.inbox, r) \in SUBSET Messages
        /\ \A m \in Without(exec.inbox, r) : IsResponse(m) /\ m.to < exec.next
    BY <1>3 DEF Without
  <1>6. Alike([exec EXCEPT !.inbox = Without(@, r)])
    BY <1>1, <1>5, OtherInbox
  <1> QED BY <1>1, <1>2, <1>3, <1>4, <1>6, MatchProgresses

LEMMA AdapterTypes ==
  ASSUME AdaptersTyped, NEW a \in DOMAIN adapters
  PROVE  /\ adapters[a] \in Processes /\ targets[a] \in Targets
         /\ adapters[a].messages \in Seq(Messages)
         /\ adapters[a].requests \in Seq(RequestRecords)
         /\ targets[a].owed \in Seq(Messages)
         /\ targets[a].tables \in SUBSET Points
  <1>1. adapters[a] \in Processes /\ targets[a] \in Targets
    BY DEF AdaptersTyped
  <1> QED BY <1>1 DEF Processes, Targets

LEMMA HeadMessage ==
  ASSUME Typed, NEW a \in DOMAIN adapters, adapters[a].messages # <<>>
  PROVE  Head(adapters[a].messages) \in Messages
         /\ Head(adapters[a].messages) \in Heard(a)
  <1>1. adapters[a].messages \in Seq(Messages)
    BY AdapterTypes DEF Typed
  <1>2. /\ Head(adapters[a].messages) \in Messages
        /\ 1 \in DOMAIN adapters[a].messages
        /\ Head(adapters[a].messages) = adapters[a].messages[1]
    BY <1>1, TailSteps
  <1> QED BY <1>2 DEF Heard

LEMMA ReceiveProgresses ==
  ASSUME Typed, Has, Receive
  PROVE  Progresses
  <1> DEFINE m == Head(adapters[exec.adapter].messages)
  <1>1. Alike(exec) /\ Operates(op, exec) /\ op.todo # <<>>
    BY ExecIsAlike DEF Receive
  <1>2. exec.adapter \in DOMAIN adapters /\ adapters[exec.adapter].open
    BY DEF Typed, ExecutionTyped
  <1>3. m \in Messages /\ m \in Heard(exec.adapter)
    BY <1>2, HeadMessage DEF Receive
  <1>4. m.to < exec.next
    BY <1>2, <1>3 DEF Typed, AdaptersTyped, Numbered, NextNumber
  <1>5. \/ IsEvent(m) /\ Observe(m)
        \/ Match(exec, m)
        \/ Fails(exec, TRUE)
        \/ /\ ~IsEvent(m) /\ exec' = [exec EXCEPT !.inbox = @ \cup {m}]
           /\ UNCHANGED op
    BY DEF Receive
  <1> HIDE DEF m
  <1>6. CASE Observe(m)
    BY <1>1, <1>3, <1>6, ObserveProgresses
  <1>7. CASE Match(exec, m)
    BY <1>1, <1>3, <1>7, MatchProgresses
  <1>8. CASE Fails(exec, TRUE)
    BY <1>1, <1>8, FailsProgresses
  <1>9. CASE ~IsEvent(m) /\ exec' = [exec EXCEPT !.inbox = @ \cup {m}] /\ UNCHANGED op
    <2>1. IsResponse(m)
      BY <1>3, <1>9 DEF Messages, IsEvent, IsResponse
    <2>2. /\ exec.inbox \cup {m} \in SUBSET Messages
          /\ \A r \in exec.inbox \cup {m} : IsResponse(r) /\ r.to < exec.next
      BY <1>1, <1>3, <1>4, <2>1 DEF Alike, Sound, Executions, Coherent
    <2>3. Alike([exec EXCEPT !.inbox = @ \cup {m}])
      BY <1>1, <2>2, OtherInbox
    <2> QED BY <1>1, <1>9, <2>3, FlagsContinue, AlikeProgresses
  <1> QED BY <1>5, <1>6, <1>7, <1>8, <1>9

LEMMA ReadEndProgresses ==
  ASSUME Typed, ReadEnd
  PROVE  Progresses
  <1>1. Alike(exec) /\ Operates(op, exec) /\ op.todo # <<>>
    BY ExecIsAlike DEF ReadEnd
  <1>2. Alike(Finished(exec))
    BY <1>1, EndsAreSound, LikeIsAlike DEF Alike
  <1>3. \/ exec' = Finished(exec) /\ op' = Advanced
        \/ Fails(exec, TRUE)
    BY DEF ReadEnd
  <1> QED BY <1>1, <1>2, <1>3, AdvancedContinues, AlikeProgresses, FailsProgresses

LEMMA SkipsProgress ==
  ASSUME Typed, SkipDisconnect \/ TimesOut
  PROVE  Progresses
  <1>1. Alike(exec) /\ Operates(op, exec)
    BY ExecIsAlike
  <1>2. op.todo # <<>>
    BY DEF SkipDisconnect, NothingToEnd, TimesOut, At
  <1>3. Alike(Finished(exec)) /\ Alike(Failed(exec))
    BY <1>1, EndsAreSound, LikeIsAlike DEF Alike
  <1>4. exec' \in {Finished(exec), Failed(exec)} /\ op' = Advanced
    BY DEF SkipDisconnect, TimesOut
  <1> QED BY <1>1, <1>2, <1>3, <1>4, AdvancedContinues, AlikeProgresses

LEMMA WaitEndsProgresses ==
  ASSUME Typed, WaitEnds
  PROVE  Progresses
  <1> DEFINE K == {s \in Steps : Plain(s)}
  <1>1. Alike(exec) /\ Operates(op, exec)
    BY ExecIsAlike
  <1>2. op.todo # <<>> /\ exec' = exec
    BY DEF WaitEnds, At
  <1>3. op' = Advanced \/ op' = Follow(<<Step("outcome")>>)
    BY DEF WaitEnds
  <1>4. Step("outcome") \in K
    BY PlainSteps DEF Commands
  <1> HIDE DEF K
  <1>5. <<Step("outcome")>> \in Seq(K)
    BY <1>4
  <1> QED BY <1>1, <1>2, <1>3, <1>5, AdvancedContinues, PlainContinues, AlikeProgresses DEF K

LEMMA OutcomeProgresses ==
  ASSUME Typed, Outcome
  PROVE  Progresses
  <1> DEFINE K == {s \in Steps : Plain(s)}
             Threads == IF exec.thread = NoThread THEN <<Step("threads")>> ELSE <<>>
             Testing(tested) == IF tested THEN <<Step("condition")>> ELSE <<>>
  <1>1. Alike(exec) /\ Operates(op, exec)
    BY ExecIsAlike
  <1>2. /\ Step("complete") \in K /\ Step("threads") \in K /\ Step("window") \in K
        /\ Step("condition") \in K
    BY PlainSteps DEF Commands
  <1>3. \/ UNCHANGED exec /\ op' = Follow(<<Step("complete")>>)
        \/ /\ UNCHANGED exec
           /\ \E tested : op' = Follow(Threads \o <<Step("window")>> \o Testing(tested))
        \/ Fails(exec, FALSE)
    BY Zenon DEF Outcome
  <1> HIDE DEF K
  <1>4. <<Step("complete")>> \in Seq(K)
    BY <1>2
  <1>5. ASSUME NEW tested PROVE Threads \o <<Step("window")>> \o Testing(tested) \in Seq(K)
    <2>1. Threads \in Seq(K) /\ <<Step("window")>> \in Seq(K) /\ Testing(tested) \in Seq(K)
      BY <1>2
    <2> HIDE DEF Threads, Testing
    <2> QED BY <2>1
  <1>6. CASE UNCHANGED exec /\ op' = Follow(<<Step("complete")>>)
    BY <1>1, <1>4, <1>6, PlainContinues, AlikeProgresses DEF K
  <1>7. ASSUME UNCHANGED exec, NEW tested,
               op' = Follow(Threads \o <<Step("window")>> \o Testing(tested))
        PROVE  Progresses
    <2> HIDE DEF Threads, Testing
    <2> QED BY <1>1, <1>5, <1>7, PlainContinues, AlikeProgresses DEF K
  <1> HIDE DEF Threads, Testing
  <1> QED BY <1>1, <1>3, <1>6, <1>7, FailsProgresses

LEMMA LoadWindowProgresses ==
  ASSUME Typed, LoadWindow
  PROVE  Progresses
  <1>1. Alike(exec) /\ Operates(op, exec) /\ op.todo # <<>>
    BY ExecIsAlike DEF LoadWindow, At
  <1>2. \/ UNCHANGED exec /\ op' = Advanced
        \/ UNCHANGED exec /\ op' = Follow(<<Step("stackTrace")>> \o Tail(op.todo))
        \/ Fails(exec, FALSE)
    BY DEF LoadWindow
  <1>3. Continues(Follow(<<Step("stackTrace")>> \o Tail(op.todo)))
    <2> DEFINE todo == <<Step("stackTrace")>> \o Tail(op.todo)
    <2>1. op.todo \in Seq(Steps)
      BY <1>1 DEF Operates, Operations
    <2>2. Step("stackTrace") \in Steps /\ Plain(Step("stackTrace"))
      BY PlainSteps DEF Commands
    <2>3. /\ todo \in Seq(Steps) /\ DOMAIN todo = DOMAIN op.todo
          /\ todo[1] = Step("stackTrace")
          /\ \A i \in DOMAIN op.todo : i # 1 => todo[i] = op.todo[i]
      BY <1>1, <2>1, <2>2, TailSteps
    <2> HIDE DEF todo
    <2>4. Continues(Follow(todo))
      BY <1>1, <2>2, <2>3, FollowContinues
    <2> QED BY <2>4 DEF todo
  <1> QED BY <1>1, <1>2, <1>3, AdvancedContinues, FailsProgresses, AlikeProgresses

-----------------------------------------------------------------------------
(* The adapters while the client acts.                                       *)

LEMMA ProcessesAreTyped ==
  ASSUME NEW p \in Processes
  PROVE  /\ \A r \in RequestRecords : Written(p, r) \in Processes
         /\ p.messages # <<>> => Read(p) \in Processes
         /\ Closed(p) \in Processes /\ ~Closed(p).open
         /\ Process \in Processes
  <1>1. Process \in Processes
    BY DEF Process, Processes, Running
  <1>2. Closed(p) \in Processes /\ ~Closed(p).open
    <2>1. \A q \in Processes, exit \in Int, open \in BOOLEAN :
             /\ [q EXCEPT !.exit = exit, !.open = open] \in Processes
             /\ [q EXCEPT !.exit = exit, !.open = open].open = open
      BY DEF Processes
    <2>2. Cancelled \in Int
      BY DEF Cancelled
    <2>3. Closed(p) \in Processes /\ Closed(p).open = FALSE
      BY <1>1, <2>1, <2>2 DEF Closed
    <2> QED BY <2>3
  <1>3. ASSUME NEW r \in RequestRecords PROVE Written(p, r) \in Processes
    <2>1. Append(p.requests, r) \in Seq(RequestRecords)
      BY DEF Processes
    <2> HIDE DEF RequestRecords, Messages
    <2> QED BY <2>1 DEF Processes, Written
  <1>4. ASSUME p.messages # <<>> PROVE Read(p) \in Processes
    <2>1. Tail(p.messages) \in Seq(Messages)
      BY <1>4, TailSteps DEF Processes
    <2> QED BY <2>1 DEF Processes, Read
  <1> QED BY <1>1, <1>2, <1>3, <1>4

LEMMA EndClosedTyped ==
  ASSUME AdaptersTyped, EndClosed, adapters' \in Seq(Processes)
  PROVE  /\ targets' \in Seq(Targets) /\ DOMAIN targets' = DOMAIN adapters'
         /\ \A a \in DOMAIN adapters' : a \in DOMAIN adapters /\ adapters'[a].open =>
               targets'[a] = targets[a]
         /\ \A a \in DOMAIN adapters' : a \notin DOMAIN adapters => targets'[a] = Target
  <1>1. Target \in Targets
    BY DEF Target, Targets
  <1>2. \A a \in DOMAIN adapters : targets[a] \in Targets
    BY AdapterTypes
  <1>3. /\ DOMAIN targets' = DOMAIN adapters'
        /\ \A a \in DOMAIN adapters' :
              targets'[a] = IF a \in DOMAIN adapters /\ adapters'[a].open THEN targets[a]
                            ELSE Target
        /\ targets' = [a \in DOMAIN adapters' |-> targets'[a]]
    BY DEF EndClosed
  <1>4. DOMAIN adapters' = 1 .. Len(adapters') /\ Len(adapters') \in Nat
    OBVIOUS
  <1>5. \A a \in DOMAIN adapters' : targets'[a] \in Targets
    BY <1>1, <1>2, <1>3
  <1>6. targets' \in Seq(Targets)
    BY <1>3, <1>4, <1>5
  <1> QED BY <1>3, <1>6

\* Nothing is heard that was not, and requests have their numbers.
Quiet(a) ==
    /\ adapters[a].open
    /\ NextNumber(a)' >= NextNumber(a)
    /\ \A i \in DOMAIN adapters'[a].messages : adapters'[a].messages[i] \in Heard(a)
    /\ \A i \in DOMAIN adapters'[a].requests : adapters'[a].requests[i].seq < NextNumber(a)'

LEMMA QuietAdapters ==
  ASSUME AdaptersTyped, exec \in Executions, exec' \in Executions, EndClosed,
         adapters' \in Seq(Processes), DOMAIN adapters' = DOMAIN adapters,
         \A a \in DOMAIN adapters : adapters'[a].open => Quiet(a)
  PROVE  AdaptersTyped'
  <1>1. /\ targets' \in Seq(Targets) /\ DOMAIN targets' = DOMAIN adapters'
        /\ \A a \in DOMAIN adapters' : a \in DOMAIN adapters /\ adapters'[a].open =>
               targets'[a] = targets[a]
    BY EndClosedTyped
  <1>2. ASSUME NEW a \in DOMAIN adapters', adapters'[a].open
        PROVE  Numbered(a, NextNumber(a))'
    <2>1. Quiet(a) /\ a \in DOMAIN adapters /\ targets'[a] = targets[a]
      BY <1>1, <1>2
    <2>2. NextNumber(a) \in Int /\ NextNumber(a)' \in Int
      BY DEF NextNumber, Executions
    <2>3. \A m \in Heard(a) : m.to < NextNumber(a)
      BY <2>1 DEF Quiet, AdaptersTyped, Numbered
    <2>4. \A m \in Heard(a)' : m \in Heard(a)
      BY <2>1 DEF Quiet, Heard
    <2>5. ASSUME NEW m \in Heard(a) PROVE m.to \in Int
      <3>1. m \in Messages
        BY <2>1, AdapterTypes DEF Heard
      <3> QED BY <3>1 DEF Messages
    <2>6. \A m \in Heard(a)' : m.to < NextNumber(a)'
      BY <2>1, <2>2, <2>3, <2>4, <2>5 DEF Quiet
    <2> QED BY <2>1, <2>6 DEF Quiet, Numbered
  <1> QED BY <1>1, <1>2 DEF AdaptersTyped

\* An adapter that is left as it is.
LEMMA UnchangedIsQuiet ==
  ASSUME AdaptersTyped, exec \in Executions, exec' \in Executions, NEW a \in DOMAIN adapters,
         adapters'[a] = adapters[a], adapters[a].open, NextNumber(a)' >= NextNumber(a)
  PROVE  Quiet(a)
  <1>1. NextNumber(a) \in Int /\ NextNumber(a)' \in Int
    BY DEF NextNumber, Executions
  <1>2. ASSUME NEW i \in DOMAIN adapters[a].requests
        PROVE  adapters[a].requests[i].seq < NextNumber(a)'
    <2>1. adapters[a].requests[i] \in RequestRecords
      BY AdapterTypes
    <2>2. adapters[a].requests[i].seq \in Int
      BY <2>1 DEF RequestRecords
    <2>3. adapters[a].requests[i].seq < NextNumber(a)
      BY DEF AdaptersTyped, Numbered
    <2> QED BY <1>1, <2>2, <2>3
  <1>3. \A i \in DOMAIN adapters[a].messages : adapters[a].messages[i] \in Heard(a)
    BY DEF Heard
  <1> QED BY <1>2, <1>3 DEF Quiet

\* One adapter becomes p.
LEMMA OneAdapter ==
  ASSUME AdaptersTyped, exec \in Executions, exec' \in Executions, EndClosed,
         NEW k \in DOMAIN adapters, NEW p \in Processes,
         adapters' = [adapters EXCEPT ![k] = p], p.open => Quiet(k),
         \A a \in DOMAIN adapters : a # k => NextNumber(a)' >= NextNumber(a)
  PROVE  AdaptersTyped' /\ Len(adapters') = Len(adapters)
         /\ DOMAIN adapters' = DOMAIN adapters
         /\ adapters'[k] = p
  <1>1. adapters \in Seq(Processes) /\ DOMAIN adapters = 1 .. Len(adapters)
    BY DEF AdaptersTyped
  <1>2. adapters' \in Seq(Processes) /\ Len(adapters') = Len(adapters)
        /\ \A a \in 1 .. Len(adapters) : adapters'[a] = IF a = k THEN p ELSE adapters[a]
    BY <1>1, ExceptSeq
  <1>3. DOMAIN adapters' = DOMAIN adapters
    BY <1>1, <1>2
  <1>4. ASSUME NEW a \in DOMAIN adapters, adapters'[a].open PROVE Quiet(a)
    <2>1. CASE a = k
      BY <1>1, <1>2, <1>4, <2>1
    <2>2. CASE a # k
      BY <1>1, <1>2, <1>4, <2>2, UnchangedIsQuiet
    <2> QED BY <2>1, <2>2
  <1> QED BY <1>1, <1>2, <1>3, <1>4, QuietAdapters

LEMMA NoAdapter ==
  ASSUME AdaptersTyped, exec \in Executions, exec' \in Executions, EndClosed,
         UNCHANGED adapters,
         \A a \in DOMAIN adapters : NextNumber(a)' >= NextNumber(a)
  PROVE  AdaptersTyped'
  <1>1. adapters' \in Seq(Processes) /\ DOMAIN adapters' = DOMAIN adapters
    BY DEF AdaptersTyped
  <1>2. \A a \in DOMAIN adapters : adapters'[a].open => Quiet(a)
    BY UnchangedIsQuiet
  <1> QED BY <1>1, <1>2, QuietAdapters

\* An action that goes on with an operation, and reads a message at most.
LEMMA ProgressTyped ==
  ASSUME IInv, Typed, Has, Progresses, EndClosed,
         \/ UNCHANGED adapters
         \/ /\ adapters[exec.adapter].messages # <<>>
            /\ adapters' = [adapters EXCEPT ![exec.adapter] = Read(@)],
         UNCHANGED <<prep, applied>>, view' \in Views, answer' \in AnswersGiven
  PROVE  Typed'
  <1> DEFINE k == exec.adapter
  <1>1. /\ AdaptersTyped /\ exec \in Executions /\ exec' \in Executions /\ Coherent(exec')
        /\ k \in DOMAIN adapters /\ adapters[k].open
        /\ exec'.adapter = k /\ exec'.next = exec.next
    BY DEF Typed, ExecutionTyped, Progresses, Sound
  <1>2. \A a \in DOMAIN adapters : NextNumber(a)' = NextNumber(a) /\ NextNumber(a) \in Int
    BY <1>1 DEF NextNumber, Executions
  <1>3. /\ AdaptersTyped' /\ k \in DOMAIN adapters' /\ adapters'[k].open
        /\ Len(adapters') = Len(adapters)
    <2>1. CASE UNCHANGED adapters
      BY <1>1, <1>2, <2>1, NoAdapter
    <2>2. CASE /\ adapters[k].messages # <<>>
               /\ adapters' = [adapters EXCEPT ![k] = Read(@)]
      <3> DEFINE p == Read(adapters[k])
      <3>1. adapters[k] \in Processes /\ p \in Processes
        BY <1>1, <2>2, AdapterTypes, ProcessesAreTyped
      <3>2. /\ p.messages = Tail(adapters[k].messages) /\ p.requests = adapters[k].requests
            /\ p.open = adapters[k].open
        BY <3>1 DEF Read, Processes
      <3>3. adapters'[k] = p /\ adapters' = [adapters EXCEPT ![k] = p]
        BY <1>1, <2>2
      <3>4. \A i \in DOMAIN p.messages : p.messages[i] \in Heard(k)
        <4>1. adapters[k].messages \in Seq(Messages)
          BY <1>1, AdapterTypes
        <4>2. \A i \in DOMAIN p.messages : /\ i + 1 \in DOMAIN adapters[k].messages
                                           /\ p.messages[i] = adapters[k].messages[i + 1]
          BY <2>2, <3>2, <4>1, TailSteps
        <4> QED BY <4>2 DEF Heard
      <3>5. \A i \in DOMAIN p.requests : p.requests[i].seq < NextNumber(k)'
        BY <1>1, <1>2, <3>2 DEF AdaptersTyped, Numbered
      <3> HIDE DEF p
      <3>6. Quiet(k)
        BY <1>1, <1>2, <3>3, <3>4, <3>5 DEF Quiet
      <3>7. \A a \in DOMAIN adapters : a # k => NextNumber(a)' >= NextNumber(a)
        BY <1>2
      <3> QED BY ZenonT(60), <1>1, <3>1, <3>2, <3>3, <3>6, <3>7, OneAdapter
    <2> QED BY <2>1, <2>2
  <1>4. ExecutionTyped'
    BY <1>1, <1>3 DEF ExecutionTyped, Typed, Has
  <1>5. Operates(op, exec)'
    <2>1. Continues(op') /\ \A s : Fits(s, exec, op.want) => Fits(s, exec', op.want)
      BY DEF Progresses
    <2>2. ASSUME NEW i \in DOMAIN op'.todo PROVE Fits(op'.todo[i], exec', op'.want)
      <3>1. op'.want = op.want
        BY <2>1 DEF Continues
      <3>2. CASE Plain(op'.todo[i])
        BY <3>2 DEF Plain, Fits
      <3>3. CASE \E j \in DOMAIN op.todo : op'.todo[i] = op.todo[j]
        BY <2>1, <3>1, <3>3 DEF Typed, Operates
      <3> QED BY <2>1, <2>2, <3>2, <3>3 DEF Continues
    <2> QED BY <2>1, <2>2 DEF Operates, Continues
  <1> QED BY <1>3, <1>4, <1>5 DEF Typed

LEMMA GoesOn ==
  ASSUME Operates(op, exec), Continues(op'),
         \A s : Fits(s, exec, op.want) => Fits(s, exec', op.want)
  PROVE  Operates(op, exec)'
  <1>1. ASSUME NEW i \in DOMAIN op'.todo PROVE Fits(op'.todo[i], exec', op'.want)
    <2>1. op'.want = op.want
      BY DEF Continues
    <2>2. CASE Plain(op'.todo[i])
      BY <2>2 DEF Plain, Fits
    <2>3. CASE \E j \in DOMAIN op.todo : op'.todo[i] = op.todo[j]
      BY <2>1, <2>3 DEF Operates
    <2> QED BY <2>2, <2>3 DEF Continues
  <1> QED BY <1>1 DEF Operates, Continues

LEMMA SendTyped ==
  ASSUME IInv, Typed, Send, EndClosed
  PROVE  Typed'
  <1> DEFINE k == exec.adapter
             r == Request(exec.next, Current.command, Current.on, Current.points, exec.thread)
             p == Written(adapters[k], r)
             x == Sending(Current.command)
  <1>1. /\ AdaptersTyped /\ exec \in Executions /\ Sound(exec) /\ Alike(exec)
        /\ Operates(op, exec) /\ op.todo # <<>>
    BY ExecIsAlike DEF Typed, ExecutionTyped, Send, Alike, Sound
  <1>2. Has
    BY NeedsExecution DEF IInv, Send, Awaited, Resumptions
  <1>3. k \in DOMAIN adapters /\ adapters[k].open
    BY <1>2 DEF Typed, ExecutionTyped
  <1>4. UNCHANGED <<prep, applied, view, answer>>
    BY DEF Send
  <1>5. Sound(x) /\ Like(exec, x) /\ Alike(x)
    BY <1>1, SendingIsSound, LikeIsAlike
  <1>6. Current \in Steps /\ Current \in StepRecords
    <2>1. op.todo \in Seq(Steps)
      BY <1>1 DEF Operates, Operations
    <2> QED BY <1>1, <2>1, TailSteps DEF Current, Steps
  <1>7. r \in RequestRecords /\ r.seq = exec.next
    BY <1>1, <1>6 DEF Request, RequestRecords, StepRecords, Executions
  <1>8. CASE MaySend(Current.command) /\ Writable(adapters[k])
    <2>1. /\ adapters' = [adapters EXCEPT ![k] = p]
          /\ exec' = [x EXCEPT !.next = @ + 1]
          /\ op' = IF At("launch") THEN [Advanced EXCEPT !.launch = exec.next]
                   ELSE [op EXCEPT !.waits = exec.next, !.stale = FALSE]
      BY <1>8 DEF Send
    <2>2. exec.next \in Nat /\ x.next = exec.next
      BY <1>1, <1>5 DEF Executions, Like
    <2> HIDE DEF x, r
    <2>3. /\ exec' \in Executions /\ exec'.next = exec.next + 1 /\ exec'.adapter = k
          /\ exec'.handles = exec.handles /\ exec'.inbox = x.inbox
          /\ exec'.windows = x.windows /\ exec'.frames = x.frames
          /\ exec'.active = x.active
      <3> DEFINE n == x.next + 1
      <3>1. n \in Nat \ {0, 1} /\ n = exec.next + 1
        BY <1>1, <2>2 DEF Executions
      <3>2. exec' = [x EXCEPT !.next = n]
        BY <2>1
      <3> HIDE DEF n
      <3> QED BY <1>5, <3>1, <3>2 DEF Sound, Executions, Alike, Like
    <2>4. Coherent(exec')
      <3>1. \A m \in x.inbox : m.to \in Int /\ m.to < exec.next /\ IsResponse(m)
        BY <1>5, <2>2 DEF Sound, Coherent, Executions, Messages
      <3> QED BY <1>5, <2>2, <2>3, <3>1 DEF Sound, Coherent, Alike, Like
    <2>5. adapters[k] \in Processes /\ p \in Processes
      BY <1>1, <1>3, <1>7, AdapterTypes, ProcessesAreTyped
    <2>6. /\ p.messages = adapters[k].messages /\ p.open = adapters[k].open
          /\ p.requests = Append(adapters[k].requests, r)
      BY <2>5 DEF Written, Processes
    <2>7. adapters'[k] = p
      BY <1>3, <2>1
    <2> HIDE DEF p
    <2>8. NextNumber(k)' = exec.next + 1 /\ NextNumber(k) = exec.next
      BY <2>3 DEF NextNumber
    <2>9. \A a \in DOMAIN adapters : a # k => NextNumber(a)' >= NextNumber(a)
      BY <2>3 DEF NextNumber
    <2>10. \A i \in DOMAIN p.requests : p.requests[i].seq < NextNumber(k)'
      <3>1. adapters[k].requests \in Seq(RequestRecords)
        BY <1>1, <1>3, AdapterTypes
      <3>2. \A i \in DOMAIN adapters[k].requests :
               /\ adapters[k].requests[i] \in RequestRecords
               /\ adapters[k].requests[i].seq < exec.next
        BY <1>1, <1>3, <2>8, <3>1 DEF AdaptersTyped, Numbered
      <3>3. \A q \in RequestRecords : q.seq \in Int
        BY DEF RequestRecords
      <3> HIDE DEF RequestRecords
      <3>4. \A i \in DOMAIN p.requests : \/ i \in DOMAIN adapters[k].requests
                                            /\ p.requests[i] = adapters[k].requests[i]
                                         \/ p.requests[i] = r
        BY <2>6, <3>1, <1>7
      <3> QED BY <1>7, <2>2, <2>8, <3>2, <3>3, <3>4
    <2>11. Quiet(k)
      <3>1. NextNumber(k)' >= NextNumber(k)
        BY <2>2, <2>8
      <3>2. \A i \in DOMAIN p.messages : p.messages[i] \in Heard(k)
        BY <2>6 DEF Heard
      <3> HIDE DEF k
      <3> QED BY <1>3, <2>7, <2>10, <3>1, <3>2 DEF Quiet
    <2>12. /\ AdaptersTyped' /\ Len(adapters') = Len(adapters)
           /\ DOMAIN adapters' = DOMAIN adapters
      BY <1>1, <1>3, <2>1, <2>3, <2>5, <2>9, <2>11, OneAdapter
    <2>13. ExecutionTyped'
      BY <1>3, <1>4, <2>3, <2>4, <2>6, <2>7, <2>12 DEF Typed, ExecutionTyped
    <2>14. Continues(op')
      BY <1>1, <2>1, <2>2, AdvancedContinues, FlagsContinue
    <2>15. Operates(op, exec)'
      BY <1>1, <2>3, <2>14, GoesOn DEF Fits
    <2> QED BY <1>4, <2>12, <2>13, <2>15 DEF Typed
  <1>9. CASE ~(MaySend(Current.command) /\ Writable(adapters[k]))
    <2>1. UNCHANGED adapters /\ (Fails(x, FALSE) \/ Fails(exec, FALSE))
      BY <1>9 DEF Send
    <2>2. Progresses
      BY <1>1, <1>5, <2>1, FailsProgresses
    <2> QED BY <1>2, <1>4, <2>1, <2>2, ProgressTyped DEF Typed
  <1> QED BY <1>8, <1>9

LEMMA StepTyped ==
  ASSUME IInv, Typed, EndClosed,
         SkipDisconnect \/ TimesOut \/ TakeBuffered \/ Receive \/ ReadEnd \/ WaitEnds
         \/ Outcome \/ LoadWindow
  PROVE  Typed'
  <1>1. Has
    BY NeedsExecution
    DEF IInv, SkipDisconnect, NothingToEnd, TimesOut, TakeBuffered, Receive, ReadEnd,
        WaitEnds, Outcome, LoadWindow
  <1>2. Progresses
    BY <1>1, SkipsProgress, TakeBufferedProgresses, ReceiveProgresses, ReadEndProgresses,
       WaitEndsProgresses, OutcomeProgresses, LoadWindowProgresses
  <1>3. UNCHANGED <<prep, applied, view, answer>>
    BY DEF SkipDisconnect, TimesOut, TakeBuffered, Receive, ReadEnd, WaitEnds, Outcome,
           LoadWindow
  <1>4. \/ UNCHANGED adapters
        \/ /\ adapters[exec.adapter].messages # <<>>
           /\ adapters' = [adapters EXCEPT ![exec.adapter] = Read(@)]
    <2>1. CASE Receive
      BY <2>1 DEF Receive
    <2> QED BY <2>1 DEF SkipDisconnect, TimesOut, TakeBuffered, ReadEnd, WaitEnds, Outcome,
                        LoadWindow
  <1> QED BY <1>1, <1>2, <1>3, <1>4, ProgressTyped DEF Typed

OperationNames == {"idle", "launch", "resume", "sync", "find", "locals", "stack", "quit"}

LEMMA DoingTypes ==
  ASSUME NEW name \in OperationNames, NEW todo \in Seq(Steps)
  PROVE  /\ Doing(name, todo) \in Operations
         /\ Doing(name, todo).todo = todo /\ Doing(name, todo).waits = NoRequest
         /\ Doing(name, todo).want.on \subseteq Points
         /\ \A b \in BOOLEAN : /\ [Doing(name, todo) EXCEPT !.filter = b] \in Operations
                               /\ [Doing(name, todo) EXCEPT !.filter = b].todo = todo
                               /\ [Doing(name, todo) EXCEPT !.filter = b].waits = NoRequest
         /\ \A n \in Nat : /\ [Doing(name, todo) EXCEPT !.page = n] \in Operations
                           /\ [Doing(name, todo) EXCEPT !.page = n].todo = todo
                           /\ [Doing(name, todo) EXCEPT !.page = n].waits = NoRequest
         /\ \A w \in Configurations :
               /\ [Doing(name, todo) EXCEPT !.want = w] \in Operations
               /\ [Doing(name, todo) EXCEPT !.want = w].todo = todo
               /\ [Doing(name, todo) EXCEPT !.want = w].want = w
               /\ [Doing(name, todo) EXCEPT !.want = w].waits = NoRequest
  <1>1. [on |-> {}, known |-> {}] \in Configurations
    BY DEF Configurations
  <1>2. /\ Doing(name, todo) \in Operations
        /\ Doing(name, todo).todo = todo /\ Doing(name, todo).waits = NoRequest
        /\ Doing(name, todo).want.on \subseteq Points
    BY <1>1 DEF Doing, Operations, OperationNames
  <1> DEFINE d == Doing(name, todo)
  <1> HIDE DEF d
  <1>3. \A b \in BOOLEAN : /\ [d EXCEPT !.filter = b] \in Operations
                           /\ [d EXCEPT !.filter = b].todo = d.todo
                           /\ [d EXCEPT !.filter = b].waits = d.waits
    BY <1>2 DEF d, Operations
  <1>4. \A n \in Nat : /\ [d EXCEPT !.page = n] \in Operations
                       /\ [d EXCEPT !.page = n].todo = d.todo
                       /\ [d EXCEPT !.page = n].waits = d.waits
    BY <1>2 DEF d, Operations
  <1>5. \A w \in Configurations :
            /\ [d EXCEPT !.want = w] \in Operations
            /\ [d EXCEPT !.want = w].todo = d.todo
            /\ [d EXCEPT !.want = w].want = w
            /\ [d EXCEPT !.want = w].waits = d.waits
    BY <1>2 DEF d, Operations
  <1> QED BY <1>2, <1>3, <1>4, <1>5 DEF d

\* Operations of plain steps, idle among them.
LEMMA PlainOperates ==
  ASSUME NEW o, o \in Operations, NEW x, o.waits = NoRequest,
         NEW todo \in Seq({s \in Steps : Plain(s)}), o.todo = todo
  PROVE  Operates(o, x)
  BY DEF Operates, Fits, Plain

LEMMA IdleOperates ==
  ASSUME NEW x
  PROVE  Operates(Idle, x) /\ Idle \in Operations
  <1>1. <<>> \in Seq(Steps) /\ <<>> \in Seq({s \in Steps : Plain(s)})
    OBVIOUS
  <1>2. "idle" \in OperationNames
    BY DEF OperationNames
  <1>3. Idle \in Operations /\ Idle.todo = <<>> /\ Idle.waits = NoRequest
    BY ZenonT(60), <1>1, <1>2, DoingTypes DEF Idle
  <1> QED BY <1>1, <1>3, PlainOperates

LEMMA ViewsAreTyped ==
  /\ \A phase \in {"Ready", "Running", "Stopped", "Exited"} : Viewing(phase) \in Views
  /\ \A v \in Views, n \in Nat, whole \in BOOLEAN :
        [v EXCEPT !.windows = n, !.whole = whole] \in Views
  BY DEF Viewing, Views

LEMMA NoExecutionTyped ==
  \A a \in Nat : /\ Fresh(a) \in Executions /\ Coherent(Fresh(a))
                 /\ Fresh(a).adapter = a /\ Fresh(a).next = 2 /\ Fresh(a).handles = {}
  BY DEF Fresh, Executions, States, Coherent, NoThread

\* The adapters stay, and so does the execution's.
LEMMA StayTyped ==
  ASSUME Typed, EndClosed, UNCHANGED adapters,
         exec' \in Executions, Coherent(exec'), exec'.adapter = exec.adapter,
         exec'.next = exec.next, prep'.adapter \in {0, prep.adapter}, applied' \subseteq Points,
         Operates(op, exec)', view' \in Views, answer' \in AnswersGiven
  PROVE  Typed'
  <1>1. exec \in Executions
    BY DEF Typed, ExecutionTyped
  <1>2. AdaptersTyped'
    <2>1. \A a \in DOMAIN adapters : NextNumber(a)' >= NextNumber(a)
      BY <1>1 DEF NextNumber, Executions
    <2> QED BY <1>1, <2>1, NoAdapter DEF Typed
  <1>3. ExecutionTyped'
    <2>1. Len(adapters) \in Nat
      BY DEF Typed, AdaptersTyped
    <2> QED BY <2>1 DEF Typed, ExecutionTyped, Has
  <1> QED BY <1>2, <1>3 DEF Typed

LEMMA ReturnTyped ==
  ASSUME Typed, EndClosed, Return
  PROVE  Typed'
  <1>1. /\ exec \in Executions /\ Sound(exec) /\ Operates(op, exec) /\ op \in Operations
        /\ applied \subseteq Points /\ view \in Views /\ answer \in AnswersGiven
    BY DEF Typed, ExecutionTyped, Operates, Sound
  <1>2. UNCHANGED <<adapters, prep>>
    BY DEF Return
  <1>3. applied' \subseteq Points
    <2>1. op.want.on \subseteq Points
      BY <1>1 DEF Operations, Configurations
    <2> QED BY <1>1, <2>1 DEF Return
  <1>4. /\ exec' \in Executions /\ Coherent(exec') /\ exec'.adapter = exec.adapter
        /\ exec'.next = exec.next
    <2> DEFINE o == exec.outcomes \cap (op.want.on \cup exec.handles)
               y == [exec EXCEPT !.outcomes = o]
    <2>1. exec' = exec \/ exec' = y
      BY DEF Return
    <2>2. o \in SUBSET Points
      BY <1>1 DEF Executions
    <2> HIDE DEF o
    <2>3. /\ y \in Executions /\ y.adapter = exec.adapter /\ y.next = exec.next
          /\ y.inbox = exec.inbox /\ y.windows = exec.windows /\ y.frames = exec.frames
          /\ y.active = exec.active /\ y.handles = exec.handles
      BY <1>1, <2>2 DEF Executions
    <2>4. Coherent(y)
      BY <1>1, <2>3 DEF Sound, Coherent
    <2> HIDE DEF y
    <2> QED BY <1>1, <2>1, <2>3, <2>4 DEF Sound
  <1>5. /\ exec.whole \in BOOLEAN /\ op.page \in Nat
        /\ {"done", "stopped"} \subseteq AnswersGiven
    BY <1>1 DEF Executions, Operations, AnswersGiven
  <1>6. \/ op' = [Follow(<<Step("window")>>) EXCEPT !.settling = TRUE]
           /\ UNCHANGED <<answer, view>>
        \/ Answers("stopped", [phase |-> "Stopped", windows |-> 1, whole |-> exec.whole])
        \/ Answers("done", [view EXCEPT !.windows = op.page + 1, !.whole = exec.whole])
        \/ Answers("done", view)
    BY Zenon DEF Return
  <1>7. view' \in Views /\ answer' \in AnswersGiven
    <2>1. [phase |-> "Stopped", windows |-> 1, whole |-> exec.whole] \in Views
      BY <1>5 DEF Views
    <2>2. [view EXCEPT !.windows = op.page + 1, !.whole = exec.whole] \in Views
      <3> DEFINE whole == exec.whole
                 n == op.page + 1
      <3>1. whole \in BOOLEAN /\ n \in Nat /\ view \in Views
        BY <1>1, <1>5
      <3> HIDE DEF whole, n
      <3>2. [view EXCEPT !.windows = n, !.whole = whole] \in Views
        BY <3>1, ViewsAreTyped, Zenon
      <3> QED BY <3>2 DEF whole, n
    <2> QED BY <1>1, <1>5, <1>6, <2>1, <2>2 DEF Answers
  <1>8. Operates(op, exec)'
    <2> DEFINE K == {s \in Steps : Plain(s)}
    <2>1. Step("window") \in K
      BY PlainSteps DEF Commands
    <2> HIDE DEF K
    <2>2. <<Step("window")>> \in Seq(K)
      BY <2>1
    <2>3. CASE op' = [Follow(<<Step("window")>>) EXCEPT !.settling = TRUE]
      <3>1. Continues(op') /\ op'.todo = <<Step("window")>> /\ op'.waits = NoRequest
            /\ op' \in Operations
        <4>1. Continues(op')
          BY <1>1, <2>2, <2>3, PlainContinues DEF K
        <4>2. op' \in Operations
          BY <4>1 DEF Continues
        <4>3. \A o : o = Follow(<<Step("window")>>) =>
                o.todo = <<Step("window")>> /\ o.waits = NoRequest
          BY <1>1 DEF Follow, Operations
        <4> QED BY <2>3, <4>1, <4>2, <4>3 DEF Follow
      <3> QED BY <2>2, <3>1, PlainOperates DEF K
    <2>4. CASE op' = Idle
      BY <2>4, IdleOperates
    <2> QED BY <1>6, <2>3, <2>4 DEF Answers
  <1> QED BY <1>2, <1>3, <1>4, <1>7, <1>8, StayTyped

LEMMA UnreadableTyped ==
  ASSUME Typed, EndClosed, Unreadable
  PROVE  Typed'
  <1>1. exec \in Executions /\ Coherent(exec) /\ applied \subseteq Points /\ view \in Views
    BY DEF Typed, ExecutionTyped
  <1>2. UNCHANGED <<adapters, prep, exec, applied, view>> /\ op' = Idle
        /\ answer' = "unreadable"
    BY DEF Unreadable, Answers
  <1>3. Operates(op, exec)'
    BY <1>2, IdleOperates
  <1> QED BY <1>1, <1>2, <1>3, StayTyped DEF AnswersGiven

-----------------------------------------------------------------------------
(* The user's calls.                                                         *)

LEMMA UserTyped ==
  ASSUME Typed, UserCalls
  PROVE  Typed'
  <1> DEFINE K == {s \in Steps : Plain(s)}
             Good == /\ applied' \subseteq Points /\ Operates(op', exec')
                     /\ view' \in Views /\ answer' \in AnswersGiven
  <1>1. /\ exec \in Executions /\ Coherent(exec) /\ Operates(op, exec) /\ op \in Operations
        /\ applied \subseteq Points /\ view \in Views /\ answer \in AnswersGiven
    BY DEF Typed, ExecutionTyped, Operates
  <1>2. UNCHANGED <<adapters, prep, exec, targets>>
    BY DEF UserCalls, Launch, Synchronize, Resume, Inspect, InvokeInStop, Refuse, Extend, Quit
  <1>3. ASSUME NEW c \in Commands, c # "evaluate" PROVE Step(c) \in K
    BY <1>3, PlainSteps
  <1>4. ASSUME NEW o \in Operations, o.waits = NoRequest, o.todo \in Seq(K)
        PROVE  Operates(o, exec')
    BY <1>4, PlainOperates DEF K
  <1> HIDE DEF K
  <1>5. ASSUME NEW doing, Operates(doing, exec'), NEW phase \in {"Ready", "Running", "Stopped", "Exited"},
               Begins(doing, phase)
        PROVE  op' = doing /\ view' \in Views /\ answer' \in AnswersGiven /\ Operates(op', exec')
    <2>1. view' \in Views
      BY <1>1, <1>5, ViewsAreTyped DEF Begins
    <2> QED BY <1>5, <2>1 DEF Begins, AnswersGiven
  <1>6. ASSUME Refuse PROVE Good
    <2>1. Viewing("Ready") \in Views
      BY ViewsAreTyped
    <2>2. Operates(op', exec')
      BY <1>1, <1>6 DEF Refuse
    <2> QED BY <1>1, <1>6, <2>1, <2>2 DEF Refuse, AnswersGiven
  <1>7. \A todo \in Seq(K) : todo \in Seq(Steps)
    BY DEF K
  <1>8. ASSUME NEW want \in Wants, Launch(want) PROVE Good
    <2> DEFINE todo == IF Has /\ exec.state = "Stopped"
                       THEN <<Step("disconnect"), Step("release")>>
                       ELSE <<Step("prepare")>>
               doing == [Doing("launch", todo) EXCEPT !.filter = TRUE]
    <2>1. Begins(doing, "Running") /\ applied' = want.on
      BY <1>8 DEF Launch
    <2>2. /\ Step("disconnect") \in K /\ Step("release") \in K /\ Step("prepare") \in K
      BY <1>3 DEF Commands
    <2>3. todo \in Seq(K)
      BY <2>2
    <2> HIDE DEF todo
    <2>4. doing \in Operations /\ doing.todo = todo /\ doing.waits = NoRequest
      BY <1>7, <2>3, DoingTypes DEF OperationNames
    <2> HIDE DEF doing
    <2>5. Operates(doing, exec')
      BY <1>4, <2>3, <2>4 DEF doing
    <2>6. want.on \subseteq Points
      BY DEF Wants, Configurations
    <2> QED BY <1>5, <2>1, <2>5, <2>6
  <1>9. ASSUME NEW want \in Wants, Synchronize(want) PROVE Good
    <2> DEFINE todo == SynchronizationSteps(want)
               doing == [Doing("sync", todo) EXCEPT !.want = want]
    <2>1. applied' = applied
      BY <1>9 DEF Synchronize
    <2>2. \/ Begins(doing, "Stopped")
          \/ answer' = "rejected" /\ UNCHANGED <<op, view>>
      BY <1>9 DEF Synchronize
    <2>3. want \in Configurations /\ want.on \cap Families \subseteq want.known
      BY DEF Wants
    <2>4. /\ todo \in {s \in Seq(ChangeSteps(want.on)) :
                          \A i \in DOMAIN s : Fits(s[i], exec, want)}
      BY <1>1, <2>3, SynchronizationCovers DEF Executions, Coherent
    <2>5. todo \in Seq(Steps) /\ \A i \in DOMAIN todo : Fits(todo[i], exec, want)
      BY <2>4 DEF ChangeSteps
    <2> HIDE DEF todo
    <2>6. doing \in Operations /\ doing.todo = todo /\ doing.waits = NoRequest
          /\ doing.want = want
      BY <2>3, <2>5, DoingTypes DEF OperationNames
    <2> HIDE DEF doing
    <2>7. Operates(doing, exec)
      BY <2>5, <2>6 DEF Operates
    <2>8. CASE Begins(doing, "Stopped")
      BY <1>1, <1>2, <1>5, <2>1, <2>7, <2>8 DEF Operates, Begins, AnswersGiven
    <2>9. CASE answer' = "rejected" /\ UNCHANGED <<op, view>>
      <3>1. Operates(op', exec')
        BY <1>1, <1>2, <2>9
      <3> QED BY <1>1, <2>1, <2>9, <3>1 DEF AnswersGiven
    <2> QED BY <2>2, <2>8, <2>9
  <1>10. ASSUME NEW doing, Operates(doing, exec'), NEW phase \in {"Running", "Stopped"},
                InvokeInStop(doing, phase)
         PROVE  Good
    BY <1>1, <1>5, <1>6, <1>10 DEF InvokeInStop
  <1>11. ASSUME NEW command \in {"continue", "next"}, Resume(command) PROVE Good
    <2> DEFINE todo == <<Step(command), Step("stable"), Step("outcome")>>
               b == (command = "continue")
               doing == [Doing("resume", todo) EXCEPT !.filter = b]
    <2>1. InvokeInStop(doing, "Running")
      BY <1>11 DEF Resume
    <2>2. /\ Step(command) \in K /\ Step("stable") \in K /\ Step("outcome") \in K
      BY <1>3 DEF Commands
    <2>3. todo \in Seq(K) /\ b \in BOOLEAN
      BY <2>2
    <2> HIDE DEF todo, b
    <2>4. doing \in Operations /\ doing.todo = todo /\ doing.waits = NoRequest
      BY <1>7, <2>3, DoingTypes DEF OperationNames
    <2>5. Operates(doing, exec')
      BY <1>4, <2>3, <2>4
    <2> HIDE DEF doing
    <2> QED BY <1>10, <2>1, <2>5
  <1>12. ASSUME NEW name \in {"find", "locals"}, Inspect(name) PROVE Good
    <2> DEFINE A == IF "scopes" \in exec.read THEN <<>> ELSE <<Step("scopes")>>
               B == IF "variables" \in exec.read THEN <<>> ELSE <<Step("variables")>>
               doing == Doing(name, A \o B)
    <2>1. InvokeInStop(doing, "Stopped")
      BY <1>12 DEF Inspect
    <2>2. Step("scopes") \in K /\ Step("variables") \in K
      BY <1>3 DEF Commands
    <2>3. A \in Seq(K) /\ B \in Seq(K)
      BY <2>2
    <2> HIDE DEF A, B
    <2>4. A \o B \in Seq(K)
      BY <2>3
    <2>7. A \o B \in Seq(Steps) /\ name \in OperationNames
      BY <1>7, <2>4 DEF OperationNames
    <2>5. doing \in Operations /\ doing.todo = A \o B /\ doing.waits = NoRequest
      BY ZenonT(60), <2>7, DoingTypes
    <2>6. Operates(doing, exec')
      BY <1>4, <2>4, <2>5
    <2> HIDE DEF doing
    <2> QED BY <1>10, <2>1, <2>6
  <1>13. ASSUME Extend PROVE Good
    <2> DEFINE todo == <<Step("window")>>
               n == view.windows
               doing == [Doing("stack", todo) EXCEPT !.page = n]
    <2>1. Begins(doing, "Stopped") /\ applied' = applied
      BY <1>13 DEF Extend
    <2>2. Step("window") \in K
      BY <1>3 DEF Commands
    <2>3. <<Step("window")>> \in Seq(K) /\ view.windows \in Nat
      BY <1>1, <2>2 DEF Views
    <2>6. todo \in Seq(K) /\ todo \in Seq(Steps) /\ n \in Nat
      BY <1>7, <2>3
    <2> HIDE DEF todo, n
    <2>4. doing \in Operations /\ doing.todo = todo /\ doing.waits = NoRequest
      BY <2>6, DoingTypes DEF OperationNames
    <2>5. Operates(doing, exec')
      BY <1>4, <2>4, <2>6
    <2> HIDE DEF doing
    <2> QED BY <1>1, <1>5, <2>1, <2>5
  <1>14. ASSUME Quit PROVE Good
    <2> DEFINE todo == IF Has THEN <<Step("disconnect"), Step("close")>> ELSE <<Step("close")>>
               doing == Doing("quit", todo)
    <2>1. Begins(doing, "Exited") /\ applied' = applied
      BY <1>14 DEF Quit
    <2>2. Step("disconnect") \in K /\ Step("close") \in K
      BY <1>3 DEF Commands
    <2>3. todo \in Seq(K)
      BY <2>2
    <2> HIDE DEF todo
    <2>4. doing \in Operations /\ doing.todo = todo /\ doing.waits = NoRequest
      BY <1>7, <2>3, DoingTypes DEF OperationNames
    <2>5. Operates(doing, exec')
      BY <1>4, <2>3, <2>4
    <2> HIDE DEF doing
    <2> QED BY <1>1, <1>5, <2>1, <2>5
  <1>15. Good
    BY <1>8, <1>9, <1>11, <1>12, <1>13, <1>14 DEF UserCalls
  <1>16. AdaptersTyped' /\ ExecutionTyped'
    <2>1. AdaptersTyped /\ ExecutionTyped
      BY DEF Typed
    <2> QED BY <1>2, <2>1 DEF AdaptersTyped, ExecutionTyped, Numbered, Heard, NextNumber, Has
  <1> QED BY <1>15, <1>16 DEF Typed

-----------------------------------------------------------------------------
(* The preparation, and the ends of executions.                              *)

LEMMA PrepareStartTyped ==
  ASSUME IInv, Typed, PrepareStart, EndClosed
  PROVE  Typed'
  <1> DEFINE r == Request(1, "initialize", "none", {}, NoThread)
             p == Written(Process, r)
             n == Len(adapters) + 1
  <1>1. /\ AdaptersTyped /\ exec \in Executions /\ adapters \in Seq(Processes)
        /\ targets \in Seq(Targets) /\ DOMAIN targets = DOMAIN adapters
        /\ prep = Spawned
    BY DEF Typed, ExecutionTyped, AdaptersTyped, PrepareStart
  <1>2. /\ adapters' = Append(adapters, p) /\ prep' = Preparing(n)
        /\ UNCHANGED <<exec, applied, op, view, answer>>
    BY DEF PrepareStart
  <1>3. r \in RequestRecords
    BY DEF Request, RequestRecords, Commands, Objects, NoThread
  <1>4. p \in Processes
    <2>1. Process \in Processes
      BY DEF Process, Processes, Running
    <2> QED BY <1>3, <2>1, ProcessesAreTyped
  <1>5. p.requests = <<r>> /\ p.messages = <<>>
    BY DEF Written, Process
  <1>6. r.seq = 1
    BY DEF Request
  <1> HIDE DEF p, r
  <1>7. /\ adapters' \in Seq(Processes) /\ Len(adapters') = n /\ Len(adapters) \in Nat
        /\ DOMAIN adapters = 1 .. Len(adapters) /\ DOMAIN adapters' = 1 .. n
        /\ \A a \in DOMAIN adapters : adapters'[a] = adapters[a]
        /\ adapters'[n] = p
    BY <1>1, <1>2, <1>4
  <1>8. /\ targets' \in Seq(Targets) /\ DOMAIN targets' = DOMAIN adapters'
        /\ \A a \in DOMAIN adapters' : a \in DOMAIN adapters /\ adapters'[a].open =>
               targets'[a] = targets[a]
        /\ \A a \in DOMAIN adapters' : a \notin DOMAIN adapters => targets'[a] = Target
    BY <1>1, <1>7, EndClosedTyped
  <1>9. exec.adapter # n
    <2>1. exec.adapter = 0 \/ exec.adapter \in DOMAIN adapters
      BY DEF Typed, ExecutionTyped, Has
    <2> QED BY <1>7, <2>1
  <1>10. ASSUME NEW a \in DOMAIN adapters', adapters'[a].open
         PROVE  Numbered(a, NextNumber(a))'
    <2>1. CASE a \in DOMAIN adapters
      BY <1>1, <1>2, <1>7, <1>8, <1>10, <2>1 DEF AdaptersTyped, Numbered, Heard, NextNumber
    <2>2. CASE a = n
      <3>1. NextNumber(a)' = 2
        BY <1>2, <1>9, <2>2 DEF NextNumber
      <3>2. adapters'[a].requests = <<r>> /\ adapters'[a].messages = <<>>
            /\ targets'[a].owed = <<>>
        <4>1. a \notin DOMAIN adapters
          BY <1>7, <2>2
        <4> QED BY <1>5, <1>7, <1>8, <2>2, <4>1 DEF Target
      <3>3. Heard(a)' = {}
        BY <3>2 DEF Heard
      <3>4. \A i \in DOMAIN adapters'[a].requests : adapters'[a].requests[i].seq < 2
        BY <1>6, <3>2
      <3> QED BY <3>1, <3>3, <3>4 DEF Numbered
    <2> QED BY <1>7, <2>1, <2>2
  <1>11. AdaptersTyped'
    BY <1>7, <1>8, <1>10 DEF AdaptersTyped
  <1>12. ExecutionTyped'
    <2>1. prep'.adapter = n
      BY <1>2 DEF Preparing
    <2> QED BY <1>2, <1>7, <2>1 DEF Typed, ExecutionTyped, Has
  <1>13. Operates(op, exec)'
    BY <1>2 DEF Typed
  <1> QED BY <1>2, <1>11, <1>12, <1>13 DEF Typed

\* An adapter that no execution has becomes p.
LEMMA OtherAdapterTyped ==
  ASSUME IInv, Typed, EndClosed, NEW k \in DOMAIN adapters, adapters[k].open,
         k # exec.adapter, NEW p \in Processes, adapters' = [adapters EXCEPT ![k] = p],
         ~p.open \/ (p = Read(adapters[k]) /\ adapters[k].messages # <<>>),
         UNCHANGED <<exec, applied>>, prep'.adapter \in {0, prep.adapter},
         Operates(op, exec)', view' \in Views, answer' \in AnswersGiven
  PROVE  Typed'
  <1>1. AdaptersTyped /\ exec \in Executions /\ Coherent(exec) /\ exec' \in Executions
    BY DEF Typed, ExecutionTyped
  <1>2. \A a : NextNumber(a)' = NextNumber(a) /\ NextNumber(a) \in Int
    BY <1>1 DEF NextNumber, Executions
  <1>3. adapters'[k] = p
    OBVIOUS
  <1>4. ASSUME p = Read(adapters[k]), adapters[k].messages # <<>> PROVE Quiet(k)
    <2>1. adapters[k] \in Processes /\ adapters[k].messages \in Seq(Messages)
      BY <1>1, AdapterTypes
    <2>2. /\ p.messages = Tail(adapters[k].messages) /\ p.requests = adapters[k].requests
      BY <1>4, <2>1 DEF Read, Processes
    <2>3. \A i \in DOMAIN p.messages : /\ i + 1 \in DOMAIN adapters[k].messages
                                       /\ p.messages[i] = adapters[k].messages[i + 1]
      BY <1>4, <2>1, <2>2, TailSteps
    <2>4. \A i \in DOMAIN p.messages : p.messages[i] \in Heard(k)
      BY <2>3 DEF Heard
    <2>5. \A i \in DOMAIN p.requests : p.requests[i].seq < NextNumber(k)'
      BY <1>1, <1>2, <2>2 DEF AdaptersTyped, Numbered
    <2> QED BY <1>2, <1>3, <2>4, <2>5 DEF Quiet
  <1>5. /\ AdaptersTyped' /\ Len(adapters') = Len(adapters) /\ DOMAIN adapters' = DOMAIN adapters
    <2>1. p.open => Quiet(k)
      BY <1>4
    <2>2. \A a \in DOMAIN adapters : a # k => NextNumber(a)' >= NextNumber(a)
      BY <1>2
    <2> QED BY <1>1, <2>1, <2>2, OneAdapter
  <1>6. ExecutionTyped'
    <2>1. Len(adapters) \in Nat
      BY <1>1 DEF AdaptersTyped
    <2> QED BY <1>1, <1>5, <2>1 DEF Typed, ExecutionTyped, Has
  <1> QED BY <1>5, <1>6 DEF Typed

LEMMA PrepareReadTyped ==
  ASSUME IInv, Typed, PrepareRead, EndClosed
  PROVE  Typed'
  <1> DEFINE k == prep.adapter
  <1>1. /\ prep.status = "initializing" /\ UNCHANGED <<exec, applied, op, view, answer>>
        /\ \/ /\ adapters[k].messages # <<>>
              /\ adapters' = [adapters EXCEPT ![k] = Read(adapters[k])]
              /\ prep' = prep \/ prep' = [prep EXCEPT !.status = "ready"]
           \/ /\ adapters' = [adapters EXCEPT ![k] = Closed(adapters[k])]
              /\ prep' = [prep EXCEPT !.status = "failed"]
    BY DEF PrepareRead
  <1>2. k \in DOMAIN adapters /\ adapters[k].open /\ k # exec.adapter
    <2>1. k \in DOMAIN adapters /\ adapters[k].open /\ ~Has
      BY <1>1 DEF IInv, OneAtATime, NoPreparation
    <2>2. 0 \notin DOMAIN adapters
      BY DEF Typed, AdaptersTyped
    <2> QED BY <2>1, <2>2 DEF Has
  <1>3. adapters[k] \in Processes
    BY <1>2, AdapterTypes DEF Typed
  <1>4. prep'.adapter = prep.adapter
    BY <1>1 DEF IInv, OneAtATime
  <1>5. Operates(op, exec)' /\ view' \in Views /\ answer' \in AnswersGiven
    BY <1>1 DEF Typed
  <1> HIDE DEF k
  <1>6. PICK p \in Processes :
            /\ adapters' = [adapters EXCEPT ![k] = p]
            /\ ~p.open \/ (p = Read(adapters[k]) /\ adapters[k].messages # <<>>)
    BY <1>1, <1>3, ProcessesAreTyped
  <1> QED BY <1>1, <1>2, <1>4, <1>5, <1>6, OtherAdapterTyped

LEMMA TimeTyped ==
  ASSUME IInv, Typed, GiveUpPreparation \/ SpawnFails, EndClosed
  PROVE  Typed'
  <1>1. UNCHANGED <<exec, applied>> /\ prep'.adapter \in {0, prep.adapter}
    <2>1. CASE SpawnFails
      <3>1. prep' = [prep EXCEPT !.status = "failed"] /\ UNCHANGED <<exec, applied>>
        BY <2>1 DEF SpawnFails
      <3> QED BY <3>1 DEF IInv, OneAtATime
    <2>2. CASE GiveUpPreparation
      BY <2>2 DEF GiveUpPreparation, Spawned
    <2> QED BY <2>1, <2>2
  <1>2. Operates(op, exec)' /\ view' \in Views /\ answer' \in AnswersGiven
    <2>1. CASE SpawnFails
      BY <2>1 DEF Typed, SpawnFails
    <2>2. CASE GiveUpPreparation
      <3>1. Operates(Idle, exec') /\ Viewing("Ready") \in Views
        BY IdleOperates, ViewsAreTyped
      <3> QED BY <2>2, <3>1 DEF GiveUpPreparation, Answers, AnswersGiven
    <2> QED BY <2>1, <2>2
  <1>3. CASE UNCHANGED adapters
    <2>1. AdaptersTyped'
      <3>1. exec \in Executions /\ \A a : NextNumber(a)' >= NextNumber(a)
        BY <1>1 DEF NextNumber, Typed, ExecutionTyped, Executions
      <3> QED BY <1>1, <1>3, <3>1, NoAdapter DEF Typed
    <2>2. ExecutionTyped'
      <3>1. Len(adapters) \in Nat
        BY DEF Typed, AdaptersTyped
      <3> QED BY <1>1, <1>3, <3>1 DEF Typed, ExecutionTyped, Has
    <2> QED BY <1>1, <1>2, <2>1, <2>2 DEF Typed
  <1>4. CASE /\ prep.status = "initializing" /\ ~Has
             /\ adapters' = [adapters EXCEPT ![prep.adapter] = Closed(@)]
    <2> DEFINE k == prep.adapter
    <2>1. k \in DOMAIN adapters /\ adapters[k].open /\ k # exec.adapter
      <3>1. k \in DOMAIN adapters /\ adapters[k].open
        BY <1>4 DEF IInv, OneAtATime
      <3>2. 0 \notin DOMAIN adapters
        BY DEF Typed, AdaptersTyped
      <3> QED BY <1>4, <3>1, <3>2 DEF Has
    <2>2. Closed(adapters[k]) \in Processes /\ ~Closed(adapters[k]).open
      BY <2>1, AdapterTypes, ProcessesAreTyped DEF Typed
    <2> DEFINE p == Closed(adapters[k])
    <2>3. p \in Processes /\ ~p.open /\ adapters' = [adapters EXCEPT ![k] = p]
      BY <1>4, <2>2
    <2> HIDE DEF p
    <2> QED BY <1>1, <1>2, <2>1, <2>3, OtherAdapterTyped
  <1> QED BY <1>3, <1>4 DEF GiveUpPreparation, SpawnFails

LEMMA LetGoTyped ==
  ASSUME IInv, Typed, Has, LetGo, EndClosed, UNCHANGED applied,
         Operates(op, exec)', view' \in Views, answer' \in AnswersGiven
  PROVE  Typed'
  <1> DEFINE k == exec.adapter
             p == Closed(adapters[k])
  <1>1. /\ adapters' = [adapters EXCEPT ![k] = p] /\ exec' = NoExecution /\ prep' = Spawned
    BY DEF LetGo
  <1>2. /\ AdaptersTyped /\ exec \in Executions /\ k \in DOMAIN adapters
        /\ Len(adapters) \in Nat
    BY DEF Typed, ExecutionTyped, AdaptersTyped
  <1>3. /\ exec' \in Executions /\ Coherent(exec') /\ exec'.adapter = 0 /\ exec'.next = 2
    BY <1>1, NoExecutionTyped DEF NoExecution
  <1>4. p \in Processes /\ ~p.open
    BY <1>2, AdapterTypes, ProcessesAreTyped
  <1> HIDE DEF p
  <1>5. \A a \in DOMAIN adapters : a # k => NextNumber(a)' >= NextNumber(a)
    BY <1>3 DEF NextNumber
  <1>6. AdaptersTyped' /\ Len(adapters') = Len(adapters)
    BY <1>1, <1>2, <1>3, <1>4, <1>5, OneAdapter
  <1>7. ExecutionTyped'
    BY <1>1, <1>2, <1>3, <1>6 DEF ExecutionTyped, Has, Spawned
  <1> QED BY <1>6, <1>7 DEF Typed

LEMMA EndsTyped ==
  ASSUME IInv, Typed, EndClosed, Release \/ Complete \/ Discard
  PROVE  Typed'
  <1>1. Has
    BY NeedsExecution DEF IInv, Release, Complete, Discard
  <1>2. LetGo /\ UNCHANGED applied
    BY DEF Release, Complete, Discard
  <1>3. CASE Release
    <2> DEFINE K == {s \in Steps : Plain(s)}
    <2>1. Step("prepare") \in K
      BY PlainSteps DEF Commands
    <2> HIDE DEF K
    <2>2. <<Step("prepare")>> \in Seq(K)
      BY <2>1
    <2>3. Follow(<<Step("prepare")>>) \in Operations
          /\ Follow(<<Step("prepare")>>).todo = <<Step("prepare")>>
          /\ Follow(<<Step("prepare")>>).waits = NoRequest
      <3>1. Operates(op, exec) /\ op \in Operations
        BY DEF Typed, Operates
      <3> QED BY <2>2, <3>1, PlainContinues DEF K, Continues, Follow, Operations
    <2>4. Operates(Follow(<<Step("prepare")>>), exec')
      BY <2>2, <2>3, PlainOperates DEF K
    <2>5. op' = Follow(<<Step("prepare")>>) /\ UNCHANGED <<view, answer>>
      BY <1>3 DEF Release
    <2> QED BY <1>1, <1>2, <2>4, <2>5, LetGoTyped DEF Typed
  <1>4. CASE Complete \/ Discard
    <2>1. Operates(Idle, exec') /\ Viewing("Ready") \in Views
      BY IdleOperates, ViewsAreTyped
    <2> QED BY <1>1, <1>2, <1>4, <2>1, LetGoTyped DEF Complete, Discard, Answers, AnswersGiven
  <1> QED BY <1>3, <1>4

LEMMA CloseTyped ==
  ASSUME IInv, Typed, EndClosed, Close
  PROVE  Typed'
  <1>1. /\ adapters' = [a \in DOMAIN adapters |-> Closed(adapters[a])]
        /\ exec' = NoExecution /\ prep' = NoPreparation /\ op' = Idle
        /\ UNCHANGED <<applied, view>> /\ answer' = "closed"
    BY DEF Close, Answers
  <1>2. /\ AdaptersTyped /\ exec \in Executions
        /\ Len(adapters) \in Nat /\ DOMAIN adapters = 1 .. Len(adapters)
    BY DEF Typed, ExecutionTyped, AdaptersTyped
  <1>3. \A a \in DOMAIN adapters : Closed(adapters[a]) \in Processes /\ ~Closed(adapters[a]).open
    BY <1>2, AdapterTypes, ProcessesAreTyped
  <1>4. /\ adapters' \in Seq(Processes) /\ DOMAIN adapters' = DOMAIN adapters
        /\ \A a \in DOMAIN adapters : ~adapters'[a].open
        /\ Len(adapters') = Len(adapters)
    BY <1>1, <1>2, <1>3
  <1>5. /\ exec' \in Executions /\ Coherent(exec') /\ exec'.adapter = 0 /\ exec'.next = 2
    BY <1>1, NoExecutionTyped DEF NoExecution
  <1>6. AdaptersTyped'
    BY <1>2, <1>4, <1>5, QuietAdapters
  <1>7. ExecutionTyped'
    BY <1>1, <1>2, <1>4, <1>5 DEF ExecutionTyped, Has, NoPreparation
  <1>8. Operates(op, exec)'
    BY <1>1, IdleOperates
  <1> QED BY <1>1, <1>6, <1>7, <1>8 DEF Typed, AnswersGiven

LEMMA LaunchStepsFit ==
  ASSUME applied \in SUBSET Points
  PROVE  LaunchSteps \in Seq({s \in Steps : s.command = "evaluate" => s.on = "set"})
  <1> DEFINE K == {s \in Steps : s.command = "evaluate" => s.on = "set"}
             A == <<Step("launch"), Step("initialized")>>
             B == ConfigurationSteps(applied)
             C == <<Step("configurationDone"), Step("launched"), Step("stable"),
                    Step("outcome")>>
  <1>1. \A c \in Commands : c # "evaluate" => Step(c) \in K
    BY PlainSteps
  <1>2. B \in Seq(K)
    <2>1. B \in Seq({s \in ChangeSteps(applied) : s.command = "evaluate" => s.on = "set"})
      BY ConfigurationCovers
    <2>2. {s \in ChangeSteps(applied) : s.command = "evaluate" => s.on = "set"} \subseteq K
      BY DEF ChangeSteps
    <2> HIDE DEF B, K
    <2> QED BY <2>1, <2>2
  <1>3. /\ Step("launch") \in K /\ Step("initialized") \in K /\ Step("configurationDone") \in K
        /\ Step("launched") \in K /\ Step("stable") \in K /\ Step("outcome") \in K
    BY <1>1 DEF Commands
  <1> HIDE DEF K, B
  <1>4. A \in Seq(K) /\ C \in Seq(K)
    BY <1>3
  <1> HIDE DEF A, C
  <1>5. A \o B \o C \in Seq(K)
    BY <1>2, <1>4
  <1> QED BY <1>5 DEF LaunchSteps, A, B, C, K

LEMMA TakePreparationTyped ==
  ASSUME IInv, Typed, EndClosed, TakePreparation
  PROVE  Typed'
  <1>1. UNCHANGED <<adapters, applied>> /\ applied \in SUBSET Points
        /\ exec \in Executions /\ Coherent(exec) /\ op \in Operations
        /\ view \in Views /\ answer \in AnswersGiven /\ AdaptersTyped
        /\ Len(adapters) \in Nat
    BY DEF TakePreparation, Typed, ExecutionTyped, Operates, AdaptersTyped
  <1>2. ASSUME Answers("refused", Viewing("Ready")) \/ Answers("failed", Viewing("Ready")),
               UNCHANGED exec, prep'.adapter \in {0, prep.adapter}
        PROVE  Typed'
    <2>1. Operates(Idle, exec') /\ Viewing("Ready") \in Views
      BY IdleOperates, ViewsAreTyped
    <2> QED BY <1>1, <1>2, <2>1, StayTyped DEF Answers, AnswersGiven
  <1>3. ASSUME prep.status = "ready", exec' = Fresh(prep.adapter), prep' = NoPreparation,
               op' = Follow(LaunchSteps), UNCHANGED <<view, answer>>
        PROVE  Typed'
    <2>1. /\ prep.adapter \in DOMAIN adapters /\ adapters[prep.adapter].open
          /\ prep.adapter \in Nat
      BY <1>3 DEF IInv, OneAtATime
    <2>2. /\ exec' \in Executions /\ Coherent(exec') /\ exec'.adapter = prep.adapter
          /\ exec'.next = 2
      BY <1>3, <2>1, NoExecutionTyped
    <2>3. \A a \in DOMAIN adapters : NextNumber(a)' >= NextNumber(a)
      <3>1. ~Has
        BY <1>3 DEF IInv, OneAtATime, NoPreparation
      <3>2. \A a \in DOMAIN adapters : a # exec.adapter
        BY <1>1, <3>1 DEF Has, AdaptersTyped
      <3> QED BY <2>2, <3>2 DEF NextNumber
    <2>4. AdaptersTyped'
      BY <1>1, <2>2, <2>3, NoAdapter
    <2>5. ExecutionTyped'
      BY <1>1, <1>3, <2>1, <2>2 DEF ExecutionTyped, Has, NoPreparation
    <2>6. Operates(op, exec)'
      <3> DEFINE K == {s \in Steps : s.command = "evaluate" => s.on = "set"}
      <3>1. LaunchSteps \in Seq(K)
        BY <1>1, LaunchStepsFit
      <3>2. \A s \in K : s \in Steps /\ Fits(s, exec', op'.want)
        BY DEF Fits
      <3> HIDE DEF K
      <3>3. LaunchSteps \in Seq(Steps) /\ \A i \in DOMAIN LaunchSteps : LaunchSteps[i] \in K
        BY <3>1, <3>2
      <3>4. op' \in Operations /\ op'.todo = LaunchSteps /\ op'.waits = NoRequest
        BY <1>1, <1>3, <3>3 DEF Follow, Operations
      <3> QED BY <3>2, <3>3, <3>4 DEF Operates
    <2> QED BY <1>1, <1>3, <2>4, <2>5, <2>6 DEF Typed
  <1>4. \/ Answers("refused", Viewing("Ready")) /\ UNCHANGED <<prep, exec>>
        \/ /\ prep.status = "ready"
           /\ exec' = Fresh(prep.adapter) /\ prep' = NoPreparation
           /\ op' = Follow(LaunchSteps) /\ UNCHANGED <<view, answer>>
        \/ prep' = Spawned /\ Answers("failed", Viewing("Ready")) /\ UNCHANGED exec
    BY DEF TakePreparation
  <1> QED BY <1>2, <1>3, <1>4 DEF Spawned

-----------------------------------------------------------------------------
(* What an adapter does.                                                     *)

\* What an adapter tells of its own accord: what it was about to, or an event.
Told(a) == {m \in Messages : m \in Heard(a) \/ (IsEvent(m) /\ m.to = 0)}

\* A response that confirms a change of the breakpoints comes with the change.
Replies(a, tables) ==
    LET req == Head(adapters[a].requests) IN
    {m \in Messages :
        /\ IsResponse(m) /\ m.to = req.seq
        /\ m.ok /\ req.command \in Changes => tables = Tables(targets[a].tables, req)}

OneActs(a) ==
    /\ adapters' = [adapters EXCEPT ![a] = adapters'[a]]
    /\ targets' = [targets EXCEPT ![a] = targets'[a]]
    /\ adapters'[a] \in Processes /\ adapters'[a].open = adapters[a].open
    /\ targets'[a] \in Targets

Serves(a) ==
    /\ OneActs(a)
    /\ adapters[a].requests # <<>>
    /\ adapters'[a].requests = Tail(adapters[a].requests)
    /\ targets'[a].tables \in {targets[a].tables,
                               Tables(targets[a].tables, Head(adapters[a].requests))}
    /\ \A m \in Heard(a)' : m \in Told(a) \cup Replies(a, targets'[a].tables)

Speaks(a) ==
    /\ OneActs(a)
    /\ adapters'[a].requests = adapters[a].requests
    /\ targets'[a].tables = targets[a].tables
    /\ \A m \in Heard(a)' : m \in Told(a)

LEMMA TablesAreTyped ==
  ASSUME NEW old \in SUBSET Points, NEW req \in RequestRecords
  PROVE  Tables(old, req) \in SUBSET Points
  <1>1. req.points \subseteq Points
    BY DEF RequestRecords
  <1>2. \/ Tables(old, req) =
              {p \in old : Catalog[p].kind # "source" \/ Catalog[p].path # req.on}
              \cup req.points
        \/ Tables(old, req) = (old \ OfKind("exact")) \cup req.points
        \/ Tables(old, req) = old \cup req.points
        \/ Tables(old, req) = old \ req.points
        \/ Tables(old, req) = old
    BY DEF Tables
  <1> QED BY <1>1, <1>2

LEMMA ProcessesAct ==
  ASSUME NEW p \in Processes, NEW ms \in Seq(Messages)
  PROVE  /\ Sent(p, ms) \in Processes /\ Sent(p, ms).open = p.open
         /\ Sent(p, ms).requests = p.requests
         /\ Sent(p, ms).messages = p.messages \o ms
         /\ p.requests # <<>> =>
               /\ Answered(p, ms) \in Processes /\ Answered(p, ms).open = p.open
               /\ Answered(p, ms).requests = Tail(p.requests)
               /\ Answered(p, ms).messages = p.messages \o ms
         /\ \A exit \in Int : /\ [p EXCEPT !.exit = exit] \in Processes
                              /\ [p EXCEPT !.exit = exit].open = p.open
                              /\ [p EXCEPT !.exit = exit].requests = p.requests
                              /\ [p EXCEPT !.exit = exit].messages = p.messages
  <1> DEFINE q == Sent(p, ms)
  <1> HIDE DEF RequestRecords, Messages
  <1>1. p.messages \o ms \in Seq(Messages)
    BY DEF Processes
  <1>2. /\ q \in Processes /\ q.open = p.open
        /\ q.requests = p.requests /\ q.messages = p.messages \o ms
    BY <1>1 DEF Processes, Sent
  <1> HIDE DEF q
  <1>3. ASSUME p.requests # <<>>
        PROVE  /\ Answered(p, ms) \in Processes /\ Answered(p, ms).open = p.open
               /\ Answered(p, ms).requests = Tail(p.requests)
               /\ Answered(p, ms).messages = p.messages \o ms
    <2>1. Tail(p.requests) \in Seq(RequestRecords)
      BY <1>3, TailSteps DEF Processes
    <2>2. Answered(p, ms) = [q EXCEPT !.requests = Tail(@)]
      BY DEF Answered, q
    <2> QED BY <1>2, <2>1, <2>2 DEF Processes
  <1>4. \A exit \in Int : /\ [p EXCEPT !.exit = exit] \in Processes
                          /\ [p EXCEPT !.exit = exit].open = p.open
                          /\ [p EXCEPT !.exit = exit].requests = p.requests
                          /\ [p EXCEPT !.exit = exit].messages = p.messages
    BY DEF Processes
  <1> QED BY <1>2, <1>3, <1>4 DEF q

\* The elements of a concatenation.
LEMMA ConcatElements ==
  ASSUME NEW T, NEW s \in Seq(T), NEW t \in Seq(T), NEW i \in DOMAIN (s \o t)
  PROVE  (\E j \in DOMAIN s : (s \o t)[i] = s[j]) \/ (\E j \in DOMAIN t : (s \o t)[i] = t[j])
  <1>1. /\ Len(s) \in Nat /\ Len(t) \in Nat /\ DOMAIN s = 1 .. Len(s) /\ DOMAIN t = 1 .. Len(t)
        /\ i \in 1 .. Len(s) + Len(t)
        /\ (s \o t)[i] = IF i <= Len(s) THEN s[i] ELSE t[i - Len(s)]
    OBVIOUS
  <1>2. CASE i <= Len(s)
    BY <1>1, <1>2
  <1>3. CASE i > Len(s)
    <2>1. i - Len(s) \in DOMAIN t
      BY <1>1, <1>3
    <2> QED BY <1>1, <1>3, <2>1
  <1> QED BY <1>1, <1>2, <1>3

LEMMA OwedIsTold ==
  ASSUME AdaptersTyped, NEW a \in DOMAIN adapters
  PROVE  /\ targets[a].owed \in Seq(Told(a)) /\ adapters[a].messages \in Seq(Told(a))
         /\ <<>> \in Seq(Told(a))
  <1>1. adapters[a].messages \in Seq(Messages) /\ targets[a].owed \in Seq(Messages)
    BY AdapterTypes
  <1>2. \A i \in DOMAIN adapters[a].messages : adapters[a].messages[i] \in Told(a)
    BY <1>1 DEF Told, Heard
  <1>3. \A i \in DOMAIN targets[a].owed : targets[a].owed[i] \in Told(a)
    BY <1>1 DEF Told, Heard
  <1> QED BY <1>1, <1>2, <1>3

LEMMA DoesServes ==
  ASSUME AdaptersTyped, NEW a \in DOMAIN adapters, adapters[a].requests # <<>>,
         NEW t \in Targets, NEW sent, Does(a, t, sent),
         t.tables \in {targets[a].tables,
                       Tables(targets[a].tables, Head(adapters[a].requests))},
         sent \in Seq(Told(a) \cup Replies(a, t.tables)),
         t.owed \in Seq(Told(a) \cup Replies(a, t.tables))
  PROVE  Serves(a)
  <1> DEFINE p == Answered(adapters[a], sent)
             K == Told(a) \cup Replies(a, t.tables)
  <1>1. adapters[a] \in Processes /\ adapters[a].messages \in Seq(Messages)
        /\ targets \in Seq(Targets) /\ DOMAIN targets = DOMAIN adapters
    BY AdapterTypes DEF AdaptersTyped
  <1>2. sent \in Seq(Messages)
    <2>1. K \subseteq Messages
      BY DEF Told, Replies
    <2> HIDE DEF K
    <2> QED BY <2>1 DEF K
  <1>3. /\ p \in Processes /\ p.open = adapters[a].open
        /\ p.requests = Tail(adapters[a].requests)
        /\ p.messages = adapters[a].messages \o sent
    BY <1>1, <1>2, ProcessesAct
  <1>4. adapters' = [adapters EXCEPT ![a] = p] /\ targets' = [targets EXCEPT ![a] = t]
    BY DEF Does
  <1> HIDE DEF p
  <1>5. adapters'[a] = p /\ targets'[a] = t
    BY <1>1, <1>4
  <1>6. OneActs(a)
    BY <1>3, <1>4, <1>5 DEF OneActs
  <1>7. ASSUME NEW m \in Heard(a)' PROVE m \in K
    <2>1. \/ \E i \in DOMAIN p.messages : m = p.messages[i]
          \/ \E i \in DOMAIN t.owed : m = t.owed[i]
      BY <1>5 DEF Heard
    <2>2. CASE \E i \in DOMAIN t.owed : m = t.owed[i]
      BY <2>2
    <2>3. CASE \E i \in DOMAIN p.messages : m = p.messages[i]
      <3>1. adapters[a].messages \in Seq(K)
        <4>1. adapters[a].messages \in Seq(Told(a)) /\ Told(a) \subseteq K
          BY OwedIsTold
        <4> HIDE DEF K
        <4> QED BY <4>1
      <3>2. sent \in Seq(K)
        OBVIOUS
      <3> HIDE DEF K
      <3>3. adapters[a].messages \o sent \in Seq(K)
        BY <3>1, <3>2
      <3> QED BY <1>3, <2>3, <3>3
    <2> QED BY <2>1, <2>2, <2>3
  <1> QED BY <1>3, <1>5, <1>6, <1>7 DEF Serves

LEMMA TargetsAct ==
  ASSUME NEW t \in Targets
  PROVE  /\ \A program \in {"none", "loaded", "running", "stopped", "gone"} :
               /\ [t EXCEPT !.program = program] \in Targets
               /\ [t EXCEPT !.program = program].tables = t.tables
               /\ [t EXCEPT !.program = program].owed = t.owed
         /\ \A owed \in Seq(Messages) :
               /\ [t EXCEPT !.owed = owed] \in Targets
               /\ [t EXCEPT !.owed = owed].tables = t.tables
               /\ [t EXCEPT !.owed = owed].owed = owed
         /\ \A tables \in SUBSET Points :
               /\ [t EXCEPT !.tables = tables] \in Targets
               /\ [t EXCEPT !.tables = tables].tables = tables
               /\ [t EXCEPT !.tables = tables].owed = t.owed
  <1> HIDE DEF Messages
  <1> QED BY DEF Targets

LEMMA MessagesAreTyped ==
  /\ \A name \in {"initialized", "stopped", "exited", "terminated"}, thread \in {0, 1} :
        EventOf(name, thread) \in Messages /\ IsEvent(EventOf(name, thread))
        /\ EventOf(name, thread).to = 0
  /\ \A name \in {"initialized", "stopped", "exited", "terminated"} :
        Event(name) \in Messages /\ IsEvent(Event(name)) /\ Event(name).to = 0
  /\ \A req \in RequestRecords, ok, full \in BOOLEAN :
        /\ Response(req, ok) \in Messages /\ IsResponse(Response(req, ok))
        /\ Response(req, ok).to = req.seq /\ Response(req, ok).ok = ok
        /\ [Response(req, ok) EXCEPT !.full = full] \in Messages
        /\ IsResponse([Response(req, ok) EXCEPT !.full = full])
        /\ [Response(req, ok) EXCEPT !.full = full].to = req.seq
  <1>1. \A name \in {"initialized", "stopped", "exited", "terminated"}, thread \in {0, 1} :
            EventOf(name, thread) \in Messages /\ IsEvent(EventOf(name, thread))
            /\ EventOf(name, thread).to = 0
    BY DEF EventOf, Messages, Commands, IsEvent
  <1>2. ASSUME NEW req \in RequestRecords, NEW ok \in BOOLEAN, NEW full \in BOOLEAN
        PROVE  /\ Response(req, ok) \in Messages /\ IsResponse(Response(req, ok))
               /\ Response(req, ok).to = req.seq /\ Response(req, ok).ok = ok
               /\ [Response(req, ok) EXCEPT !.full = full] \in Messages
               /\ IsResponse([Response(req, ok) EXCEPT !.full = full])
               /\ [Response(req, ok) EXCEPT !.full = full].to = req.seq
    <2>1. req.command \in Commands /\ req.seq \in Nat
      BY DEF RequestRecords
    <2> QED BY <2>1 DEF Response, Messages, IsResponse, NoThread
  <1>3. NoThread \in {0, 1}
    BY DEF NoThread
  <1> QED BY <1>1, <1>2, <1>3 DEF Event

LEMMA AnswersServe ==
  ASSUME AdaptersTyped, NEW a \in DOMAIN adapters, adapters[a].requests # <<>>,
         LET req == Head(adapters[a].requests) IN
             \/ AnswerRequest(a, req, targets[a]) \/ RejectRequest(a, req, targets[a])
             \/ req.command = "launch" /\ EndsAtOnce(a, req, targets[a])
  PROVE  Serves(a)
  <1> DEFINE req == Head(adapters[a].requests)
             t == targets[a]
             r == Response(req, TRUE)
             no == Response(req, FALSE)
             K(tables) == Told(a) \cup Replies(a, tables)
             new == Tables(t.tables, req)
  <1>1. t \in Targets /\ t.tables \in SUBSET Points
    BY AdapterTypes
  <1>2. req \in RequestRecords
    <2>1. adapters[a].requests \in Seq(RequestRecords)
      BY AdapterTypes
    <2> QED BY <2>1, TailSteps
  <1>3. new \in SUBSET Points
    BY <1>1, <1>2, TablesAreTyped
  <1>4. t.owed \in Seq(Told(a)) /\ <<>> \in Seq(Told(a))
    BY OwedIsTold
  <1>5. ASSUME NEW tables PROVE no \in K(tables) /\ (req.command \notin Changes => r \in K(tables))
    BY <1>2, MessagesAreTyped DEF Replies
  <1>6. ASSUME NEW full \in BOOLEAN, req.command \notin Changes, NEW tables
        PROVE  [r EXCEPT !.full = full] \in K(tables)
    BY <1>2, <1>6, MessagesAreTyped DEF Replies
  <1>7. r \in K(new)
    BY <1>2, MessagesAreTyped DEF Replies
  <1>8. \A tables, name : name \in {"initialized", "exited", "terminated"} => Event(name) \in K(tables)
    BY MessagesAreTyped DEF Told
  <1>9. \A tables : Told(a) \subseteq K(tables) /\ K(tables) \subseteq Messages
    BY DEF Told, Replies
  <1> HIDE DEF K, r, no
  <1>10. \A tables, s : /\ s \in Seq(Told(a)) => s \in Seq(K(tables))
                        /\ s \in Seq(K(tables)) => s \in Seq(Messages)
    BY <1>9
  <1>11. ASSUME NEW u \in Targets, NEW sent, Does(a, u, sent), u.tables \in {t.tables, new},
                sent \in Seq(K(u.tables)), u.owed \in Seq(K(u.tables))
         PROVE  Serves(a)
    <2> USE DEF K
    <2> QED BY <1>11, DoesServes
  <1>12. ASSUME req.command \notin Changes, Launches(a, req, t) PROVE Serves(a)
    <2> DEFINE u == [t EXCEPT !.program = "loaded"]
               v == [u EXCEPT !.owed = <<r>>]
    <2>1. u \in Targets /\ u.tables = t.tables /\ u.owed = t.owed
      BY <1>1, TargetsAct
    <2>2. r \in K(t.tables) /\ Event("initialized") \in K(t.tables)
      BY <1>5, <1>8, <1>12
    <2>3. /\ <<r>> \in Seq(K(t.tables)) /\ <<Event("initialized")>> \in Seq(K(t.tables))
          /\ <<r, Event("initialized")>> \in Seq(K(t.tables))
          /\ <<Event("initialized"), r>> \in Seq(K(t.tables))
      BY <2>2
    <2>4. \/ Does(a, v, <<Event("initialized")>>)
          \/ Does(a, u, <<r, Event("initialized")>>)
          \/ Does(a, u, <<Event("initialized"), r>>)
      BY <1>12 DEF Launches, r
    <2> HIDE DEF u
    <2>5. v \in Targets /\ v.tables = t.tables /\ v.owed = <<r>>
      <3> DEFINE owed == <<r>>
      <3>1. owed \in Seq(Messages)
        BY <1>10, <2>3
      <3> HIDE DEF owed
      <3>2. [u EXCEPT !.owed = owed] \in Targets /\ [u EXCEPT !.owed = owed].tables = t.tables
            /\ [u EXCEPT !.owed = owed].owed = owed
        BY <2>1, <3>1, TargetsAct
      <3> QED BY <3>2 DEF owed
    <2> HIDE DEF v
    <2> QED BY <1>4, <1>10, <1>11, <2>1, <2>3, <2>4, <2>5
  <1>13. ASSUME req.command \notin Changes, Runs(a, req, t) PROVE Serves(a)
    <2> DEFINE u == [t EXCEPT !.program = "running"]
               v == [u EXCEPT !.owed = <<>>]
               w == [u EXCEPT !.owed = @ \o <<r>>]
               one == <<r>> \o t.owed
               two == t.owed \o <<r>>
    <2>1. u \in Targets /\ u.tables = t.tables /\ u.owed = t.owed
      BY <1>1, TargetsAct
    <2>2. <<r>> \in Seq(K(t.tables)) /\ t.owed \in Seq(K(t.tables)) /\ <<>> \in Seq(K(t.tables))
      BY <1>4, <1>5, <1>10, <1>13
    <2>3. one \in Seq(K(t.tables)) /\ two \in Seq(K(t.tables))
      BY <2>2
    <2>4. Does(a, v, one) \/ Does(a, w, <<>>)
      BY <1>13 DEF Runs, r
    <2> HIDE DEF u
    <2>5. w = [u EXCEPT !.owed = two]
      BY <2>1
    <2> HIDE DEF one, two
    <2>8. ASSUME NEW owed \in Seq(Messages)
          PROVE  /\ [u EXCEPT !.owed = owed] \in Targets
                 /\ [u EXCEPT !.owed = owed].tables = t.tables
                 /\ [u EXCEPT !.owed = owed].owed = owed
      BY <2>1, TargetsAct
    <2>6. v \in Targets /\ v.tables = t.tables /\ v.owed = <<>>
      <3>1. <<>> \in Seq(Messages)
        OBVIOUS
      <3> QED BY <2>8, <3>1, Zenon
    <2>7. w \in Targets /\ w.tables = t.tables /\ w.owed = two
      <3>1. two \in Seq(Messages)
        BY <1>10, <2>3
      <3> QED BY <2>5, <2>8, <3>1, Zenon
    <2> HIDE DEF v, w
    <2> QED BY <1>11, <2>2, <2>3, <2>4, <2>6, <2>7
  <1>14. ASSUME req.command \notin Changes, EndsAtOnce(a, req, t) PROVE Serves(a)
    <2> DEFINE u == [t EXCEPT !.program = "gone"]
    <2>1. u \in Targets /\ u.tables = t.tables /\ u.owed = t.owed
      BY <1>1, TargetsAct
    <2>2. <<r, Event("exited"), Event("terminated")>> \in Seq(K(t.tables))
      BY <1>5, <1>8, <1>14
    <2>3. Does(a, u, <<r, Event("exited"), Event("terminated")>>)
      BY <1>14 DEF EndsAtOnce, r
    <2> HIDE DEF u
    <2> QED BY <1>4, <1>10, <1>11, <2>1, <2>2, <2>3
  <1>15. ASSUME NEW tables \in {t.tables, new}, NEW m \in K(tables),
                Does(a, [t EXCEPT !.tables = tables], <<m>>)
         PROVE  Serves(a)
    <2> DEFINE u == [t EXCEPT !.tables = tables]
    <2>1. u \in Targets /\ u.tables = tables /\ u.owed = t.owed
      BY ZenonT(60), <1>1, <1>3, TargetsAct
    <2>2. <<m>> \in Seq(K(tables))
      OBVIOUS
    <2> HIDE DEF u
    <2> QED BY <1>4, <1>10, <1>11, <1>15, <2>1, <2>2 DEF u
  <1>16. ASSUME NEW m \in K(t.tables), Does(a, t, <<m>>) PROVE Serves(a)
    <2>1. <<m>> \in Seq(K(t.tables))
      OBVIOUS
    <2> QED BY <1>1, <1>4, <1>10, <1>11, <1>16, <2>1
  <1>17. ASSUME RejectRequest(a, req, t) PROVE Serves(a)
    BY <1>5, <1>15, <1>17 DEF RejectRequest, no
  <1>18. ASSUME AnswerRequest(a, req, t) PROVE Serves(a)
    <2>1. \/ req.command = "launch" /\ Launches(a, req, t)
          \/ req.command \in {"configurationDone"} \cup Resumptions /\ Runs(a, req, t)
          \/ Does(a, t, <<no>>)
          \/ /\ req.command = "stackTrace"
             /\ \E full \in BOOLEAN : Does(a, t, <<[r EXCEPT !.full = full]>>)
          \/ Does(a, [t EXCEPT !.tables = Tables(@, req)], <<r>>)
      BY <1>18, Zenon DEF AnswerRequest, r, no
    <2>2. req.command \in {"launch", "configurationDone", "stackTrace"} \cup Resumptions
             => req.command \notin Changes
      BY DEF Changes, Resumptions
    <2>3. ASSUME Does(a, [t EXCEPT !.tables = Tables(@, req)], <<r>>) PROVE Serves(a)
      <3>1. Does(a, [t EXCEPT !.tables = new], <<r>>)
        BY <2>3
      <3> HIDE DEF new
      <3> QED BY <1>7, <1>15, <3>1
    <2> QED BY <1>5, <1>6, <1>12, <1>13, <1>16, <2>1, <2>2, <2>3
  <1>19. req.command = "launch" => req.command \notin Changes
    BY DEF Changes
  <1> QED BY <1>14, <1>17, <1>18, <1>19

LEMMA SendsSpeaks ==
  ASSUME AdaptersTyped, NEW a \in DOMAIN adapters, NEW sent \in Seq(Told(a)),
         NEW t \in Targets, t.tables = targets[a].tables, t.owed \in Seq(Told(a)),
         adapters' = [adapters EXCEPT ![a] = Sent(@, sent)],
         targets' = [targets EXCEPT ![a] = t]
  PROVE  Speaks(a)
  <1> DEFINE p == Sent(adapters[a], sent)
  <1>1. adapters[a] \in Processes /\ adapters[a].messages \in Seq(Told(a))
        /\ targets \in Seq(Targets) /\ DOMAIN targets = DOMAIN adapters
    BY AdapterTypes, OwedIsTold DEF AdaptersTyped
  <1>2. sent \in Seq(Messages)
    <2>1. Told(a) \subseteq Messages
      BY DEF Told
    <2> QED BY <2>1
  <1>3. /\ p \in Processes /\ p.open = adapters[a].open
        /\ p.requests = adapters[a].requests
        /\ p.messages = adapters[a].messages \o sent
    BY <1>1, <1>2, ProcessesAct
  <1>4. adapters' = [adapters EXCEPT ![a] = p]
    OBVIOUS
  <1> HIDE DEF p
  <1>5. adapters'[a] = p /\ targets'[a] = t
    BY <1>1, <1>4
  <1>6. OneActs(a)
    BY <1>3, <1>4, <1>5 DEF OneActs
  <1>7. adapters[a].messages \o sent \in Seq(Told(a))
    BY <1>1
  <1>8. ASSUME NEW m \in Heard(a)' PROVE m \in Told(a)
    <2>1. \/ \E i \in DOMAIN p.messages : m = p.messages[i]
          \/ \E i \in DOMAIN t.owed : m = t.owed[i]
      BY <1>5 DEF Heard
    <2> QED BY <1>3, <1>7, <2>1
  <1> QED BY <1>3, <1>5, <1>6, <1>8 DEF Speaks

LEMMA ExitSpeaks ==
  ASSUME AdaptersTyped, NEW a \in DOMAIN adapters, NEW p \in Processes,
         adapters' = [adapters EXCEPT ![a] = p], NEW t \in Targets,
         targets' = [targets EXCEPT ![a] = t],
         p.open = adapters[a].open, p.requests = adapters[a].requests,
         p.messages = adapters[a].messages,
         t.tables = targets[a].tables, t.owed = targets[a].owed
  PROVE  Speaks(a)
  <1>1. adapters'[a] = p /\ targets'[a] = t
    BY DEF AdaptersTyped
  <1>2. OneActs(a)
    BY <1>1 DEF OneActs
  <1>3. ASSUME NEW m \in Heard(a)' PROVE m \in Told(a)
    <2>1. m \in Heard(a)
      BY <1>1 DEF Heard
    <2>2. m \in Messages
      BY <2>1, AdapterTypes DEF Heard
    <2> QED BY <2>1, <2>2 DEF Told
  <1> QED BY <1>1, <1>2, <1>3 DEF Speaks

LEMMA ActsServeOrSpeak ==
  ASSUME AdaptersTyped, NEW a \in DOMAIN adapters, AdapterActs(a)
  PROVE  Serves(a) \/ Speaks(a)
  <1> DEFINE t == targets[a]
             K == Told(a)
  <1>1. /\ t \in Targets /\ adapters[a] \in Processes
        /\ t.owed \in Seq(K) /\ adapters[a].messages \in Seq(K) /\ <<>> \in Seq(K)
        /\ targets \in Seq(Targets) /\ DOMAIN targets = DOMAIN adapters
    BY AdapterTypes, OwedIsTold DEF AdaptersTyped
  <1>2. /\ Event("exited") \in K /\ Event("terminated") \in K
        /\ \A thread \in {0, 1} : EventOf("stopped", thread) \in K
    BY MessagesAreTyped DEF Told
  <1> HIDE DEF K
  <1>3. ASSUME NEW sent \in Seq(K), NEW program \in {"none", "loaded", "running", "stopped", "gone"},
               Tells(a, sent, program)
        PROVE  Speaks(a)
    <2> DEFINE u == [t EXCEPT !.program = program]
               v == [u EXCEPT !.owed = <<>>]
    <2>1. u \in Targets /\ u.tables = t.tables
      BY ZenonT(60), <1>1, TargetsAct
    <2>2. targets' = [targets EXCEPT ![a] = v]
      <3>1. targets' = [targets EXCEPT ![a].program = program, ![a].owed = <<>>]
        BY <1>3 DEF Tells
      <3> QED BY <3>1, <1>1
    <2> HIDE DEF u
    <2>3. v \in Targets /\ v.tables = t.tables /\ v.owed = <<>>
      <3>1. <<>> \in Seq(Messages)
        OBVIOUS
      <3> QED BY <2>1, <3>1, TargetsAct, ZenonT(60)
    <2> HIDE DEF v
    <2>4. adapters' = [adapters EXCEPT ![a] = Sent(@, sent)]
      BY <1>3 DEF Tells
    <2> QED BY <1>1, <2>2, <2>3, <2>4, SendsSpeaks DEF K
  <1>4. ASSUME Serve(a) PROVE Serves(a) \/ Speaks(a)
    <2> DEFINE req == Head(adapters[a].requests)
    <2>1. CASE req.command # "disconnect"
      BY <1>4, <2>1, AnswersServe DEF Serve
    <2>2. CASE req.command = "disconnect"
      <3> DEFINE r == Response(req, TRUE)
                 q == Answered(adapters[a], <<r>>)
                 p == [q EXCEPT !.exit = 0]
                 u == [t EXCEPT !.program = "gone"]
      <3>1. adapters' = [adapters EXCEPT ![a] = p] /\ adapters[a].requests # <<>>
        BY <1>4, <2>2 DEF Serve
      <3>2. targets' = [targets EXCEPT ![a] = u]
        BY <1>1, <1>4, <2>2 DEF Serve
      <3>3. req \in RequestRecords
        <4>1. adapters[a].requests \in Seq(RequestRecords)
          BY AdapterTypes
        <4> QED BY <3>1, <4>1, TailSteps
      <3>4. r \in Messages /\ r \in Replies(a, t.tables)
        <4>1. r \in Messages /\ IsResponse(r) /\ r.to = req.seq
          BY <3>3, MessagesAreTyped
        <4>2. req.command \notin Changes
          BY <2>2 DEF Changes
        <4> QED BY <4>1, <4>2 DEF Replies
      <3> HIDE DEF r
      <3>5. <<r>> \in Seq(Messages)
        BY <3>4
      <3>6. /\ q \in Processes /\ q.open = adapters[a].open
            /\ q.requests = Tail(adapters[a].requests)
            /\ q.messages = adapters[a].messages \o <<r>>
        BY <1>1, <3>1, <3>5, ProcessesAct
      <3> HIDE DEF q
      <3>7. p \in Processes /\ p.open = q.open /\ p.requests = q.requests /\ p.messages = q.messages
        <4>1. \A exit \in Int : /\ [q EXCEPT !.exit = exit] \in Processes
                                /\ [q EXCEPT !.exit = exit].open = q.open
                                /\ [q EXCEPT !.exit = exit].requests = q.requests
                                /\ [q EXCEPT !.exit = exit].messages = q.messages
          BY <3>5, <3>6, ProcessesAct, Zenon
        <4>2. 0 \in Int
          OBVIOUS
        <4> QED BY <4>1, <4>2, Zenon
      <3> HIDE DEF p
      <3>8. u \in Targets /\ u.tables = t.tables /\ u.owed = t.owed
        BY <1>1, TargetsAct
      <3> HIDE DEF u
      <3>9. adapters'[a] = p /\ targets'[a] = u
        BY <1>1, <3>1, <3>2
      <3>10. OneActs(a)
        BY <3>1, <3>2, <3>6, <3>7, <3>8, <3>9 DEF OneActs
      <3>11. ASSUME NEW m \in Heard(a)' PROVE m \in K \cup Replies(a, t.tables)
        <4> DEFINE L == K \cup Replies(a, t.tables)
        <4>1. \/ \E i \in DOMAIN p.messages : m = p.messages[i]
              \/ \E i \in DOMAIN u.owed : m = u.owed[i]
          BY <3>9 DEF Heard
        <4>2. adapters[a].messages \in Seq(L) /\ <<r>> \in Seq(L) /\ t.owed \in Seq(L)
          <5>1. K \subseteq L /\ r \in L
            BY <3>4
          <5> HIDE DEF L
          <5> QED BY <1>1, <5>1
        <4> HIDE DEF L
        <4>3. adapters[a].messages \o <<r>> \in Seq(L)
          BY <4>2
        <4>4. m \in L
          BY <3>6, <3>7, <3>8, <4>1, <4>2, <4>3
        <4> QED BY <4>4 DEF L
      <3> QED BY <3>1, <3>6, <3>7, <3>8, <3>9, <3>10, <3>11 DEF Serves, K
    <2> QED BY <2>1, <2>2
  <1>5. ASSUME PayOwed(a) PROVE Speaks(a)
    <2>1. t.program \in {"none", "loaded", "running", "stopped", "gone"}
      BY <1>1 DEF Targets
    <2> QED BY <1>1, <1>3, <1>5, <2>1 DEF PayOwed
  <1>6. ASSUME ProgramExits(a) \/ Repeats(a) \/ Killed(a) PROVE Speaks(a)
    <2> DEFINE gone == t.owed \o <<Event("exited"), Event("terminated")>>
               again == t.owed \o <<EventOf("stopped", 1)>>
    <2>1. <<Event("exited"), Event("terminated")>> \in Seq(K) /\ <<EventOf("stopped", 1)>> \in Seq(K)
      BY <1>2
    <2>2. gone \in Seq(K) /\ again \in Seq(K)
      BY <1>1, <2>1
    <2>3. Tells(a, gone, "gone") \/ Tells(a, again, "stopped")
      BY <1>6 DEF ProgramExits, Repeats, Killed
    <2> HIDE DEF gone, again
    <2> QED BY <1>3, <2>2, <2>3
  <1>7. ASSUME ProgramStops(a) PROVE Speaks(a)
    <2> DEFINE u == [t EXCEPT !.program = "stopped"]
    <2>1. targets' = [targets EXCEPT ![a] = u]
      BY <1>1, <1>7 DEF ProgramStops
    <2>2. u \in Targets /\ u.tables = t.tables /\ u.owed = t.owed
      BY <1>1, TargetsAct
    <2> HIDE DEF u
    <2>3. PICK thread \in {0, 1} :
              adapters' = [adapters EXCEPT ![a] = Sent(@, <<EventOf("stopped", thread)>>)]
      BY <1>7 DEF ProgramStops, NoThread
    <2>4. <<EventOf("stopped", thread)>> \in Seq(K)
      BY <1>2
    <2> QED BY <1>1, <2>1, <2>2, <2>3, <2>4, SendsSpeaks DEF K
  <1>8. ASSUME Duplicates(a) PROVE Speaks(a)
    <2> DEFINE sent == adapters[a].messages
               m == sent[Len(sent)]
    <2>1. adapters' = [adapters EXCEPT ![a] = Sent(@, <<m>>)] /\ targets' = targets /\ sent # <<>>
      BY <1>8 DEF Duplicates
    <2>2. m \in K
      BY <1>1, <2>1
    <2> HIDE DEF m
    <2>3. <<m>> \in Seq(K)
      BY <2>2
    <2>4. targets' = [targets EXCEPT ![a] = t]
      BY <1>1, <2>1
    <2> QED BY <1>1, <2>1, <2>3, <2>4, SendsSpeaks DEF K
  <1>9. ASSUME Dies(a) PROVE Speaks(a)
    <2> DEFINE p == [adapters[a] EXCEPT !.exit = 1]
               u == [t EXCEPT !.program = "gone"]
    <2>1. adapters' = [adapters EXCEPT ![a] = p] /\ targets' = [targets EXCEPT ![a] = u]
      BY <1>1, <1>9 DEF Dies, AdaptersTyped
    <2>2. u \in Targets /\ u.tables = t.tables /\ u.owed = t.owed
      BY <1>1, TargetsAct
    <2>3. /\ p \in Processes /\ p.open = adapters[a].open
          /\ p.requests = adapters[a].requests /\ p.messages = adapters[a].messages
      <3> DEFINE q == adapters[a]
      <3>1. <<>> \in Seq(Messages) /\ 1 \in Int /\ q \in Processes
        BY <1>1
      <3> HIDE DEF q
      <3>2. \A exit \in Int : /\ [q EXCEPT !.exit = exit] \in Processes
                              /\ [q EXCEPT !.exit = exit].open = q.open
                              /\ [q EXCEPT !.exit = exit].requests = q.requests
                              /\ [q EXCEPT !.exit = exit].messages = q.messages
        BY <3>1, ProcessesAct, Zenon
      <3>3. /\ [q EXCEPT !.exit = 1] \in Processes
            /\ [q EXCEPT !.exit = 1].open = q.open
            /\ [q EXCEPT !.exit = 1].requests = q.requests
            /\ [q EXCEPT !.exit = 1].messages = q.messages
        BY <3>1, <3>2, Zenon
      <3> QED BY <3>3 DEF q
    <2> HIDE DEF u, p
    <2> QED BY <2>1, <2>2, <2>3, ExitSpeaks
  <1> QED BY <1>4, <1>5, <1>6, <1>7, <1>8, <1>9 DEF AdapterActs

LEMMA ActsTyped ==
  ASSUME Typed, AdaptersAct
  PROVE  Typed'
  <1>1. PICK a \in DOMAIN adapters : AdapterActs(a)
    BY DEF AdaptersAct
  <1>2. /\ AdaptersTyped /\ adapters \in Seq(Processes) /\ targets \in Seq(Targets)
        /\ DOMAIN targets = DOMAIN adapters /\ exec \in Executions
    BY DEF Typed, AdaptersTyped, ExecutionTyped
  <1>3. UNCHANGED <<prep, exec, applied, op, view, answer>>
    BY DEF AdaptersAct
  <1>4. Serves(a) \/ Speaks(a)
    BY <1>1, <1>2, ActsServeOrSpeak
  <1>5. /\ adapters' = [adapters EXCEPT ![a] = adapters'[a]] /\ adapters'[a] \in Processes
        /\ targets' = [targets EXCEPT ![a] = targets'[a]] /\ targets'[a] \in Targets
        /\ adapters'[a].open = adapters[a].open
    BY <1>4 DEF Serves, Speaks, OneActs
  <1>6. /\ adapters' \in Seq(Processes) /\ Len(adapters') = Len(adapters)
        /\ DOMAIN adapters' = DOMAIN adapters
        /\ \A b \in DOMAIN adapters : b # a => adapters'[b] = adapters[b]
    <2> DEFINE p == adapters'[a]
    <2>1. adapters' = [adapters EXCEPT ![a] = p] /\ p \in Processes
      BY <1>5
    <2> HIDE DEF p
    <2>2. a \in 1 .. Len(adapters)
      BY <1>2
    <2>3. /\ [adapters EXCEPT ![a] = p] \in Seq(Processes)
          /\ Len([adapters EXCEPT ![a] = p]) = Len(adapters)
          /\ \A b \in 1 .. Len(adapters) :
                [adapters EXCEPT ![a] = p][b] = IF b = a THEN p ELSE adapters[b]
      BY <1>2, <2>1, <2>2, ExceptSeq
    <2> QED BY <1>2, <2>1, <2>3
  <1>7. /\ targets' \in Seq(Targets) /\ DOMAIN targets' = DOMAIN adapters'
        /\ \A b \in DOMAIN adapters : b # a => targets'[b] = targets[b]
    <2> DEFINE t == targets'[a]
    <2>1. targets' = [targets EXCEPT ![a] = t] /\ t \in Targets
      BY <1>5
    <2> HIDE DEF t
    <2>2. a \in 1 .. Len(targets)
      BY <1>2
    <2>3. /\ [targets EXCEPT ![a] = t] \in Seq(Targets)
          /\ Len([targets EXCEPT ![a] = t]) = Len(targets)
          /\ \A b \in 1 .. Len(targets) :
                [targets EXCEPT ![a] = t][b] = IF b = a THEN t ELSE targets[b]
      BY <1>2, <2>1, <2>2, ExceptSeq
    <2> QED BY <1>2, <1>6, <2>1, <2>3
  <1>8. ASSUME adapters[a].open PROVE Numbered(a, NextNumber(a))'
    <2> DEFINE n == NextNumber(a)
    <2>1. NextNumber(a)' = n /\ n \in Nat \ {0, 1}
      BY <1>2, <1>3 DEF NextNumber, Executions
    <2>2. Numbered(a, n)
      BY <1>2, <1>8 DEF AdaptersTyped
    <2>3. ASSUME adapters[a].requests # <<>>
          PROVE  Head(adapters[a].requests).seq < n
      <3>1. adapters[a].requests \in Seq(RequestRecords)
        BY <1>2, AdapterTypes
      <3>2. 1 \in DOMAIN adapters[a].requests /\ Head(adapters[a].requests) = adapters[a].requests[1]
        BY <2>3, <3>1, TailSteps
      <3> QED BY <2>2, <3>2 DEF Numbered
    <2>4. \A m \in Heard(a)' : m.to < n
      <3>1. \A m \in Told(a) : m.to < n
        BY <2>1, <2>2 DEF Told, Numbered
      <3>2. ASSUME NEW tables, adapters[a].requests # <<>>, NEW m \in Replies(a, tables)
            PROVE m.to < n
        BY <2>3, <3>2 DEF Replies
      <3> QED BY <1>4, <3>1, <3>2 DEF Serves, Speaks
    <2>5. \A i \in DOMAIN adapters'[a].requests : adapters'[a].requests[i].seq < n
      <3>1. adapters[a].requests \in Seq(RequestRecords)
        BY <1>2, AdapterTypes
      <3>2. CASE Speaks(a)
        BY <2>2, <3>2 DEF Speaks, Numbered
      <3>3. CASE Serves(a)
        <4>1. adapters[a].requests # <<>> /\ adapters'[a].requests = Tail(adapters[a].requests)
          BY <3>3 DEF Serves
        <4>2. \A i \in DOMAIN adapters'[a].requests :
                  /\ i + 1 \in DOMAIN adapters[a].requests
                  /\ adapters'[a].requests[i] = adapters[a].requests[i + 1]
          BY <3>1, <4>1, TailSteps
        <4> QED BY <2>2, <4>2 DEF Numbered
      <3> QED BY <1>4, <3>2, <3>3
    <2> HIDE DEF n
    <2> QED BY <2>1, <2>4, <2>5 DEF Numbered
  <1>9. ASSUME NEW b \in DOMAIN adapters', adapters'[b].open PROVE Numbered(b, NextNumber(b))'
    <2>1. CASE b = a
      BY <1>5, <1>8, <1>9, <2>1
    <2>2. CASE b # a
      BY <1>2, <1>3, <1>6, <1>7, <1>9, <2>2 DEF AdaptersTyped, Numbered, Heard, NextNumber
    <2> QED BY <2>1, <2>2
  <1>10. AdaptersTyped'
    BY <1>6, <1>7, <1>9 DEF AdaptersTyped
  <1>11. ExecutionTyped'
    <2>1. Has => adapters'[exec.adapter].open
      BY <1>5, <1>6 DEF Typed, ExecutionTyped
    <2> QED BY <1>3, <1>6, <2>1 DEF Typed, ExecutionTyped, Has
  <1> QED BY <1>3, <1>10, <1>11 DEF Typed

-----------------------------------------------------------------------------
(* The theorems.                                                             *)

LEMMA InitiallyTyped == SystemInit => Typed
  <1> SUFFICES ASSUME SystemInit PROVE Typed
    OBVIOUS
  <1>1. /\ adapters = <<>> /\ targets = <<>> /\ prep = Spawned /\ exec = NoExecution
        /\ applied = {} /\ op = Idle /\ view = Viewing("Ready") /\ answer = "none"
    BY DEF SystemInit, Init
  <1>2. exec \in Executions /\ Coherent(exec) /\ exec.adapter = 0
    BY <1>1, NoExecutionTyped DEF NoExecution
  <1>3. AdaptersTyped
    BY <1>1 DEF AdaptersTyped
  <1>4. ExecutionTyped
    BY <1>1, <1>2 DEF ExecutionTyped, Has, Spawned
  <1> QED BY <1>1, <1>3, <1>4, IdleOperates, ViewsAreTyped DEF Typed, AnswersGiven

LEMMA ClientTyped ==
  ASSUME IInv, Typed, EndClosed, Proceed
  PROVE  Typed'
  <1>1. CASE PrepareStart \/ PrepareRead \/ TakePreparation
    BY <1>1, PrepareStartTyped, PrepareReadTyped, TakePreparationTyped
  <1>2. CASE Send
    BY <1>2, SendTyped
  <1>3. CASE SkipDisconnect \/ TakeBuffered \/ Receive \/ ReadEnd \/ WaitEnds \/ Outcome
             \/ LoadWindow
    BY <1>3, StepTyped
  <1>4. CASE Release \/ Complete \/ Discard
    BY <1>4, EndsTyped
  <1>5. CASE Close \/ Unreadable \/ Return
    BY <1>5, CloseTyped, UnreadableTyped, ReturnTyped
  <1> QED BY <1>1, <1>2, <1>3, <1>4, <1>5 DEF Proceed

LEMMA StepIsTyped == IInv /\ Typed /\ [Next]_system => Typed'
  <1> SUFFICES ASSUME IInv, Typed, [Next]_system PROVE Typed'
    OBVIOUS
  <1>1. CASE UserCalls
    BY <1>1, UserTyped
  <1>2. CASE ClientActs
    BY <1>2, ClientTyped DEF ClientActs
  <1>3. CASE TimeActs
    BY <1>3, StepTyped, TimeTyped DEF TimeActs
  <1>4. CASE AdaptersAct
    BY <1>4, ActsTyped
  <1>5. CASE UNCHANGED system
    BY <1>5 DEF system, Typed, AdaptersTyped, ExecutionTyped, Numbered, Heard, NextNumber, Has
  <1> QED BY <1>1, <1>2, <1>3, <1>4, <1>5 DEF Next

\* The types hold with what keeps them: the requests of an adapter carry numbers that
\* were given out and it answers no others, the families in use are installed, and
\* a step of an operation enables installed families only
\* (lldb_dap/session.mbt, breakpoint.mbt, dispatcher.mbt).
THEOREM TypesHold == Spec => []Typed
  BY InitiallyTyped, StepIsTyped, Invariant, PTL DEF Spec

\* What is cached of a stop is within it, the families in use are among those
\* installed, and a response is kept only for a request that was sent, for any
\* catalog, number of operations and faults (stack.mbt, breakpoint.mbt:402-506,
\* dispatcher.mbt:60-110).
THEOREM TypesAreCorrect == Spec => []TypeOK
  <1>1. IInv /\ Typed => TypeOK
    <2> SUFFICES ASSUME IInv, Typed PROVE TypeOK
      OBVIOUS
    <2>1. exec \in Executions /\ Coherent(exec) /\ view \in Views /\ answer \in AnswersGiven
          /\ applied \subseteq Points
      BY DEF Typed, ExecutionTyped
    <2>2. prep.adapter \in 0 .. Len(adapters) /\ exec.adapter \in 0 .. Len(adapters)
      BY DEF Typed, ExecutionTyped, AdaptersTyped, Has
    <2>3. /\ exec.state \in States /\ exec.handles \subseteq Families
          /\ exec.read \subseteq {"scopes", "variables"} /\ exec.frames \in Nat
      BY <2>1 DEF Executions
    <2>4. view.phase \in {"Ready", "Running", "Stopped", "Exited"}
      BY <2>1 DEF Views
    <2> QED BY <2>1, <2>2, <2>3, <2>4 DEF TypeOK, Coherent, States, AnswersGiven
  <1> QED BY <1>1, Invariant, TypesHold, PTL

=============================================================================
