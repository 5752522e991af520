-------------------------- MODULE LiveOrderProofs --------------------------
(***************************************************************************)
(* Execution does not outrun installation: a resume of the editor reaches  *)
(* lldb-dap only when every breakpoint request sent before it is answered. *)
(* Nothing is stranded: what waits in the session waits for work that      *)
(* somebody has in hand.  At rest the editor, the session and the target   *)
(* are of one mind.  And a stop is skipped on a true verdict only.         *)
(*                                                                         *)
(* For the order three things are shown of every state, each inductive     *)
(* with those of LiveStopsProofs: the session knows when the target stands *)
(* still, since what tells so travels alone (TokensInv); a stop that is    *)
(* held, or whose conditions are evaluated, keeps the session where it is  *)
(* (HeldInv); and deferred requests keep the order they were sent in       *)
(* (LateInv).  For the second four more, each saying where work is that    *)
(* the session waits for: the stop under evaluation is with the condition  *)
(* worker (JudgedInv), a replacement of source breakpoints is in the       *)
(* router (ReplacingInv), what is in the router travels, is with lldb-dap  *)
(* or is answered (TravelInv), and an exit is followed by the end of the   *)
(* session (FollowedInv).  For the third, what the editor was shown        *)
(* (ViewInv) and, for each way in which session and target may differ, the *)
(* message that ends the difference (WhereInv).  For the last (TruthInv),  *)
(* that a verdict on its way is about the stop the session is at, read     *)
(* where the target still is, by the rules that still hold.                *)
(*                                                                         *)
(* All need a target that reports a stop once: with PairedStops the code   *)
(* lets the second report overtake, which the run PairedOvertake shows.    *)
(***************************************************************************)
EXTENDS LiveStopsProofs

-----------------------------------------------------------------------------
(* Whether the target stands still, and who knows it.  Of what tells so, one  *)
(* thing is on its way at a time: the resume that makes it run, the refusal   *)
(* of one, or the stop that was not heard of yet.                            *)

Resuming(i) == i \in 1 .. Len(toAdapter) /\ Resumes(toAdapter[i].command)
Stopping(i) == i \in 1 .. Len(fromAdapter) /\ fromAdapter[i].type = "stopped"
GoingAhead(i) == i \in 1 .. Len(fromAdapter) /\ fromAdapter[i].type = "continued"
Refusing(i) == i \in 1 .. Len(fromAdapter) /\ Refusal(fromAdapter[i])

Still == target.state = "stopped" \/ ~target.alive
Unsettled == \E i : Stopping(i) \/ GoingAhead(i) \/ Refusing(i)

\* The session knows that the target stands still.
KnowsStop == session.stopped => Still /\ ~Unsettled /\ \A i : ~Resuming(i)

\* A resume on its way is the only one, and of the current revision.
ResumesAlone ==
    /\ \A i : Resuming(i) => /\ Still /\ ~Unsettled
                             /\ toAdapter[i].revision = session.revision
    /\ \A i, j : Resuming(i) /\ Resuming(j) => i = j

\* So is the refusal of one.
RefusedAlone ==
    /\ \A i : Refusing(i) => /\ Still
                             /\ fromAdapter[i].request.revision = session.revision
    /\ \A i, j : Refusing(i) => /\ ~Stopping(j) /\ ~GoingAhead(j)
                                /\ Refusing(j) => i = j

\* A stop is the last that was said of the target, and the target is still there.
StopsLast ==
    /\ \A i : Stopping(i) => Still /\ fromAdapter[i].stop.no = target.no
    /\ \A i, j : Stopping(i) => /\ Stopping(j) => i = j
                                /\ GoingAhead(j) => j < i

TokensInv == Live => KnowsStop /\ ResumesAlone /\ RefusedAlone /\ StopsLast

\* The same messages are on their way.
LEMMA TokensStay ==
    ASSUME KnowsStop, ResumesAlone, RefusedAlone, StopsLast,
           UNCHANGED <<fromAdapter, target>>,
           session'.stopped = session.stopped,
           \A i : Resuming(i)' => /\ Resuming(i) /\ toAdapter'[i] = toAdapter[i]
                                  /\ session'.revision = session.revision,
           \A i : Refusing(i) => session'.revision = session.revision
    PROVE  (KnowsStop /\ ResumesAlone /\ RefusedAlone /\ StopsLast)'
<1>1. /\ \A i : (Stopping(i)' <=> Stopping(i)) /\ (GoingAhead(i)' <=> GoingAhead(i))
                /\ (Refusing(i)' <=> Refusing(i))
      /\ Still' <=> Still
    BY DEF Stopping, GoingAhead, Refusing, Still
<1>2. Unsettled' <=> Unsettled
    BY <1>1 DEF Unsettled
<1>3. KnowsStop'
    BY <1>1, <1>2 DEF KnowsStop
<1>4. ResumesAlone'
    BY <1>1, <1>2 DEF ResumesAlone
<1>5. RefusedAlone'
    BY <1>1, <1>2 DEF RefusedAlone
<1>6. StopsLast'
    BY <1>1 DEF StopsLast
<1> QED BY <1>3, <1>4, <1>5, <1>6

LEMMA TokensOwn ==
    ASSUME Types, KnowsStop, ResumesAlone, RefusedAlone, StopsLast,
           conditions.active # NoJob => session.stopped, OwnStep, Live'
    PROVE  (KnowsStop /\ ResumesAlone /\ RefusedAlone /\ StopsLast)'
<1>0. /\ SendsLittle /\ UNCHANGED <<fromAdapter, target>> /\ Turn
      /\ session.stopped \in BOOLEAN
      /\ Len(toAdapter) \in Nat
    BY DEF OwnStep, Types, Flags
<1>1. CASE Same
    <2>1. \A i : Resuming(i)' => Resuming(i) /\ toAdapter'[i] = toAdapter[i]
        <3>1. CASE toAdapter' = toAdapter
            BY <3>1 DEF Resuming
        <3>2. CASE \E p : Sends(p)
            <4>1. PICK p : Sends(p)
                BY <3>2
            <4>2. PICK ps \in SUBSET pending : Goes(p, ps)
                BY <4>1 DEF Sends
            <4>3. ~Resumes(p.command)
                BY <1>1, <4>1 DEF Same, Sends
            <4> QED BY <1>0, <4>2, <4>3, Grown DEF Resuming
        <3> QED BY <1>0, <3>1, <3>2 DEF SendsLittle
    <2> QED BY <1>0, <1>1, <2>1, TokensStay DEF Same
<1>2. CASE \E p : Sends(p) /\ Resumes(p.command)
    <2>1. PICK p : Sends(p) /\ Resumes(p.command)
        BY <1>2
    <2>2. PICK ps \in SUBSET pending : Goes(p, ps)
        BY <2>1 DEF Sends
    <2>3. /\ session.stopped /\ ~session'.stopped /\ p.revision = session'.revision
        BY <2>1 DEF Sends
    <2>4. Still /\ ~Unsettled /\ \A i : ~Resuming(i)
        BY <2>3 DEF KnowsStop
    <2>5. \A i : Resuming(i)' => i = Len(toAdapter) + 1 /\ toAdapter'[i] = p
        BY <1>0, <2>2, <2>4, Grown DEF Resuming
    <2>6. Still' /\ \A i : ~Stopping(i)' /\ ~GoingAhead(i)' /\ ~Refusing(i)'
        BY <1>0, <2>4 DEF Still, Unsettled, Stopping, GoingAhead, Refusing
    <2>7. KnowsStop' /\ RefusedAlone' /\ StopsLast' /\ ~Unsettled'
        BY <2>3, <2>6 DEF KnowsStop, RefusedAlone, StopsLast, Unsettled
    <2>8. ResumesAlone'
        BY <2>3, <2>5, <2>6, <2>7 DEF ResumesAlone
    <2> QED BY <2>7, <2>8
<1>3. CASE /\ conditions.active # NoJob /\ toAdapter' = toAdapter
           /\ session'.stopped = session.stopped
    <2>1. \A i : ~Resuming(i) /\ ~Refusing(i)
        BY <1>3 DEF KnowsStop, Unsettled
    <2> QED BY <1>0, <1>3, <2>1, TokensStay DEF Resuming
<1> QED BY <1>0, <1>1, <1>2, <1>3 DEF Turn

\* A message is taken off the queue.
LEMMA TokensShift ==
    ASSUME Types, fromAdapter # <<>>, fromAdapter' = Tail(fromAdapter)
    PROVE  /\ \A i : Stopping(i)' => /\ i \in Nat /\ i > 0 /\ Stopping(i + 1)
                                     /\ fromAdapter'[i] = fromAdapter[i + 1]
           /\ \A i : GoingAhead(i)' => i \in Nat /\ i > 0 /\ GoingAhead(i + 1)
           /\ \A i : Refusing(i)' => /\ i \in Nat /\ i > 0 /\ Refusing(i + 1)
                                     /\ fromAdapter'[i] = fromAdapter[i + 1]
           /\ Unsettled' => Unsettled
           /\ Head(fromAdapter).type = "stopped" => Stopping(1)
           /\ Head(fromAdapter).type = "continued" => GoingAhead(1)
           /\ Refusal(Head(fromAdapter)) => Refusing(1)
<1>1. /\ 1 \in 1 .. Len(fromAdapter) /\ Head(fromAdapter) = fromAdapter[1]
      /\ \A i \in 1 .. Len(fromAdapter') :
            i + 1 \in 1 .. Len(fromAdapter) /\ fromAdapter'[i] = fromAdapter[i + 1]
    BY Heard
<1>2. /\ \A i : Stopping(i)' => /\ i \in Nat /\ i > 0 /\ Stopping(i + 1)
                                /\ fromAdapter'[i] = fromAdapter[i + 1]
      /\ \A i : GoingAhead(i)' => i \in Nat /\ i > 0 /\ GoingAhead(i + 1)
      /\ \A i : Refusing(i)' => /\ i \in Nat /\ i > 0 /\ Refusing(i + 1)
                                /\ fromAdapter'[i] = fromAdapter[i + 1]
    BY <1>1 DEF Stopping, GoingAhead, Refusing
<1>3. Unsettled' => Unsettled
    BY <1>2 DEF Unsettled
<1>4. /\ Head(fromAdapter).type = "stopped" => Stopping(1)
      /\ Head(fromAdapter).type = "continued" => GoingAhead(1)
      /\ Refusal(Head(fromAdapter)) => Refusing(1)
    BY <1>1 DEF Stopping, GoingAhead, Refusing
<1> QED BY <1>2, <1>3, <1>4

LEMMA TokensHeard ==
    ASSUME Types, KnowsStop, ResumesAlone, RefusedAlone, StopsLast,
           NEW m, MessageStep(m), Live'
    PROVE  (KnowsStop /\ ResumesAlone /\ RefusedAlone /\ StopsLast)'
<1>0. /\ SendsLittle /\ UNCHANGED target /\ Follow(m) /\ session.stopped \in BOOLEAN
      /\ fromAdapter # <<>> /\ m = Head(fromAdapter) /\ fromAdapter' = Tail(fromAdapter)
      /\ Len(toAdapter) \in Nat /\ session.revision \in Nat
    BY DEF MessageStep, Types, Flags
<1>1. /\ \A i : Stopping(i)' => /\ i \in Nat /\ i > 0 /\ Stopping(i + 1)
                                /\ fromAdapter'[i] = fromAdapter[i + 1]
      /\ \A i : GoingAhead(i)' => i \in Nat /\ i > 0 /\ GoingAhead(i + 1)
      /\ \A i : Refusing(i)' => /\ i \in Nat /\ i > 0 /\ Refusing(i + 1)
                                /\ fromAdapter'[i] = fromAdapter[i + 1]
      /\ Unsettled' => Unsettled
      /\ m.type = "stopped" => Stopping(1)
      /\ m.type = "continued" => GoingAhead(1)
      /\ Refusal(m) => Refusing(1)
    BY <1>0, TokensShift
<1>2. Still' <=> Still
    BY <1>0 DEF Still
\* What is sent meanwhile is no resume.
<1>3. \A i : Resuming(i)' => Resuming(i) /\ toAdapter'[i] = toAdapter[i]
    <2>1. CASE toAdapter' = toAdapter
        BY <2>1 DEF Resuming
    <2>2. CASE \E p : Sends(p)
        <3>1. PICK p : Sends(p)
            BY <2>2
        <3>2. PICK ps \in SUBSET pending : Goes(p, ps)
            BY <3>1 DEF Sends
        <3>3. ASSUME Resumes(p.command) PROVE FALSE
            <4>1. session.stopped /\ ~session'.stopped /\ session'.revision = session.revision + 1
                BY <3>1, <3>3 DEF Sends
            <4>2. m.type = "continued"
                BY <1>0, <4>1 DEF Follow
            <4> QED BY <1>1, <4>1, <4>2 DEF KnowsStop, Unsettled
        <3> QED BY <1>0, <3>2, <3>3, Grown DEF Resuming
    <2> QED BY <1>0, <2>1, <2>2 DEF SendsLittle
<1>4. StopsLast'
    <2>1. \A i : Stopping(i)' => Still' /\ fromAdapter'[i].stop.no = target'.no
        <3> SUFFICES ASSUME NEW i, Stopping(i)'
                     PROVE  Still' /\ fromAdapter'[i].stop.no = target'.no
            OBVIOUS
        <3>1. Stopping(i + 1) /\ fromAdapter'[i] = fromAdapter[i + 1]
            BY <1>1
        <3>2. Still /\ fromAdapter[i + 1].stop.no = target.no
            BY <3>1 DEF StopsLast
        <3> QED BY <1>0, <1>2, <3>1, <3>2
    <2>2. \A i, j : Stopping(i)' /\ Stopping(j)' => i = j
        <3> SUFFICES ASSUME NEW i, NEW j, Stopping(i)', Stopping(j)' PROVE i = j
            OBVIOUS
        <3>1. i + 1 = j + 1 /\ i \in Nat /\ j \in Nat
            BY <1>1 DEF StopsLast
        <3> QED BY <3>1
    <2>3. \A i, j : Stopping(i)' /\ GoingAhead(j)' => j < i
        <3> SUFFICES ASSUME NEW i, NEW j, Stopping(i)', GoingAhead(j)' PROVE j < i
            OBVIOUS
        <3>1. j + 1 < i + 1 /\ i \in Nat /\ j \in Nat
            BY <1>1 DEF StopsLast
        <3> QED BY <3>1
    <2> QED BY <2>1, <2>2, <2>3 DEF StopsLast
<1>5. \A i, j : Refusing(i)' => /\ ~Stopping(j)' /\ ~GoingAhead(j)'
                                /\ Refusing(j)' => i = j
    <2>1. \A i, j : Refusing(i)' => ~Stopping(j)' /\ ~GoingAhead(j)'
        BY <1>1 DEF RefusedAlone
    <2>2. \A i, j : Refusing(i)' /\ Refusing(j)' => i = j
        <3> SUFFICES ASSUME NEW i, NEW j, Refusing(i)', Refusing(j)' PROVE i = j
            OBVIOUS
        <3>1. i + 1 = j + 1 /\ i \in Nat /\ j \in Nat
            BY <1>1 DEF RefusedAlone
        <3> QED BY <3>1
    <2> QED BY <2>1, <2>2
\* A stop, or a refusal the session goes back to its stop for.
<1>6. ASSUME NEW k, Stopping(k) \/ Refusing(k), k = 1, Stopping(k) => m.type = "stopped",
             Refusing(k) => Refusal(m)
      PROVE  Still' /\ ~Unsettled' /\ \A i : ~Resuming(i)'
    <2>1. Still
        BY <1>6 DEF StopsLast, RefusedAlone
    <2>2. \A i : ~Resuming(i)'
        BY <1>3, <1>6 DEF ResumesAlone, Unsettled
    <2>3. CASE Stopping(k)
        <3>1. \A i : ~Stopping(i)'
            <4> SUFFICES ASSUME NEW i, Stopping(i)' PROVE FALSE
                OBVIOUS
            <4>1. i \in Nat /\ i > 0 /\ i + 1 = 1
                BY <1>1, <1>6, <2>3 DEF StopsLast
            <4> QED BY <4>1
        <3>2. \A i : ~GoingAhead(i)'
            <4> SUFFICES ASSUME NEW i, GoingAhead(i)' PROVE FALSE
                OBVIOUS
            <4>1. i \in Nat /\ i > 0 /\ i + 1 < 1
                BY <1>1, <1>6, <2>3 DEF StopsLast
            <4> QED BY <4>1
        <3>3. \A i : ~Refusing(i)'
            BY <1>1, <2>3 DEF RefusedAlone
        <3> QED BY <1>2, <2>1, <2>2, <3>1, <3>2, <3>3 DEF Unsettled
    <2>4. CASE Refusing(k)
        <3>1. \A i : ~Refusing(i)'
            <4> SUFFICES ASSUME NEW i, Refusing(i)' PROVE FALSE
                OBVIOUS
            <4>1. i \in Nat /\ i > 0 /\ i + 1 = 1
                BY <1>1, <1>6, <2>4 DEF RefusedAlone
            <4> QED BY <4>1
        <3>2. \A i : ~GoingAhead(i)' /\ ~Stopping(i)'
            BY <1>1, <2>4 DEF RefusedAlone
        <3> QED BY <1>2, <2>1, <2>2, <3>1, <3>2 DEF Unsettled
    <2> QED BY <1>6, <2>3, <2>4
<1>7. KnowsStop'
    <2> SUFFICES ASSUME session'.stopped PROVE Still' /\ ~Unsettled' /\ \A i : ~Resuming(i)'
        BY DEF KnowsStop
    <2>1. CASE m.type = "stopped"
        BY <1>1, <1>6, <2>1 DEF Refusing, Refusal, Stopping
    <2>2. CASE m.type \notin {"stopped", "continued"} /\ Undone(m)
        BY <1>1, <1>6, <2>2 DEF RefusedAlone, Undone
    <2>3. CASE m.type \notin {"stopped", "continued"} /\ ~Undone(m)
        <3>1. session.stopped
            BY <1>0, <2>3 DEF Follow
        <3> QED BY <1>1, <1>2, <1>3, <3>1 DEF KnowsStop
    <2> QED BY <1>0, <2>1, <2>2, <2>3 DEF Follow
<1>8. (\E i : Resuming(i)' \/ Refusing(i)') => session'.revision = session.revision
    <2>1. ASSUME m.type \in {"stopped", "continued"}
          PROVE  \A i : ~Resuming(i)' /\ ~Refusing(i)'
        <3>1. Unsettled /\ (Stopping(1) \/ GoingAhead(1))
            BY <1>1, <2>1 DEF Unsettled
        <3>2. \A i : ~Resuming(i) /\ ~Refusing(i)
            BY <3>1 DEF ResumesAlone, RefusedAlone
        <3> QED BY <1>1, <1>3, <3>2
    <2> QED BY <1>0, <2>1 DEF Follow
<1>9. ResumesAlone'
    BY <1>1, <1>2, <1>3, <1>8 DEF ResumesAlone
<1>10. RefusedAlone'
    BY <1>1, <1>2, <1>5, <1>8 DEF RefusedAlone
<1> QED BY <1>4, <1>7, <1>9, <1>10

\* lldb-dap handles a request.
LEMMA TokensHandled ==
    ASSUME Types, StartsOnce, KnowsStop, ResumesAlone, RefusedAlone, StopsLast,
           NEW p \in Sent, NEW ms \in Seq(Messages), Handle(p, ms, target'),
           Effect(p, ms), Live
    PROVE  (KnowsStop /\ ResumesAlone /\ RefusedAlone /\ StopsLast)'
<1>0. /\ target.alive /\ UNCHANGED session
      /\ Transition(p) /\ Keeps(p) /\ Speaks(p, ms)
      /\ Len(fromAdapter) \in Nat /\ target.no \in Nat
    BY DEF Handle, Effect, Types, Targets
<1>1. /\ p = toAdapter[1] /\ 1 \in 1 .. Len(toAdapter)
      /\ Len(toAdapter) \in Nat
      /\ \A i \in 1 .. Len(toAdapter') :
            i + 1 \in 1 .. Len(toAdapter) /\ toAdapter'[i] = toAdapter[i + 1]
      /\ \A i \in 1 .. Len(fromAdapter') :
            \/ i \in 1 .. Len(fromAdapter) /\ fromAdapter'[i] = fromAdapter[i]
            \/ /\ i \notin 1 .. Len(fromAdapter)
               /\ i - Len(fromAdapter) \in 1 .. Len(ms)
               /\ fromAdapter'[i] = ms[i - Len(fromAdapter)]
    BY Handled
<1>2. \A i : Resuming(i)' => /\ i \in Nat /\ i > 0 /\ Resuming(i + 1)
                             /\ toAdapter'[i] = toAdapter[i + 1]
    BY <1>1 DEF Resuming
<1>3. p.command # "configurationDone" \/ ~Still
    BY <1>0, <1>1 DEF StartsOnce, Configuring, Unstarted, Still
<1>4. p.command # "disconnect"
    BY <1>1 DEF StartsOnce, Leaving, Live
\* What is said of the target is said when it moves or refuses to.
<1>5. ASSUME NEW k \in 1 .. Len(ms)
      PROVE  /\ ms[k].type = "stopped" => /\ ~Still /\ Still'
                                          /\ p.command = "pause"
                                          /\ ms[k].stop.no = target'.no
             /\ ms[k].type = "continued" => Resumes(p.command) /\ Still
             /\ Refusal(ms[k]) => /\ Resumes(p.command) /\ ms[k].request = p
                                  /\ target' = target
    <2>1. Says(p, ms[k])
        BY <1>0 DEF Speaks
    <2>2. ASSUME ms[k].type = "stopped"
          PROVE  ~Still /\ Still' /\ p.command = "pause" /\ ms[k].stop.no = target'.no
        <3> DEFINE n == target.no + 1
        <3>1. p.command = "pause" /\ target'.no = n /\ ms[k].stop = [NoStop EXCEPT !.no = n]
            BY <2>1, <2>2 DEF Says
        <3>2. n # target.no
            BY <1>0
        <3>3. target.state = "running" /\ target'.state = "stopped"
            BY <1>0, <3>1, <3>2 DEF Transition
        <3>4. ms[k].stop.no = n
            BY <3>1 DEF NoStop
        <3> QED BY <1>0, <3>1, <3>3, <3>4 DEF Still
    <2>3. ms[k].type = "continued" => Resumes(p.command) /\ Still
        BY <2>1 DEF Says, Still
    <2>4. Refusal(ms[k]) => Resumes(p.command) /\ ms[k].request = p /\ target' = target
        BY <2>1 DEF Says, Refusal
    <2> QED BY <2>2, <2>3, <2>4
<1>6. \A k, l \in 1 .. Len(ms) :
            /\ Refusal(ms[k]) \/ ms[k].type \in {"stopped", "continued"}
            /\ Refusal(ms[l]) \/ ms[l].type \in {"stopped", "continued"}
            => k = l
    BY <1>0 DEF Speaks, Moving, Refusal
<1> DEFINE New(i) == i - Len(fromAdapter) \in 1 .. Len(ms) /\ i \in Int
                     /\ i > Len(fromAdapter)
                     /\ fromAdapter'[i] = ms[i - Len(fromAdapter)]
<1>7. /\ \A i : Stopping(i)' => \/ Stopping(i) /\ fromAdapter'[i] = fromAdapter[i]
                                \/ New(i) /\ ms[i - Len(fromAdapter)].type = "stopped"
      /\ \A i : GoingAhead(i)' => \/ GoingAhead(i)
                                  \/ New(i) /\ ms[i - Len(fromAdapter)].type = "continued"
      /\ \A i : Refusing(i)' => \/ Refusing(i) /\ fromAdapter'[i] = fromAdapter[i]
                                \/ New(i) /\ Refusal(ms[i - Len(fromAdapter)])
    <2>1. \A i \in 1 .. Len(fromAdapter') :
              \/ i \in 1 .. Len(fromAdapter) /\ fromAdapter'[i] = fromAdapter[i]
              \/ New(i)
        BY <1>0, <1>1
    <2> HIDE DEF New
    <2> QED BY <2>1 DEF Stopping, GoingAhead, Refusing, New
<1>8. \A i, j : New(i) /\ New(j) /\ i - Len(fromAdapter) = j - Len(fromAdapter) => i = j
    BY <1>0
<1>9. \A i : (Stopping(i) \/ GoingAhead(i) \/ Refusing(i)) => i \in Int /\ i <= Len(fromAdapter)
    BY <1>0 DEF Stopping, GoingAhead, Refusing
<1>10. \A i : New(i) => i \in Int /\ i > Len(fromAdapter) /\ i - Len(fromAdapter) \in 1 .. Len(ms)
    OBVIOUS
<1> HIDE DEF New
\* A target that stands still goes on for a resume only.
<1>11. CASE Resumes(p.command)
    <2>1. Resuming(1)
        BY <1>1, <1>11 DEF Resuming
    <2>2. Still /\ ~Unsettled /\ p.revision = session.revision
        BY <1>1, <2>1 DEF ResumesAlone
    <2>3. ~session'.stopped
        BY <1>0, <2>1 DEF KnowsStop
    <2>4. \A i : ~Resuming(i)'
        <3> SUFFICES ASSUME NEW i, Resuming(i)' PROVE FALSE
            OBVIOUS
        <3>1. i \in Nat /\ i > 0 /\ i + 1 = 1
            BY <1>2, <2>1 DEF ResumesAlone
        <3> QED BY <3>1
    <2>5. \A i : ~Stopping(i)'
        BY <1>5, <1>7, <1>10, <1>11, <2>2 DEF Unsettled, Resumes
    <2>6. \A i : GoingAhead(i)' => New(i) /\ ms[i - Len(fromAdapter)].type = "continued"
        BY <1>7, <2>2 DEF Unsettled
    <2>7. \A i : Refusing(i)' => New(i) /\ Refusal(ms[i - Len(fromAdapter)])
        BY <1>7, <2>2 DEF Unsettled
    <2>8. \A i, j : Refusing(i)' => ~GoingAhead(j)' /\ (Refusing(j)' => i = j)
        <3> SUFFICES ASSUME NEW i, NEW j, Refusing(i)', GoingAhead(j)' \/ Refusing(j)'
                     PROVE  i = j /\ ~GoingAhead(j)'
            OBVIOUS
        <3>1. i = j
            BY <1>6, <1>8, <1>10, <2>6, <2>7
        <3> QED BY <3>1 DEF GoingAhead, Refusing, Refusal
    <2>9. \A i : Refusing(i)' => Still' /\ fromAdapter'[i].request.revision = session'.revision
        BY <1>0, <1>5, <1>10, <2>2, <2>7 DEF New, Still
    <2>10. RefusedAlone'
        BY <2>5, <2>8, <2>9 DEF RefusedAlone
    <2> QED BY <2>3, <2>4, <2>5, <2>10 DEF KnowsStop, ResumesAlone, StopsLast
<1>12. CASE ~Resumes(p.command)
    <2>1. /\ \A i : GoingAhead(i)' => GoingAhead(i)
          /\ \A i : Refusing(i)' => Refusing(i) /\ fromAdapter'[i] = fromAdapter[i]
        BY <1>5, <1>7, <1>10, <1>12
    <2>2. CASE Still
        <3>1. \A i : Stopping(i)' => Stopping(i) /\ fromAdapter'[i] = fromAdapter[i]
            BY <1>5, <1>7, <1>10, <2>2
        <3>2. Still' /\ target'.no = target.no
            BY <1>0, <1>3, <1>4, <1>12, <2>2 DEF Transition, Still
        <3>3. Unsettled' => Unsettled
            BY <2>1, <3>1 DEF Unsettled
        <3>4. KnowsStop'
            BY <1>0, <1>2, <3>2, <3>3 DEF KnowsStop
        <3>5. ResumesAlone'
            <4>1. \A i, j : Resuming(i)' /\ Resuming(j)' => i = j
                <5> SUFFICES ASSUME NEW i, NEW j, Resuming(i)', Resuming(j)' PROVE i = j
                    OBVIOUS
                <5>1. i + 1 = j + 1 /\ i \in Nat /\ j \in Nat
                    BY <1>2 DEF ResumesAlone
                <5> QED BY <5>1
            <4> QED BY <1>0, <1>2, <3>2, <3>3, <4>1 DEF ResumesAlone
        <3>6. RefusedAlone'
            BY <1>0, <2>1, <3>1, <3>2 DEF RefusedAlone
        <3>7. StopsLast'
            BY <2>1, <3>1, <3>2 DEF StopsLast
        <3> QED BY <3>4, <3>5, <3>6, <3>7
    <2>3. CASE ~Still
        <3>1. ~session'.stopped /\ \A i : ~Resuming(i) /\ ~Refusing(i) /\ ~Stopping(i)
            BY <1>0, <2>3 DEF KnowsStop, ResumesAlone, RefusedAlone, StopsLast
        <3>2. \A i : ~Resuming(i)' /\ ~Refusing(i)'
            BY <1>2, <2>1, <3>1
        <3>3. \A i : Stopping(i)' => New(i) /\ ms[i - Len(fromAdapter)].type = "stopped"
            BY <1>7, <3>1
        <3>4. \A i : Stopping(i)' => Still' /\ fromAdapter'[i].stop.no = target'.no
            BY <1>5, <1>10, <3>3 DEF New
        <3>5. \A i, j : Stopping(i)' /\ Stopping(j)' => i = j
            BY <1>6, <1>8, <1>10, <3>3
        <3>6. \A i, j : Stopping(i)' /\ GoingAhead(j)' => j < i
            <4> SUFFICES ASSUME NEW i, NEW j, Stopping(i)', GoingAhead(j)' PROVE j < i
                OBVIOUS
            <4>1. i \in Int /\ i > Len(fromAdapter) /\ j \in Int /\ j <= Len(fromAdapter)
                BY <1>9, <1>10, <2>1, <3>3
            <4> QED BY <1>0, <4>1
        <3> QED BY <3>1, <3>2, <3>4, <3>5, <3>6
                DEF KnowsStop, ResumesAlone, RefusedAlone, StopsLast
    <2> QED BY <2>2, <2>3
<1> QED BY <1>11, <1>12

-----------------------------------------------------------------------------
(* What is held while the session is where it is: a stop whose conditions are *)
(* evaluated, a stop that waits for breakpoint work, a request that does.     *)

Waits(b) == b.stops # <<>> \/ b.deferred # <<>>
HeldInv == Live =>
    /\ conditions.active # NoJob => session.stopped /\ breakpoints.stops = <<>>
    /\ breakpoints.stops # <<>> => session.stopped /\ Len(breakpoints.stops) = 1
    /\ at = "loop" /\ Waits(breakpoints) => WorkPending

\* A handler that is not about any of these.
LEMMA HeldStill ==
    ASSUME Types, HeldInv, Live' => Live, UNCHANGED breakpoints,
           conditions'.active = conditions.active,
           conditions'.updating = conditions.updating,
           Live' /\ session.stopped => session'.stopped,
           at' = "loop" => at = "loop"
    PROVE  HeldInv'
BY DEF HeldInv, Waits, WorkPending

\* A handler that ends some breakpoint work or an evaluation.
LEMMA HeldDrained ==
    ASSUME HeldInv, Live' => Live, EnterDrain,
           breakpoints'.stops = breakpoints.stops,
           \/ conditions'.active = conditions.active /\ session'.stopped = session.stopped
           \/ conditions'.active = NoJob /\ conditions.active # NoJob
    PROVE  HeldInv'
BY DEF HeldInv, Waits, EnterDrain

LEMMA PerformHeld ==
    ASSUME Types, NEW req \in Asks, NEW b \in BreakpointStates, Perform(req, b),
           Deferrable(req.command) => ~WorkPending,
           b.function = breakpoints.function, b.panic = breakpoints.panic
    PROVE  /\ conditions'.active = conditions.active /\ breakpoints'.stops = b.stops
           /\ WorkPending' \/ (breakpoints'.deferred = b.deferred /\ ~WorkPending)
           /\ \/ session'.stopped = session.stopped
              \/ ~WorkPending
<1>1. /\ conditions'.active = conditions.active /\ breakpoints'.stops = b.stops
    BY PerformCourse
<1>0. conditions \in ConditionStates /\ session \in Flags
      /\ req.seq # NoRequest /\ req.seq # None
    BY DEF Types, Asks, Requests, NoRequest, None
<1>2. ASSUME breakpoints' = b, conditions'.updating = conditions.updating
      PROVE  WorkPending' \/ (breakpoints'.deferred = b.deferred /\ ~WorkPending)
    BY <1>1, <1>2 DEF WorkPending
<1>3. CASE \/ Refused(req) /\ ReplyAtOnce(req, "error", b)
           \/ Variables(req, b)
           \/ Threads(req, b) \/ StackTrace(req, b)
    <2>1. breakpoints' = b /\ UNCHANGED <<session, conditions>>
        BY <1>3 DEF ReplyAtOnce, Variables, Threads, StackTrace
    <2> QED BY <1>1, <1>2, <2>1
<1>4. CASE Pause(req, b)
    <2>1. breakpoints' = b /\ conditions' = conditions
          /\ session' = [session EXCEPT !.pauseRevision = session.revision]
        BY <1>4 DEF Pause
    <2>2. session'.stopped = session.stopped
        BY <1>0, <2>1 DEF Flags
    <2> QED BY <1>1, <1>2, <2>1, <2>2
<1>5. CASE Resume(req, b)
    <2>1. /\ breakpoints' = b /\ Resumes(req.command)
          /\ conditions' = [conditions EXCEPT !.stepping = req.command # "continue"]
        BY <1>5 DEF Resume
    <2>2. conditions'.updating = conditions.updating
        BY <1>0, <2>1 DEF ConditionStates
    <2>3. ~WorkPending
        BY <2>1 DEF Resumes, Deferrable
    <2> QED BY <1>1, <1>2, <2>1, <2>2, <2>3
<1>6. CASE ReplaceFunctions(req, b)
    <2>1. breakpoints'.function = req.seq /\ session' = session
        BY <1>6 DEF ReplaceFunctions, BreakpointStates
    <2> QED BY <1>0, <1>1, <2>1 DEF WorkPending
<1>7. CASE ReplacePanic(req, b)
    <2>1. breakpoints'.panic = req.seq /\ session' = session
        BY <1>7 DEF ReplacePanic, BreakpointStates
    <2> QED BY <1>0, <1>1, <2>1 DEF WorkPending
<1>8. CASE ReplaceSources(req, b)
    <2>1. session' = session /\ conditions' = [conditions EXCEPT !.updating = TRUE]
        BY <1>8 DEF ReplaceSources
    <2>2. conditions'.updating
        BY <1>0, <2>1 DEF ConditionStates
    <2> QED BY <1>1, <2>1, <2>2 DEF WorkPending
<1>9. CASE ConfigurationDone(req, b)
    <2>0. conditions' = conditions /\ ~WorkPending
        BY <1>9 DEF ConfigurationDone, Deferrable
    <2>1. CASE b.panicConfigured
        <3>1. breakpoints' = b
            BY <1>9, <2>1 DEF ConfigurationDone
        <3> QED BY <1>1, <1>2, <2>0, <3>1
    <2>2. CASE ~b.panicConfigured
        <3>1. breakpoints' = [b EXCEPT !.panic = 0, !.deferred = Append(@, req)]
            BY <1>9, <2>2 DEF ConfigurationDone
        <3>2. breakpoints'.panic = 0
            BY <3>1 DEF BreakpointStates
        <3> QED BY <1>1, <2>0, <3>2 DEF WorkPending, None
    <2> QED BY <2>1, <2>2
<1> QED BY <1>3, <1>4, <1>5, <1>6, <1>7, <1>8, <1>9 DEF Perform

LEMMA ClientHeld ==
    ASSUME Types, HeldInv, Live' => Live, OnClient
    PROVE  HeldInv'
<1> SUFFICES ASSUME NEW req, req = Head(fromClient), fromClient # <<>>, Live, Live',
                    \/ DeferRequest(req) \/ InterruptCondition(req)
                    \/ PerformRequest(req) \/ Disconnect(req)
                    \/ RefuseWhileClosing(req) \/ ClientEof(req)
             PROVE  HeldInv'
    BY DEF OnClient, HeldInv
<1>1. /\ req \in Asks \cup Eofs
      /\ req.command # "eof" => req \in Asks
      /\ breakpoints \in BreakpointStates /\ conditions \in ConditionStates
      /\ session \in Flags
    BY HeadTyped DEF Types, Eofs
<1>2. CASE DeferRequest(req)
    <2>1. /\ UNCHANGED <<session, conditions>> /\ at' = "loop" /\ at = "loop" /\ WorkPending
          /\ \/ breakpoints' = breakpoints
             \/ breakpoints' = [breakpoints EXCEPT !.deferred = Append(@, req)]
        BY <1>2 DEF DeferRequest, ReplyAtOnce, TakeRequest, MustDefer
    <2>2. /\ breakpoints'.stops = breakpoints.stops
          /\ breakpoints'.function = breakpoints.function
          /\ breakpoints'.panic = breakpoints.panic
        BY <1>1, <2>1 DEF BreakpointStates
    <2>3. WorkPending'
        BY <2>1, <2>2 DEF WorkPending
    <2> QED BY <2>1, <2>2, <2>3 DEF HeldInv
<1>3. CASE InterruptCondition(req)
    <2>1. /\ conditions' = [conditions EXCEPT !.active = NoJob]
          /\ conditions.active # NoJob
          /\ UNCHANGED breakpoints /\ EnterDrain
        BY <1>3 DEF InterruptCondition
    <2>2. conditions'.active = NoJob
        BY <1>1, <2>1 DEF ConditionStates
    <2> QED BY <2>1, <2>2, HeldDrained
<1>4. CASE PerformRequest(req)
    <2>1. /\ req \in Asks /\ Perform(req, breakpoints) /\ ~MustDefer(req)
          /\ at' = "loop" /\ at = "loop"
        BY <1>1, <1>4 DEF PerformRequest, TakeRequest
    <2>2. Deferrable(req.command) => ~WorkPending
        BY <2>1 DEF MustDefer
    <2>3. /\ conditions'.active = conditions.active
          /\ breakpoints'.stops = breakpoints.stops
          /\ WorkPending' \/ (breakpoints'.deferred = breakpoints.deferred /\ ~WorkPending)
          /\ session'.stopped = session.stopped \/ ~WorkPending
        BY <1>1, <2>1, <2>2, PerformHeld
    <2>4. ~WorkPending => breakpoints.stops = <<>> /\ breakpoints.deferred = <<>>
                          /\ conditions.active = NoJob
        BY <2>1 DEF HeldInv, Waits, WorkPending
    <2> QED BY <2>3, <2>4 DEF HeldInv, Waits
<1>5. CASE RefuseWhileClosing(req) \/ ClientEof(req)
    BY <1>5 DEF RefuseWhileClosing, ClientEof, Live, Working
<1>6. CASE Disconnect(req)
    <2>1. session'.closing
        BY <1>1, <1>6 DEF Disconnect, Flags
    <2> QED BY <2>1 DEF Live
<1> QED BY <1>2, <1>3, <1>4, <1>5, <1>6

LEMMA Single ==
    ASSUME NEW S, NEW q \in Seq(S), q # <<>>, Len(q) = 1
    PROVE  Tail(q) = <<>>
<1> DEFINE t == Tail(q)
<1>1. t \in Seq(S) /\ Len(t) = 0
    BY Tails
<1> HIDE DEF t
<1>2. t = <<>>
    BY <1>1, EmptySeq
<1> QED BY <1>2 DEF t

LEMMA DrainHeld ==
    ASSUME Types, DrainsAtRest, HeldInv, Live' => Live, DrainStop \/ DrainRequest
    PROVE  HeldInv'
<1> SUFFICES ASSUME Live, Live' PROVE HeldInv'
    BY DEF HeldInv
<1>1. /\ breakpoints \in BreakpointStates /\ conditions \in ConditionStates
      /\ session \in Flags
    BY DEF Types
<1>2. CASE DrainStop
    <2> DEFINE q == breakpoints.stops
               e == <<>>
    <2>1. /\ q # e /\ q \in Seq(Stops) /\ breakpoints' = [breakpoints EXCEPT !.stops = Tail(q)]
          /\ session' = session /\ KeepDraining /\ at = "drain"
        BY <1>1, <1>2 DEF DrainStop, BreakpointStates
    <2>2. breakpoints'.stops = Tail(q)
        BY <1>1, <2>1 DEF BreakpointStates
    <2>3. session.stopped /\ Len(q) = 1
        BY <2>1 DEF HeldInv
    <2>4. Tail(q) = e
        <3> HIDE DEF q
        <3> QED BY <2>1, <2>3, Single
    <2>5. at' = "loop" => breakpoints'.stops = e /\ (WorkPending' \/ breakpoints'.deferred = e)
        BY <2>1 DEF KeepDraining
    <2> QED BY <2>1, <2>2, <2>3, <2>4, <2>5 DEF HeldInv, Waits
<1>3. CASE DrainRequest
    <2> DEFINE req == Head(breakpoints.deferred)
               b == [breakpoints EXCEPT !.deferred = Tail(@)]
    <2>1. /\ breakpoints.deferred # <<>> /\ breakpoints.stops = <<>> /\ at = "drain"
          /\ Perform(req, b) /\ KeepDraining
        BY <1>3 DEF DrainRequest
    <2>2. breakpoints.deferred \in Seq(Asks) /\ Tail(breakpoints.deferred) \in Seq(Asks)
          /\ req \in Asks
        BY <1>1, <2>1 DEF BreakpointStates
    <2>3. /\ b \in BreakpointStates /\ b.stops = breakpoints.stops
          /\ b.function = breakpoints.function /\ b.panic = breakpoints.panic
        BY <1>1, <2>2 DEF BreakpointStates
    <2>4. ~WorkPending
        BY <1>1, <2>1 DEF DrainsAtRest
    <2> HIDE DEF req, b
    <2>5. /\ conditions'.active = conditions.active
          /\ breakpoints'.stops = breakpoints.stops
        BY <2>1, <2>2, <2>3, <2>4, PerformHeld
    <2>6. at' = "loop" => WorkPending' \/ breakpoints'.deferred = <<>>
        BY <2>1 DEF KeepDraining
    <2> QED BY <2>1, <2>4, <2>5, <2>6 DEF HeldInv, Waits, WorkPending
<1> QED BY <1>2, <1>3

\* A stop at the panic breakpoint is not one the conditions decide.
LEMMA ClassifiedShown ==
    ASSUME NEW stop, "panic" \in stop.ids, NEW c, NEW cond, NEW ws, NEW revision,
           PublishConditionStop(stop, c, cond, ws, revision)
    PROVE  conditions' = cond
BY DEF PublishConditionStop, AllConditional

LEMMA ReplyHeld ==
    ASSUME Types, Addressed, HeldInv, Live' => Live, NEW m,
           \/ OnConditionContinued(m) \/ \E w \in Workers : OnWorkerReply(m, w)
           \/ \E panicked \in BOOLEAN : OnStopClassified(m, panicked)
           \/ OnStackTrace(m) \/ OnSourcesReplaced(m) \/ OnInitialize(m)
           \/ OnLaunched(m) \/ OnConfigured(m) \/ OnResumed(m) \/ OnPauseAnswered(m)
           \/ OnThreads(m) \/ OnDisconnected(m)
    PROVE  HeldInv'
<1> SUFFICES ASSUME Live, Live' PROVE HeldInv'
    BY DEF HeldInv
<1>0. conditions \in ConditionStates /\ session \in Flags
    BY DEF Types
<1>1. CASE OnConditionContinued(m)
    <2>1. /\ UNCHANGED breakpoints /\ at = "loop"
          /\ \/ UNCHANGED <<session, conditions>>
             \/ /\ session' = [session EXCEPT !.stopped = TRUE]
                /\ conditions' = [conditions EXCEPT !.suppress = FALSE]
        BY <1>1 DEF OnConditionContinued, TakeResponse, TakeMessage
    <2>2. /\ conditions'.active = conditions.active
          /\ conditions'.updating = conditions.updating
          /\ session.stopped => session'.stopped
        BY <1>0, <2>1 DEF ConditionStates, Flags
    <2> QED BY <2>1, <2>2, HeldStill
<1>2. CASE \/ \E w \in Workers : OnWorkerReply(m, w)
           \/ OnStackTrace(m) \/ OnThreads(m)
    <2>1. UNCHANGED <<session, breakpoints, conditions>> /\ at = "loop"
        BY <1>2 DEF OnWorkerReply, OnStackTrace, OnThreads, TakeResponse, TakeMessage
    <2> QED BY <2>1, HeldStill
<1>3. CASE \E panicked \in BOOLEAN : OnStopClassified(m, panicked)
    <2>1. /\ UNCHANGED <<session, breakpoints>> /\ at = "loop"
          /\ m.request \in pending /\ m.request.use = "stopContext"
          /\ \/ conditions' = conditions
             \/ PublishConditionStop(m.request.stop, client, conditions,
                                      workers, session.revision)
        BY <1>3 DEF OnStopClassified, TakeResponse, TakeMessage
    <2>2. "panic" \in m.request.stop.ids
        BY <2>1 DEF Addressed, Address
    <2>3. conditions' = conditions
        BY <2>1, <2>2, ClassifiedShown
    <2> QED BY <2>1, <2>3, HeldStill
<1>4. CASE OnSourcesReplaced(m)
    <2>1. m.ok
        BY <1>4 DEF OnSourcesReplaced, Raise, Live, Working
    <2>2. /\ conditions' = [conditions EXCEPT !.updating = FALSE,
                                  !.bindings["source"] = m.request.kind]
          /\ UNCHANGED <<session, breakpoints>> /\ EnterDrain
        BY <1>4, <2>1 DEF OnSourcesReplaced
    <2>3. conditions'.active = conditions.active
        BY <1>0, <2>2 DEF ConditionStates
    <2> QED BY <2>2, <2>3, HeldDrained
<1>5. CASE OnInitialize(m)
    <2>1. UNCHANGED <<session, breakpoints, conditions>> /\ at = "loop"
        BY <1>5 DEF OnInitialize, TakeResponse, TakeMessage, Raise, Live, Working
    <2> QED BY <2>1, HeldStill
<1>6. CASE OnLaunched(m) \/ OnConfigured(m) \/ OnResumed(m) \/ OnPauseAnswered(m)
    <2>1. UNCHANGED <<breakpoints, conditions>> /\ at = "loop"
        BY <1>6 DEF OnLaunched, OnConfigured, OnResumed, OnPauseAnswered, TakeResponse,
                    TakeMessage
    <2>2. session.stopped => session'.stopped
        <3> USE <1>0 DEF Flags
        <3>1. CASE OnLaunched(m)
            <4> DEFINE s == [session EXCEPT !.launchAnswered = TRUE]
            <4>1. session' = s \/ session' = Finished(s)
                BY <3>1 DEF OnLaunched
            <4>2. session' # Finished(s)
                BY DEF Finished, Live
            <4> QED BY <4>1, <4>2
        <3>2. CASE OnConfigured(m)
            BY <3>2 DEF OnConfigured, Finished, Live
        <3>3. CASE OnResumed(m)
            BY <3>3 DEF OnResumed
        <3>4. CASE OnPauseAnswered(m)
            BY <3>4 DEF OnPauseAnswered
        <3> QED BY <1>6, <3>1, <3>2, <3>3, <3>4
    <2> QED BY <2>1, <2>2, HeldStill
<1>7. CASE OnDisconnected(m)
    BY <1>7 DEF OnDisconnected, Raise, Live, Working
<1> QED BY <1>1, <1>2, <1>3, <1>4, <1>5, <1>6, <1>7

\* A stop or a `continued` is heard of while the session takes the target for
\* running, so nothing is held then.
LEMMA EventHeld ==
    ASSUME Types, HeldInv, Live => KnowsStop, Live' => Live,
           fromAdapter # <<>>, NEW m, m = Head(fromAdapter),
           \/ OnInitialized(m) \/ OnStopped(m) \/ OnContinued(m) \/ OnExited(m)
           \/ OnTerminated(m) \/ OnFailed(m)
    PROVE  HeldInv'
<1> SUFFICES ASSUME Live, Live' PROVE HeldInv'
    BY DEF HeldInv
<1>0. /\ conditions \in ConditionStates /\ session \in Flags
      /\ breakpoints \in BreakpointStates
    BY DEF Types
<1>1. CASE OnInitialized(m)
    <2>1. UNCHANGED <<breakpoints, conditions>> /\ at = "loop"
          /\ session' = [session EXCEPT !.ready = TRUE]
        BY <1>1 DEF OnInitialized, TakeEvent, TakeMessage
    <2>2. session'.stopped = session.stopped
        BY <1>0, <2>1 DEF Flags
    <2> QED BY <2>1, <2>2, HeldStill
<1>2. m.type \in {"stopped", "continued"}
          => ~session.stopped /\ breakpoints.stops = <<>> /\ conditions.active = NoJob
    <2> SUFFICES ASSUME m.type \in {"stopped", "continued"} PROVE ~session.stopped
        BY DEF HeldInv
    <2>1. 1 \in 1 .. Len(fromAdapter) /\ m = fromAdapter[1]
        <3> fromAdapter \in Seq(Messages)
            BY DEF Types
        <3> QED BY Tails
    <2>2. Unsettled
        BY <2>1 DEF Unsettled, Stopping, GoingAhead
    <2> QED BY <2>2 DEF KnowsStop
<1>3. CASE OnStopped(m)
    <2>1. ~session.stopped /\ breakpoints.stops = <<>> /\ conditions.active = NoJob
        BY <1>2, <1>3 DEF OnStopped, TakeEvent
    <2>2. breakpoints.deferred # <<>> => HoldsStop
        BY <1>3, <2>1 DEF OnStopped, TakeEvent, TakeMessage, HeldInv, Waits, WorkPending, HoldsStop
    <2> DEFINE cond == [conditions EXCEPT !.active = NoJob, !.suppress = FALSE,
                            !.stepping = @ \/ session.pauseRevision # None]
               ws == Release(workers, {"inspection", "condition"})
    <2>3. /\ at = "loop"
          /\ session' = [session EXCEPT !.stopped = TRUE, !.revision = session.revision + 1,
                                        !.pauseRevision = None]
          /\ IF HoldsStop
             THEN /\ breakpoints' = [breakpoints EXCEPT !.stops = Append(@, m.stop)]
                  /\ conditions' = cond
             ELSE /\ PublishStop(m.stop, AnswerStale(client), cond, ws, session.revision + 1)
                  /\ UNCHANGED breakpoints
        BY <1>3 DEF OnStopped, TakeEvent, TakeMessage, Live
    <2>4. /\ cond.updating = conditions.updating /\ cond.active = NoJob
          /\ session'.stopped /\ cond \in ConditionStates
        BY <1>0, <2>1, <2>3 DEF ConditionStates, Flags
    <2> HIDE DEF cond, ws
    <2>5. CASE HoldsStop
        <3> DEFINE q == breakpoints.stops
        <3>1. breakpoints' = [breakpoints EXCEPT !.stops = Append(q, m.stop)] /\ conditions' = cond
            BY <2>3, <2>5
        <3>2. /\ breakpoints'.stops = Append(q, m.stop)
              /\ breakpoints'.function = breakpoints.function
              /\ breakpoints'.panic = breakpoints.panic
            BY <1>0, <3>1 DEF BreakpointStates
        <3>3. Len(Append(q, m.stop)) = 1
            <4>1. q \in Seq(Stops) /\ m.stop \in Stops /\ Len(q) = 0
                <5>1. q \in Seq(Stops)
                    BY <1>0 DEF BreakpointStates
                <5>2. m \in Messages
                    BY MessageTyped, <1>3 DEF OnStopped, TakeEvent
                <5>3. Len(q) = 0
                    BY <2>1
                <5> QED BY <5>1, <5>2, <5>3 DEF Messages
            <4> HIDE DEF q
            <4>2. Len(Append(q, m.stop)) = Len(q) + 1
                BY <4>1, Appends
            <4> QED BY <4>1, <4>2
        <3>4. WorkPending'
            BY <2>4, <2>5, <3>1, <3>2 DEF WorkPending, HoldsStop
        <3> QED BY <2>4, <3>1, <3>2, <3>3, <3>4 DEF HeldInv
    <2>6. CASE ~HoldsStop
        <3>1. breakpoints' = breakpoints
            BY <2>3, <2>6
        <3> QED BY <2>1, <2>2, <2>4, <2>6, <3>1 DEF HeldInv, Waits
    <2> QED BY <2>5, <2>6
<1>4. CASE OnContinued(m)
    <2>1. ~session.stopped /\ breakpoints.stops = <<>> /\ conditions.active = NoJob
        BY <1>2, <1>4 DEF OnContinued, TakeEvent
    <2>2. UNCHANGED breakpoints /\ at = "loop"
          /\ conditions' = [conditions EXCEPT !.suppress = FALSE]
        BY <1>4 DEF OnContinued, TakeEvent, TakeMessage, Live
    <2>3. /\ conditions'.active = conditions.active
          /\ conditions'.updating = conditions.updating
        BY <1>0, <2>2 DEF ConditionStates
    <2> QED BY <2>1, <2>2, <2>3, HeldStill
<1>5. CASE OnExited(m)
    BY <1>0, <1>5 DEF OnExited, Flags, Live
<1>6. CASE OnTerminated(m)
    BY <1>0, <1>6 DEF OnTerminated, Finished, Flags, Live
<1>7. CASE OnFailed(m)
    BY <1>7 DEF OnFailed, Raise, Live, Working
<1> QED BY <1>1, <1>3, <1>4, <1>5, <1>6, <1>7

LEMMA WorkHeld ==
    ASSUME Types, Dated(workers), HeldInv, Live' => Live, OnWork
    PROVE  HeldInv'
<1> SUFFICES ASSUME Live, Live' PROVE HeldInv'
    BY DEF HeldInv
<1>0. conditions \in ConditionStates /\ session \in Flags /\ breakpoints \in BreakpointStates
    BY DEF Types
<1>1. CASE \/ \E w \in Workers : OnRead(w) \/ IgnoreDone(w)
           \/ OnInspectDone
    <2>1. UNCHANGED <<session, breakpoints, conditions>> /\ at = "loop"
        BY <1>1 DEF OnRead, IgnoreDone, OnInspectDone, TakeWork
    <2> QED BY <2>1, HeldStill
<1>2. ASSUME NEW w \in Workers, RaiseDone(w) PROVE FALSE
    BY <1>2 DEF RaiseDone, Raise, Live, Working
<1>3. CASE OnFunctionDone
    <2>1. \/ IgnoreDone("function")
          \/ /\ conditions' = [conditions EXCEPT !.bindings["function"] = breakpoints.requested]
             /\ breakpoints' = [breakpoints EXCEPT !.function = NoRequest, !.requested = "none"]
             /\ session' = session /\ EnterDrain
        BY <1>2, <1>3 DEF OnFunctionDone, Workers
    <2>2. CASE IgnoreDone("function")
        BY <1>1, <2>2 DEF Workers
    <2>3. CASE ~IgnoreDone("function")
        <3>1. /\ conditions'.active = conditions.active
              /\ breakpoints'.stops = breakpoints.stops
            BY <1>0, <2>1, <2>3 DEF ConditionStates, BreakpointStates
        <3> QED BY <2>1, <2>3, <3>1, HeldDrained
    <2> QED BY <2>2, <2>3
<1>4. CASE OnPanicDone
    <2>1. \/ IgnoreDone("panic")
          \/ /\ UNCHANGED <<session, conditions>> /\ EnterDrain
             /\ \E installed :
                   breakpoints' = [breakpoints EXCEPT !.panic = None, !.panicConfigured = TRUE,
                                                      !.panicInstalled = installed]
        BY <1>2, <1>4 DEF OnPanicDone, Workers
    <2>2. CASE IgnoreDone("panic")
        BY <1>1, <2>2 DEF Workers
    <2>3. CASE ~IgnoreDone("panic")
        <3>1. breakpoints'.stops = breakpoints.stops
            BY <1>0, <2>1, <2>3 DEF BreakpointStates
        <3> QED BY <2>1, <2>3, <3>1, HeldDrained
    <2> QED BY <2>2, <2>3
<1>5. CASE OnConditionDone
    <2>1. CASE ConditionEpoch # workers["condition"].job.epoch
        <3>1. IgnoreDone("condition")
            BY <1>5, <2>1 DEF OnConditionDone
        <3> QED BY <1>1, <3>1 DEF Workers
    <2>2. CASE ConditionEpoch = workers["condition"].job.epoch
        <3>1. /\ workers["condition"].pc = "done" /\ breakpoints' = breakpoints /\ EnterDrain
              /\ \E suppress \in {conditions.suppress, TRUE} :
                    conditions' = [conditions EXCEPT !.active = NoJob, !.suppress = suppress]
            <4>1. /\ workers["condition"].pc = "done" /\ breakpoints' = breakpoints /\ EnterDrain
                  /\ \/ conditions' = [conditions EXCEPT !.active = NoJob, !.suppress = TRUE]
                     \/ conditions' = [conditions EXCEPT !.active = NoJob]
                BY <1>5, <2>2 DEF OnConditionDone, TakeWork
            <4>2. [conditions EXCEPT !.active = NoJob]
                      = [conditions EXCEPT !.active = NoJob, !.suppress = conditions.suppress]
                BY <1>0 DEF ConditionStates
            <4> QED BY <4>1, <4>2
        <3>2. conditions'.active = NoJob
            BY <1>0, <3>1 DEF ConditionStates
        <3>3. conditions.active # NoJob
            <4>1. workers["condition"].job.epoch # None
                BY <3>1 DEF Dated
            <4> QED BY <2>2, <4>1 DEF ConditionEpoch
        <3> QED BY <3>1, <3>2, <3>3, HeldDrained
    <2> QED BY <2>1, <2>2
<1> QED BY <1>1, <1>3, <1>4, <1>5 DEF OnWork

LEMMA HeldKept ==
    ASSUME FlowInv, TokensInv, HeldInv, [Next]_vars
    PROVE  HeldInv'
<1>0. /\ SafetyInv /\ Types /\ Addressed /\ DrainsAtRest /\ Dated(workers)
      /\ Live => KnowsStop
    BY DEF FlowInv, AnswersInv, SafetyInv, TokensInv
<1>1. Live' => Live
    BY <1>0, Monotone DEF Live
<1>2. CASE OnClient
    BY <1>0, <1>1, <1>2, ClientHeld
<1>3. CASE DrainStop \/ DrainRequest
    BY <1>0, <1>1, <1>3, DrainHeld
<1>4. CASE OnAdapter
    <2> DEFINE m == Head(fromAdapter)
    <2>1. fromAdapter # <<>>
        BY <1>4 DEF OnAdapter
    <2>2. CASE \/ OnConditionContinued(m) \/ \E w \in Workers : OnWorkerReply(m, w)
               \/ \E panicked \in BOOLEAN : OnStopClassified(m, panicked)
               \/ OnStackTrace(m) \/ OnSourcesReplaced(m) \/ OnInitialize(m)
               \/ OnLaunched(m) \/ OnConfigured(m) \/ OnResumed(m) \/ OnPauseAnswered(m)
               \/ OnThreads(m) \/ OnDisconnected(m)
        <3> HIDE DEF m
        <3> QED BY <1>0, <1>1, <2>2, ReplyHeld
    <2>3. CASE \/ OnInitialized(m) \/ OnStopped(m) \/ OnContinued(m) \/ OnExited(m)
               \/ OnTerminated(m) \/ OnFailed(m)
        BY <1>0, <1>1, <2>1, <2>3, EventHeld
    <2> QED BY <1>4, <2>2, <2>3 DEF OnAdapter
<1>5. CASE OnWork
    BY <1>0, <1>1, <1>5, WorkHeld
<1>6. CASE Timeout \/ Shutdown
    BY <1>6 DEF Timeout, Shutdown, Raise, HeldInv, Live, Working
<1>7. CASE \/ \E w \in Workers : Worker(w)
           \/ ClientSends \/ ClientLeaves
           \/ Adapter \/ AdapterAnswers \/ TargetStops \/ TargetExits \/ Crash
           \/ UNCHANGED vars
    <2>1. UNCHANGED <<at, session, breakpoints, conditions>>
        <3>1. CASE \E w \in Workers : Worker(w)
            BY <3>1 DEF Worker, WorkerStart, WorkerFinish, WorkerTimeout, StepWorker
        <3>2. CASE ClientSends \/ ClientLeaves \/ UNCHANGED vars
            BY <3>2 DEF ClientSends, ClientLeaves, vars
        <3>3. CASE Adapter
            BY <1>0, <3>3, AdapterEffects DEF Handle
        <3>4. CASE AdapterAnswers \/ TargetStops \/ TargetExits \/ Crash
            BY <1>0, <3>4, TargetEffects DEF Reports, TargetMoves
        <3> QED BY <1>7, <3>1, <3>2, <3>3, <3>4
    <2> QED BY <1>0, <1>1, <2>1, HeldStill
<1> QED BY <1>2, <1>3, <1>4, <1>5, <1>6, <1>7 DEF Next

\* The target moves by itself, and only when it runs.
LEMMA TokensReported ==
    ASSUME Types, ~PairedStops, KnowsStop, ResumesAlone, RefusedAlone, StopsLast,
           NEW ms \in Seq(Messages), Reports(ms)
    PROVE  (KnowsStop /\ ResumesAlone /\ RefusedAlone /\ StopsLast)'
<1>0. /\ UNCHANGED <<session, toAdapter>> /\ TargetMoves(ms, target')
      /\ Len(fromAdapter) \in Nat /\ target.alive
    BY DEF Reports, TargetMoves, Types
<1>1. \A i \in 1 .. Len(fromAdapter') :
            \/ i \in 1 .. Len(fromAdapter) /\ fromAdapter'[i] = fromAdapter[i]
            \/ /\ i \notin 1 .. Len(fromAdapter)
               /\ i - Len(fromAdapter) \in 1 .. Len(ms)
               /\ fromAdapter'[i] = ms[i - Len(fromAdapter)]
    BY <1>0, Moved
<1>2. \A i : Resuming(i)' => Resuming(i) /\ toAdapter'[i] = toAdapter[i]
    BY <1>0 DEF Resuming
<1>3. CASE SaysStopped(ms)
    <2>1. /\ ~Still /\ Still' /\ Len(ms) = 1
          /\ ms[1].type = "stopped" /\ ms[1].stop.no = target'.no
        BY <1>0, <1>3 DEF SaysStopped, Still
    <2>2. ~session'.stopped /\ \A i : ~Resuming(i)' /\ ~Refusing(i) /\ ~Stopping(i)
        BY <1>0, <1>2, <2>1 DEF KnowsStop, ResumesAlone, RefusedAlone, StopsLast
    <2> DEFINE n == Len(fromAdapter) + 1
    <2>3. \A i \in 1 .. Len(fromAdapter') :
              \/ i \in 1 .. Len(fromAdapter) /\ i < n /\ fromAdapter'[i] = fromAdapter[i]
              \/ i = n /\ fromAdapter'[i] = ms[1]
        <3> SUFFICES ASSUME NEW i \in 1 .. Len(fromAdapter'),
                            ~(i \in 1 .. Len(fromAdapter) /\ fromAdapter'[i] = fromAdapter[i])
                     PROVE  i = n /\ fromAdapter'[i] = ms[1]
            BY <1>0
        <3>1. i - Len(fromAdapter) \in 1 .. 1 /\ fromAdapter'[i] = ms[i - Len(fromAdapter)]
            BY <1>1, <2>1
        <3>2. i - Len(fromAdapter) = 1
            BY <3>1
        <3> QED BY <1>0, <3>1, <3>2
    <2> HIDE DEF n
    <2>4. /\ \A i : Stopping(i)' => i = n /\ fromAdapter'[i] = ms[1]
          /\ \A i : GoingAhead(i)' => i < n
          /\ \A i : ~Refusing(i)'
        <3>1. \A i : Stopping(i)' => i = n /\ fromAdapter'[i] = ms[1]
            BY <2>2, <2>3 DEF Stopping
        <3>2. \A i : GoingAhead(i)' => i < n
            BY <2>1, <2>3 DEF GoingAhead
        <3>3. \A i : ~Refusing(i)'
            BY <2>1, <2>2, <2>3 DEF Refusing, Refusal
        <3> QED BY <3>1, <3>2, <3>3
    <2> QED BY <2>1, <2>2, <2>4 DEF KnowsStop, ResumesAlone, RefusedAlone, StopsLast
<1>4. CASE SaysDone(ms) \/ SaysExited(ms) \/ SaysFailed(ms)
    <2>1. /\ \A k \in 1 .. Len(ms) : /\ ms[k].type \notin {"stopped", "continued"}
                                     /\ ~Refusal(ms[k])
          /\ target'.no = target.no
        <3>1. CASE SaysDone(ms)
            <4>1. \A k \in 1 .. Len(ms) : k = 1
                BY <3>1 DEF SaysDone
            <4> QED BY <3>1, <4>1 DEF SaysDone, Refusal
        <3>2. CASE SaysExited(ms)
            <4>1. \A k \in 1 .. Len(ms) : k = 1 \/ k = 2
                BY <3>2 DEF SaysExited
            <4> QED BY <3>2, <4>1 DEF SaysExited, Refusal
        <3>3. CASE SaysFailed(ms)
            <4>1. \A k \in 1 .. Len(ms) : k = 1
                BY <3>3 DEF SaysFailed
            <4> QED BY <3>3, <4>1 DEF SaysFailed, Refusal
        <3> QED BY <1>4, <3>1, <3>2, <3>3
    <2>2. Still => Still'
        BY <1>0, <1>4 DEF SaysDone, SaysExited, SaysFailed, Still
    <2>3. /\ \A i : Stopping(i)' => Stopping(i) /\ fromAdapter'[i] = fromAdapter[i]
          /\ \A i : GoingAhead(i)' => GoingAhead(i)
          /\ \A i : Refusing(i)' => Refusing(i) /\ fromAdapter'[i] = fromAdapter[i]
        BY <1>1, <2>1 DEF Stopping, GoingAhead, Refusing
    <2>4. Unsettled' => Unsettled
        BY <2>3 DEF Unsettled
    <2>5. KnowsStop' /\ ResumesAlone'
        BY <1>0, <1>2, <2>2, <2>4 DEF KnowsStop, ResumesAlone
    <2>6. RefusedAlone' /\ StopsLast'
        BY <1>0, <2>1, <2>2, <2>3 DEF RefusedAlone, StopsLast
    <2> QED BY <2>5, <2>6
<1> QED BY <1>3, <1>4 DEF Reports

LEMMA TokensKept ==
    ASSUME ~PairedStops, FlowInv, TokensInv, HeldInv, [Next]_vars
    PROVE  TokensInv'
<1> SUFFICES ASSUME Live'
             PROVE  (KnowsStop /\ ResumesAlone /\ RefusedAlone /\ StopsLast)'
    BY DEF TokensInv
<1>0. /\ SafetyInv /\ Types /\ Addressed /\ StartsOnce
    BY DEF FlowInv, SafetyInv
<1>1. Live
    BY <1>0, Monotone DEF Live
<1>2. /\ KnowsStop /\ ResumesAlone /\ RefusedAlone /\ StopsLast
      /\ conditions.active # NoJob => session.stopped
    BY <1>1 DEF TokensInv, HeldInv
<1>3. CASE OwnStep
    BY <1>0, <1>2, <1>3, TokensOwn
<1>4. CASE \E m : MessageStep(m)
    BY <1>0, <1>2, <1>4, TokensHeard
<1>5. CASE Shutdown
    BY <1>5 DEF Shutdown, Live, Working
<1>6. CASE Apart
    BY <1>2, <1>6, TokensStay DEF Apart, Resuming
<1>7. CASE \E p \in Sent, ms \in Seq(Messages) :
                 Handle(p, ms, target') /\ Effect(p, ms) /\ Address(p)
    BY <1>0, <1>1, <1>2, <1>7, TokensHandled
<1>8. CASE AdapterAnswers \/ TargetStops \/ TargetExits \/ Crash
    BY <1>0, <1>2, <1>8, TargetEffects, TokensReported
<1> QED BY <1>0, <1>3, <1>4, <1>5, <1>6, <1>7, <1>8, Steps

-----------------------------------------------------------------------------
(* Deferred requests stay in the order they were sent in, and before what the *)
(* loop has yet to take.  configurationDone alone may be deferred twice: it    *)
(* goes to the end of the queue when it waits for the default panic breakpoint.*)

Placed(q, i) == i \in 1 .. Len(q) /\ q[i].command # "configurationDone"
InTurn(q) == \A i, j : Placed(q, i) /\ Placed(q, j) /\ i < j => q[i].seq < q[j].seq
Before(q, f) == \A i, j : Placed(q, i) /\ j \in 1 .. Len(f) => q[i].seq < f[j].seq
LateInv == Working => InTurn(breakpoints.deferred) /\ Before(breakpoints.deferred, fromClient)

LEMMA TurnsTail ==
    ASSUME NEW q \in Seq(Asks), q # <<>>
    PROVE  /\ InTurn(q) => InTurn(Tail(q))
           /\ \A f : Before(q, f) => Before(Tail(q), f)
<1> DEFINE t == Tail(q)
<1>1. \A i \in 1 .. Len(t) : i \in Int /\ i + 1 \in 1 .. Len(q) /\ t[i] = q[i + 1]
    BY Tails
<1> HIDE DEF t
<1>2. \A i : Placed(t, i) => i \in Int /\ Placed(q, i + 1) /\ t[i] = q[i + 1]
    BY <1>1 DEF Placed
<1>3. ASSUME InTurn(q) PROVE InTurn(t)
    <2> SUFFICES ASSUME NEW i, NEW j, Placed(t, i), Placed(t, j), i < j
                 PROVE  t[i].seq < t[j].seq
        BY DEF InTurn
    <2>1. i + 1 < j + 1
        BY <1>2
    <2> QED BY <1>2, <1>3, <2>1 DEF InTurn
<1>4. \A f : Before(q, f) => Before(t, f)
    BY <1>2 DEF Before
<1> QED BY <1>3, <1>4 DEF t

LEMMA TurnsAppend ==
    ASSUME NEW q \in Seq(Asks), NEW x \in Asks, InTurn(q)
    PROVE  /\ x.command = "configurationDone" => InTurn(Append(q, x))
           /\ (\A i : Placed(q, i) => q[i].seq < x.seq) => InTurn(Append(q, x))
           /\ \A f : /\ Before(q, f)
                     /\ \/ x.command = "configurationDone"
                        \/ \A j \in 1 .. Len(f) : x.seq < f[j].seq
                     => Before(Append(q, x), f)
<1> DEFINE a == Append(q, x)
           n == Len(q) + 1
<1>1. \A i \in 1 .. Len(a) : \/ i \in 1 .. Len(q) /\ i < n /\ a[i] = q[i]
                             \/ i = n /\ a[i] = x
    BY Appends
<1>0. n \in Int
    OBVIOUS
<1> HIDE DEF a, n
<1>2. \A i : Placed(a, i) => \/ Placed(q, i) /\ i \in Int /\ i < n /\ a[i] = q[i]
                             \/ i = n /\ a[i] = x /\ x.command # "configurationDone"
    BY <1>1 DEF Placed
<1>3. ASSUME x.command = "configurationDone" \/ \A i : Placed(q, i) => q[i].seq < x.seq
      PROVE  InTurn(a)
    <2> SUFFICES ASSUME NEW i, NEW j, Placed(a, i), Placed(a, j), i < j
                 PROVE  a[i].seq < a[j].seq
        BY DEF InTurn
    <2>1. Placed(q, i) /\ a[i] = q[i]
        BY <1>0, <1>2
    <2>2. CASE Placed(q, j) /\ a[j] = q[j]
        BY <2>1, <2>2 DEF InTurn
    <2>3. CASE a[j] = x /\ x.command # "configurationDone"
        BY <1>3, <2>1, <2>3
    <2> QED BY <1>2, <2>2, <2>3
<1>4. \A f : /\ Before(q, f)
             /\ \/ x.command = "configurationDone"
                \/ \A j \in 1 .. Len(f) : x.seq < f[j].seq
             => Before(a, f)
    BY <1>2 DEF Before
<1> QED BY <1>3, <1>4 DEF a

\* The loop takes a request, and defers it or not.
LEMMA TurnsTaken ==
    ASSUME NEW q \in Seq(Asks), Before(q, fromClient), Types, fromClient # <<>>, Inflow
    PROVE  /\ Before(q, Tail(fromClient))
           /\ InTurn(q) /\ Head(fromClient) \in Asks
                 => /\ InTurn(Append(q, Head(fromClient)))
                    /\ Before(Append(q, Head(fromClient)), Tail(fromClient))
<1> DEFINE f == fromClient
           t == Tail(f)
           x == Head(f)
<1>1. /\ \A i \in 1 .. Len(t) : i \in Int /\ i + 1 \in 1 .. Len(f) /\ 1 < i + 1 /\ t[i] = f[i + 1]
      /\ x = f[1] /\ 1 \in 1 .. Len(f)
    <2>1. f \in Seq(Asks \cup Eofs)
        BY DEF Types
    <2> QED BY <2>1, Tails
<1>2. \A i, j \in 1 .. Len(f) : i < j => f[i].seq < f[j].seq
    BY DEF Inflow
<1>3. Before(q, f)
    OBVIOUS
<1> HIDE DEF t, f, x
<1>4. Before(q, t)
    BY <1>1, <1>3 DEF Before
<1>5. \A j \in 1 .. Len(t) : x.seq < t[j].seq
    BY <1>1, <1>2
<1>6. \A i : Placed(q, i) => q[i].seq < x.seq
    BY <1>1, <1>3 DEF Before
<1>7. ASSUME InTurn(q), x \in Asks
      PROVE  InTurn(Append(q, x)) /\ Before(Append(q, x), t)
    BY <1>4, <1>5, <1>6, <1>7, TurnsAppend
<1> QED BY <1>4, <1>7 DEF t, f, x

\* What is deferred was sent.
LEMMA DeferredSent ==
    ASSUME AnswersInv, Working, NEW i \in 1 .. Len(breakpoints.deferred)
    PROVE  breakpoints.deferred[i].seq < client.next
<1> DEFINE q == breakpoints.deferred
           r == q[i].seq
<1>0. q \in Seq(Asks) /\ client \in Editors /\ i \in 1 .. Len(q)
    BY DEF AnswersInv, Types, BreakpointStates
<1>1. r \in Others
    <2> HIDE DEF q
    <2>1. q[i] \in Asks
        BY <1>0
    <2> QED BY <2>1 DEF Asks, Others
<1>2. Count(Coming(r)) + Balance(r, pending, breakpoints, inspection.waiting, client) = 1
    BY <1>1 DEF AnswersInv, Working, Balanced
<1>3. InQueue(breakpoints.deferred, r)
    BY DEF InQueue
<1> HIDE DEF r
<1>4. Balance(r, pending, breakpoints, inspection.waiting, client) >= 1
    <2>1. client.answers[r] \in Nat
        BY <1>0, <1>1 DEF Editors, Others
    <2> QED BY <1>3, <2>1 DEF Balance, Count
<1>5. ~Coming(r)
    BY <1>0, <1>1, <1>2, <1>4, BalanceTyped DEF Count
<1>6. r \in Int /\ client.next \in Int
    BY <1>0, <1>1, LiveAssumption DEF Others, Requests, Editors
<1> QED BY <1>5, <1>6 DEF Coming, r

\* What a step does to the queue of deferred requests.
Defers ==
    LET q == breakpoints.deferred
        r == breakpoints'.deferred
    IN  /\ \/ \/ fromClient' = fromClient
              \/ fromClient # <<>> /\ fromClient' = Tail(fromClient)
           /\ \/ r \in {q, <<>>}
              \/ q # <<>> /\ r = Tail(q)
              \/ \E x \in Asks : /\ x.command = "configurationDone"
                                 /\ \/ r = Append(q, x)
                                    \/ q # <<>> /\ r = Append(Tail(q), x)
              \/ /\ fromClient # <<>> /\ fromClient' = Tail(fromClient)
                 /\ Head(fromClient) \in Asks /\ r = Append(q, Head(fromClient))

LEMMA LateDeferred ==
    ASSUME AnswersInv, LateInv, Working, Defers
    PROVE  LateInv'
<1> DEFINE q == breakpoints.deferred
           r == breakpoints'.deferred
           f == fromClient
           g == fromClient'
<1>0. /\ q \in Seq(Asks) /\ Types /\ Inflow
      /\ InTurn(q) /\ Before(q, f)
    BY DEF AnswersInv, Types, BreakpointStates, LateInv
<1>1. g = f \/ (f # <<>> /\ g = Tail(f))
    BY DEF Defers
<1>2. /\ q # <<>> => Tail(q) \in Seq(Asks)
      /\ q # <<>> => InTurn(Tail(q)) /\ Before(Tail(q), f)
    BY <1>0, TurnsTail, Tails
<1>3. \A s \in Seq(Asks) : Before(s, f) => Before(s, g)
    BY <1>0, <1>1, TurnsTaken
<1>4. CASE r = q
    BY <1>0, <1>3, <1>4 DEF LateInv
<1>5. CASE r = <<>>
    <2>1. Len(r) = 0
        BY <1>5
    <2> HIDE DEF r
    <2>2. \A i : ~Placed(r, i)
        BY <2>1 DEF Placed
    <2>3. InTurn(r) /\ Before(r, g)
        BY <2>2 DEF InTurn, Before
    <2> QED BY <2>3 DEF LateInv, r
<1>6. CASE q # <<>> /\ r = Tail(q)
    BY <1>2, <1>3, <1>6 DEF LateInv
<1>7. CASE \E x \in Asks : /\ x.command = "configurationDone"
                           /\ \/ r = Append(q, x)
                              \/ q # <<>> /\ r = Append(Tail(q), x)
    <2>1. PICK x \in Asks : /\ x.command = "configurationDone"
                            /\ \/ r = Append(q, x)
                               \/ q # <<>> /\ r = Append(Tail(q), x)
        BY <1>7
    <2>2. PICK s \in Seq(Asks) : r = Append(s, x) /\ InTurn(s) /\ Before(s, f)
        BY <1>0, <1>2, <2>1
    <2>3. Before(s, g)
        BY <1>3, <2>2
    <2>4. InTurn(r) /\ Before(r, g)
        BY <2>1, <2>2, <2>3, TurnsAppend
    <2> QED BY <2>4 DEF LateInv
<1>8. CASE /\ f # <<>> /\ g = Tail(f)
           /\ Head(f) \in Asks /\ r = Append(q, Head(f))
    <2>1. InTurn(r) /\ Before(r, g)
        BY <1>0, <1>8, TurnsTaken
    <2> QED BY <2>1 DEF LateInv
<1> QED BY <1>4, <1>5, <1>6, <1>7, <1>8 DEF Defers

\* The editor sends.
LEMMA LateSent ==
    ASSUME AnswersInv, LateInv, ClientSends \/ ClientLeaves
    PROVE  LateInv'
<1> SUFFICES ASSUME Working PROVE InTurn(breakpoints.deferred) /\ Before(breakpoints.deferred, fromClient')
    BY DEF LateInv, ClientSends, ClientLeaves, Working
<1> DEFINE q == breakpoints.deferred
           f == fromClient
<1>1. PICK command, kind : fromClient' = Append(f, Request(client.next, command, kind))
    BY DEF ClientSends, ClientLeaves
<1> DEFINE x == Request(client.next, command, kind)
           g == fromClient'
<1>2. f \in Seq(Asks \cup Eofs)
    BY DEF AnswersInv, Types
<1>3. x.seq = client.next
    BY DEF Request
<1>4. InTurn(q) /\ Before(q, f)
    BY DEF LateInv
<1>5. \A j \in 1 .. Len(g) : \/ j \in 1 .. Len(f) /\ g[j] = f[j]
                             \/ g[j] = x
    <2> HIDE DEF x, f
    <2> QED BY <1>1, <1>2 DEF x
<1>6. \A i : Placed(q, i) => q[i].seq < client.next
    BY DeferredSent DEF Placed
<1>7. Before(q, g)
    <2> HIDE DEF q, f, g, x
    <2> QED BY <1>3, <1>4, <1>5, <1>6 DEF Before
<1> QED BY <1>4, <1>7

\* Performing a request may put configurationDone off again.
LEMMA PerformDefers ==
    ASSUME NEW req \in Asks, NEW b \in BreakpointStates, Perform(req, b)
    PROVE  \/ breakpoints'.deferred = b.deferred
           \/ /\ req.command = "configurationDone"
              /\ breakpoints'.deferred = Append(b.deferred, req)
<1>1. CASE ReplaceFunctions(req, b) \/ ReplacePanic(req, b)
    BY <1>1 DEF ReplaceFunctions, ReplacePanic, BreakpointStates
<1>2. CASE ConfigurationDone(req, b)
    BY <1>2 DEF ConfigurationDone, BreakpointStates
<1>3. CASE \/ Refused(req) /\ ReplyAtOnce(req, "error", b)
           \/ ReplaceSources(req, b) \/ Variables(req, b)
           \/ Threads(req, b) \/ StackTrace(req, b)
           \/ Pause(req, b) \/ Resume(req, b)
    <2>1. breakpoints' = b
        BY <1>3 DEF ReplyAtOnce, Variables, Threads, StackTrace, Pause, Resume, ReplaceSources
    <2> QED BY <2>1
<1> QED BY <1>1, <1>2, <1>3 DEF Perform

LEMMA ClientDefers ==
    ASSUME Types, OnClient, Working'
    PROVE  Defers
<1> SUFFICES ASSUME NEW req, req = Head(fromClient), fromClient # <<>>,
                    \/ DeferRequest(req) \/ InterruptCondition(req)
                    \/ PerformRequest(req) \/ Disconnect(req)
                    \/ RefuseWhileClosing(req) \/ ClientEof(req)
             PROVE  Defers
    BY DEF OnClient
<1> DEFINE q == breakpoints.deferred
           r == breakpoints'.deferred
<1>1. /\ req.command # "eof" => req \in Asks
      /\ breakpoints \in BreakpointStates
    BY HeadTyped DEF Types, Eofs
<1>2. fromClient' = Tail(fromClient)
    BY DEF DeferRequest, InterruptCondition, PerformRequest, Disconnect,
           RefuseWhileClosing, ClientEof, TakeRequest
<1>3. CASE \/ InterruptCondition(req) \/ RefuseWhileClosing(req) \/ ClientEof(req)
    BY <1>2, <1>3 DEF InterruptCondition, RefuseWhileClosing, ReplyAtOnce, ClientEof, Defers
<1>4. CASE Disconnect(req)
    <2>1. r = <<>>
        BY <1>1, <1>4 DEF Disconnect, CancelledWork, BreakpointStates
    <2> QED BY <1>2, <2>1 DEF Defers
<1>5. CASE PerformRequest(req)
    <2>1. req \in Asks /\ Perform(req, breakpoints)
        BY <1>1, <1>5 DEF PerformRequest
    <2>2. r = q \/ (req.command = "configurationDone" /\ r = Append(q, req))
        BY <1>1, <2>1, PerformDefers
    <2> QED BY <1>2, <2>1, <2>2 DEF Defers
<1>6. CASE DeferRequest(req)
    <2>1. /\ \/ breakpoints' = breakpoints
             \/ breakpoints' = [breakpoints EXCEPT !.deferred = Append(@, req)]
          /\ Deferrable(req.command)
        BY <1>6 DEF DeferRequest, ReplyAtOnce, MustDefer
    <2>2. r = q \/ r = Append(q, req)
        BY <1>1, <2>1 DEF BreakpointStates
    <2>3. req \in Asks
        BY <1>1, <2>1 DEF Deferrable
    <2> QED BY <1>2, <2>2, <2>3 DEF Defers
<1> QED BY <1>3, <1>4, <1>5, <1>6

LEMMA DrainDefers ==
    ASSUME Types, DrainStop \/ DrainRequest
    PROVE  Defers
<1> DEFINE q == breakpoints.deferred
           r == breakpoints'.deferred
<1>0. breakpoints \in BreakpointStates /\ fromClient' = fromClient
    BY DEF Types, DrainStop, DrainRequest
<1>1. CASE DrainStop
    <2>1. r = q
        BY <1>0, <1>1 DEF DrainStop, BreakpointStates
    <2> QED BY <1>0, <2>1 DEF Defers
<1>2. CASE DrainRequest
    <2> DEFINE req == Head(q)
               b == [breakpoints EXCEPT !.deferred = Tail(@)]
    <2>1. q # <<>> /\ Perform(req, b)
        BY <1>2 DEF DrainRequest
    <2>2. q \in Seq(Asks) /\ Tail(q) \in Seq(Asks) /\ req \in Asks
        BY <1>0, <2>1 DEF BreakpointStates
    <2>3. b \in BreakpointStates /\ b.deferred = Tail(q)
        BY <1>0, <2>2 DEF BreakpointStates
    <2>4. \/ r = b.deferred
          \/ req.command = "configurationDone" /\ r = Append(b.deferred, req)
        <3> HIDE DEF b, req
        <3> QED BY <2>1, <2>2, <2>3, PerformDefers
    <2> QED BY <1>0, <2>1, <2>2, <2>3, <2>4 DEF Defers
<1> QED BY <1>1, <1>2

\* A message of lldb-dap or of a worker leaves them, or answers them all.
LEMMA MessageDefers ==
    ASSUME Types, OnAdapter \/ OnWork, Working'
    PROVE  Defers
<1> DEFINE m == Head(fromAdapter)
           q == breakpoints.deferred
           r == breakpoints'.deferred
<1>0. breakpoints \in BreakpointStates
    BY DEF Types
<1>1. ASSUME NEW c, NEW ps, NEW ws, Raise(c, ps, ws) PROVE FALSE
    BY <1>1 DEF Raise, Working
<1>2. ASSUME fromClient' = fromClient, breakpoints' = breakpoints PROVE Defers
    BY <1>2 DEF Defers
<1>3. ASSUME fromClient' = fromClient, r \in {q, <<>>} PROVE Defers
    BY <1>3 DEF Defers
<1>4. CASE \/ OnConditionContinued(m) \/ \E w \in Workers : OnWorkerReply(m, w)
           \/ \E panicked \in BOOLEAN : OnStopClassified(m, panicked)
           \/ OnStackTrace(m) \/ OnSourcesReplaced(m) \/ OnInitialize(m)
           \/ OnLaunched(m) \/ OnConfigured(m) \/ OnResumed(m) \/ OnPauseAnswered(m)
           \/ OnThreads(m) \/ OnDisconnected(m)
    <2> HIDE DEF m
    <2>1. CASE \/ OnConditionContinued(m) \/ \E w \in Workers : OnWorkerReply(m, w)
               \/ \E panicked \in BOOLEAN : OnStopClassified(m, panicked)
               \/ OnStackTrace(m) \/ OnLaunched(m) \/ OnConfigured(m) \/ OnResumed(m)
               \/ OnPauseAnswered(m) \/ OnThreads(m)
        BY <1>2, <2>1 DEF OnConditionContinued, OnWorkerReply, OnStopClassified, OnStackTrace,
           OnLaunched, OnConfigured, OnResumed, OnPauseAnswered, OnThreads,
           TakeResponse, TakeMessage
    <2>2. CASE OnSourcesReplaced(m)
        BY <1>1, <1>2, <2>2 DEF OnSourcesReplaced, TakeResponse, TakeMessage
    <2>3. CASE OnInitialize(m)
        BY <1>1, <1>2, <2>3 DEF OnInitialize, TakeResponse, TakeMessage
    <2>4. CASE OnDisconnected(m)
        BY <1>1, <1>2, <2>4 DEF OnDisconnected, TakeResponse, TakeMessage
    <2> QED BY <1>4, <2>1, <2>2, <2>3, <2>4
<1>5. CASE \/ OnInitialized(m) \/ OnStopped(m) \/ OnContinued(m) \/ OnExited(m)
           \/ OnTerminated(m) \/ OnFailed(m)
    <2> HIDE DEF m
    <2>0. fromClient' = fromClient
        BY <1>5 DEF OnInitialized, OnStopped, OnContinued, OnExited, OnTerminated, OnFailed,
                    TakeEvent, TakeMessage
    <2>1. CASE OnInitialized(m) \/ OnContinued(m)
        BY <1>2, <2>0, <2>1 DEF OnInitialized, OnContinued
    <2>2. CASE OnFailed(m)
        BY <1>1, <1>2, <2>0, <2>2 DEF OnFailed
    <2>3. CASE OnExited(m) \/ OnTerminated(m)
        <3>1. r = <<>>
            BY <1>0, <2>3 DEF OnExited, OnTerminated, CancelledWork, BreakpointStates
        <3> QED BY <1>3, <2>0, <3>1
    <2>4. CASE OnStopped(m)
        <3>1. \/ breakpoints' = breakpoints
              \/ breakpoints' = [breakpoints EXCEPT !.stops = Append(@, m.stop)]
            BY <2>4 DEF OnStopped
        <3>2. r = q
            BY <1>0, <3>1 DEF BreakpointStates
        <3> QED BY <1>3, <2>0, <3>2
    <2> QED BY <1>5, <2>1, <2>2, <2>3, <2>4
<1>6. CASE OnWork
    <2>1. CASE OnInspectDone \/ OnConditionDone \/ \E w \in Workers : OnRead(w)
        BY <1>2, <2>1 DEF OnRead, OnInspectDone, OnConditionDone, IgnoreDone, TakeWork
    <2>2. CASE OnFunctionDone
        <3>1. /\ fromClient' = fromClient
              /\ \/ breakpoints' = breakpoints
                 \/ breakpoints' = [breakpoints EXCEPT !.function = NoRequest, !.requested = "none"]
            BY <1>1, <2>2 DEF OnFunctionDone, IgnoreDone, RaiseDone, TakeWork
        <3>2. r = q
            BY <1>0, <3>1 DEF BreakpointStates
        <3> QED BY <1>3, <3>1, <3>2
    <2>3. CASE OnPanicDone
        <3>1. /\ fromClient' = fromClient
              /\ \/ breakpoints' = breakpoints
                 \/ \E installed :
                      breakpoints' = [breakpoints EXCEPT !.panic = None, !.panicConfigured = TRUE,
                                                         !.panicInstalled = installed]
            BY <1>1, <2>3 DEF OnPanicDone, IgnoreDone, RaiseDone, TakeWork
        <3>2. r = q
            BY <1>0, <3>1 DEF BreakpointStates
        <3> QED BY <1>3, <3>1, <3>2
    <2> QED BY <1>6, <2>1, <2>2, <2>3 DEF OnWork
<1> QED BY <1>4, <1>5, <1>6 DEF OnAdapter

LEMMA LateKept ==
    ASSUME FlowInv, LateInv, [Next]_vars
    PROVE  LateInv'
<1> SUFFICES ASSUME Working' PROVE LateInv'
    BY DEF LateInv
<1>0. /\ AnswersInv /\ SafetyInv /\ Types /\ Addressed /\ Working
    <2>1. SafetyInv /\ Addressed
        BY DEF FlowInv
    <2> QED BY <2>1, WorkingBefore DEF FlowInv, SafetyInv
<1>1. CASE OnClient
    BY <1>0, <1>1, ClientDefers, LateDeferred
<1>2. CASE DrainStop \/ DrainRequest
    BY <1>0, <1>2, DrainDefers, LateDeferred
<1>3. CASE OnAdapter \/ OnWork
    BY <1>0, <1>3, MessageDefers, LateDeferred
<1>4. CASE Timeout \/ Shutdown
    BY <1>4 DEF Timeout, Shutdown, Raise, Working
<1>5. CASE ClientSends \/ ClientLeaves
    BY <1>0, <1>5, LateSent
<1>6. CASE \/ \E w \in Workers : Worker(w)
           \/ Adapter \/ AdapterAnswers \/ TargetStops \/ TargetExits \/ Crash
           \/ UNCHANGED vars
    <2>1. UNCHANGED <<at, breakpoints, fromClient>>
        <3>1. CASE \E w \in Workers : Worker(w)
            BY <3>1 DEF Worker, WorkerStart, WorkerFinish, WorkerTimeout, StepWorker
        <3>2. CASE UNCHANGED vars
            BY <3>2 DEF vars
        <3>3. CASE Adapter
            BY <1>0, <3>3, AdapterEffects DEF Handle
        <3>4. CASE AdapterAnswers \/ TargetStops \/ TargetExits \/ Crash
            BY <1>0, <3>4, TargetEffects DEF Reports, TargetMoves
        <3> QED BY <1>6, <3>1, <3>2, <3>3, <3>4
    <2> QED BY <1>0, <2>1 DEF LateInv, Working
<1> QED BY <1>1, <1>2, <1>3, <1>4, <1>5, <1>6 DEF Next

-----------------------------------------------------------------------------
(* A resume of the editor goes to lldb-dap when there is no breakpoint work.  *)

Departs(p) == p \in pending' \ pending /\ p.client > 0 /\ Resumes(p.command)

\* Performing req sends a resume only when req is one, and finds no work.
LEMMA PerformDeparts ==
    ASSUME Types, NEW req, NEW b, Perform(req, b), NEW p, Departs(p)
    PROVE  /\ Resume(req, b) /\ p.client = req.seq
           /\ pending' = pending \cup {p} /\ p.command # "setBreakpoints"
<1>1. pending' # pending
    BY DEF Departs
<1>2. ASSUME NEW ps, NEW x, Send(ps, x), ps \subseteq pending
      PROVE  p = x
    BY <1>2 DEF Send, Departs
<1>3. ASSUME Forward(req, req.command) PROVE Resumes(req.command)
    <2> DEFINE x == Outgoing(FreshSeq(pending), req.seq, req.command, "client",
                             req.kind, NoStop, 0, session.revision)
    <2>1. x.command = req.command
        BY DEF Outgoing
    <2>2. p = x
        <3> HIDE DEF x
        <3> QED BY <1>2, <1>3 DEF x, Forward
    <2> QED BY <2>1, <2>2 DEF Departs
<1>4. Resume(req, b)
    BY <1>1, <1>3 DEF Perform, ReplyAtOnce, ReplaceFunctions, ReplaceSources, ReplacePanic,
       ConfigurationDone, Threads, StackTrace, Variables, Pause, Resumes
<1> DEFINE x == Outgoing(FreshSeq(pending), req.seq, req.command, "client",
                         "none", NoStop, 0, session.revision + 1)
<1>5. x.client = req.seq
    BY DEF Outgoing
<1>6. Send(pending, x)
    BY <1>4 DEF Resume
<1> HIDE DEF x
<1>7. p = x /\ pending' = pending \cup {x}
    BY <1>2, <1>6 DEF Send
<1> QED BY <1>4, <1>5, <1>7 DEF Departs, Resumes

\* Nothing else sends one.
LEMMA OthersDepart ==
    ASSUME Types, NEW p, Departs(p),
           \/ DrainStop \/ OnAdapter \/ OnWork
           \/ \E req : \/ DeferRequest(req) \/ InterruptCondition(req) \/ Disconnect(req)
                       \/ RefuseWhileClosing(req) \/ ClientEof(req)
    PROVE  FALSE
<1>1. ~(pending' \subseteq pending)
    BY DEF Departs
<1>2. ASSUME NEW ps, NEW n, NEW asked, NEW command, NEW use, NEW kind, NEW stop,
             NEW cause, NEW revision,
             Send(ps, Outgoing(n, asked, command, use, kind, stop, cause, revision)),
             ps \subseteq pending
      PROVE  asked > 0 /\ Resumes(command)
    <2> DEFINE x == Outgoing(n, asked, command, use, kind, stop, cause, revision)
    <2>1. x.client = asked /\ x.command = command
        BY DEF Outgoing
    <2> HIDE DEF x
    <2>2. p = x
        BY <1>2 DEF Send, Departs, x
    <2> QED BY <2>1, <2>2 DEF Departs
<1>3. ~(NoRequest > 0) /\ ~Resumes("launch") /\ ~Resumes("disconnect") /\ ~Resumes("work")
    BY DEF NoRequest, Resumes
<1>4. ASSUME NEW req, \/ DeferRequest(req) \/ InterruptCondition(req) \/ Disconnect(req)
                      \/ RefuseWhileClosing(req) \/ ClientEof(req)
      PROVE  FALSE
    <2>1. ~Disconnect(req)
        BY <1>2, <1>3 DEF Disconnect, Forward
    <2> QED BY <1>1, <1>4, <2>1 DEF DeferRequest, ReplyAtOnce, InterruptCondition,
               RefuseWhileClosing, ClientEof
<1>5. ASSUME NEW stop, NEW c, NEW cond, NEW ws, NEW revision,
             PublishStop(stop, c, cond, ws, revision)
      PROVE  FALSE
    BY <1>1, <1>2, <1>3, <1>5 DEF PublishStop
<1>6. ~DrainStop
    BY <1>5 DEF DrainStop
<1>7. CASE OnAdapter
    <2> DEFINE m == Head(fromAdapter)
    <2> HIDE DEF m
    <2>0. Settled(m) \subseteq pending
        BY DEF Settled
    <2>1. ASSUME NEW c, NEW ws, Raise(c, Settled(m), ws) \/ Raise(c, pending, ws) PROVE FALSE
        BY <1>1, <2>0, <2>1 DEF Raise
    <2>2. CASE \/ OnConditionContinued(m) \/ \E w \in Workers : OnWorkerReply(m, w)
               \/ \E panicked \in BOOLEAN : OnStopClassified(m, panicked)
               \/ OnStackTrace(m) \/ OnSourcesReplaced(m)
               \/ OnLaunched(m) \/ OnConfigured(m) \/ OnResumed(m) \/ OnPauseAnswered(m)
               \/ OnThreads(m) \/ OnDisconnected(m)
        BY <1>1, <2>0, <2>1, <2>2 DEF OnConditionContinued, OnWorkerReply, OnStopClassified,
           OnStackTrace, OnSourcesReplaced, OnLaunched, OnConfigured, OnResumed,
           OnPauseAnswered, OnThreads, OnDisconnected
    <2>3. CASE OnInitialize(m)
        BY <1>1, <1>2, <1>3, <2>0, <2>1, <2>3 DEF OnInitialize
    <2>4. CASE OnStopped(m)
        BY <1>1, <1>5, <2>4 DEF OnStopped
    <2>5. CASE \/ OnInitialized(m) \/ OnContinued(m) \/ OnExited(m)
               \/ OnTerminated(m) \/ OnFailed(m)
        BY <1>1, <2>1, <2>5 DEF OnInitialized, OnContinued, OnExited, OnTerminated, OnFailed
    <2> QED BY <1>7, <2>2, <2>3, <2>4, <2>5 DEF OnAdapter, m
<1>8. CASE OnWork
    <2>1. ASSUME NEW w, \/ OnRead(w) \/ IgnoreDone(w) \/ RaiseDone(w) PROVE FALSE
        BY <1>1, <1>2, <1>3, <2>1 DEF OnRead, IgnoreDone, RaiseDone, Raise
    <2>2. ~OnConditionDone
        BY <1>1, <1>2, <1>3, <2>1 DEF OnConditionDone
    <2> QED BY <1>1, <1>8, <2>1, <2>2 DEF OnWork, OnInspectDone, OnFunctionDone, OnPanicDone
<1> QED BY <1>4, <1>6, <1>7, <1>8

\* A resume that goes finds nothing unanswered but what is deferred behind it.
LEMMA DepartsFree ==
    ASSUME Types, EditsInv, Working, ~WorkPending, NEW req, NEW b, Perform(req, b),
           b.function = breakpoints.function, b.panic = breakpoints.panic,
           NEW p, Departs(p), NEW q \in Unanswered', q > 0
    PROVE  \E i \in DOMAIN b.deferred : /\ b.deferred[i].command # "configurationDone"
                                        /\ q = b.deferred[i].seq
<1>1. /\ breakpoints' = b /\ pending' = pending \cup {p} /\ p.command # "setBreakpoints"
    BY PerformDeparts DEF Resume
<1>2. EditsOf(pending) = {}
    BY DEF EditsInv, Working, WorkPending
<1>3. /\ b.function = NoRequest /\ b.panic = None
      /\ ~(NoRequest > 0) /\ ~(None > 0)
    BY DEF WorkPending, NoRequest, None
<1>4. \A x \in pending' : x.command # "setBreakpoints"
    BY <1>1, <1>2 DEF EditsOf
<1> QED BY <1>1, <1>3, <1>4 DEF Unanswered

LEMMA DepartsInOrder ==
    ASSUME FlowInv, EditsInv, HeldInv, LateInv, [Next]_vars,
           NEW p, Departs(p), NEW q \in Unanswered', q > 0
    PROVE  ~(q < p.client)
<1>0. /\ SafetyInv /\ AnswersInv /\ Types /\ DrainsAtRest /\ Closed
      /\ breakpoints \in BreakpointStates
    <2>1. SafetyInv /\ AnswersInv
        BY DEF FlowInv
    <2> QED BY <2>1 DEF SafetyInv, AnswersInv, Types
<1>1. ASSUME NEW req, PerformRequest(req)
      PROVE  FALSE
    <2>1. Perform(req, breakpoints) /\ at = "loop" /\ ~session.closing /\ ~MustDefer(req)
        BY <1>1 DEF PerformRequest, TakeRequest
    <2>2. Resume(req, breakpoints)
        BY <1>0, <2>1, PerformDeparts
    <2>3. Live /\ ~WorkPending
        BY <2>1, <2>2 DEF Resume, Resumes, CanResume, Active, Live, Working, MustDefer, Deferrable
    <2>4. breakpoints.deferred = <<>>
        BY <2>1, <2>3 DEF HeldInv, Waits
    <2>5. PICK i \in DOMAIN breakpoints.deferred : TRUE
        BY <1>0, <2>1, <2>3, DepartsFree DEF Live
    <2> QED BY <2>4, <2>5
<1>2. CASE DrainRequest
    <2> DEFINE d == breakpoints.deferred
               req == Head(d)
               b == [breakpoints EXCEPT !.deferred = Tail(@)]
    <2>1. /\ d # <<>> /\ breakpoints.stops = <<>> /\ at = "drain" /\ Perform(req, b)
        BY <1>2 DEF DrainRequest
    <2>2. Working /\ ~WorkPending
        BY <1>0, <2>1 DEF DrainsAtRest, Working
    <2>3. d \in Seq(Asks) /\ Tail(d) \in Seq(Asks)
        BY <1>0, <2>1, Tails DEF BreakpointStates
    <2>4. /\ b.deferred = Tail(d)
          /\ b.function = breakpoints.function /\ b.panic = breakpoints.panic
        BY <1>0, <2>3 DEF BreakpointStates
    <2>5. p.client = req.seq /\ req.command # "configurationDone"
        <3> HIDE DEF b, req
        <3>1. p.client = req.seq /\ Resumes(req.command)
            BY <1>0, <2>1, PerformDeparts DEF Resume
        <3> QED BY <3>1 DEF Resumes
    <2>6. PICK i \in DOMAIN Tail(d) : /\ Tail(d)[i].command # "configurationDone"
                                      /\ q = Tail(d)[i].seq
        <3> HIDE DEF b, req, d
        <3> QED BY <1>0, <2>1, <2>2, <2>4, DepartsFree
    <2>7. InTurn(d)
        BY <2>2 DEF LateInv
    <2> HIDE DEF b
    <2>8. /\ i \in Int /\ i + 1 \in 1 .. Len(d) /\ 1 < i + 1 /\ Tail(d)[i] = d[i + 1]
          /\ 1 \in 1 .. Len(d) /\ req = d[1]
        <3>1. i \in 1 .. Len(Tail(d))
            BY <2>3
        <3> QED BY <2>1, <2>3, <3>1, Tails
    <2>9. Placed(d, 1) /\ Placed(d, i + 1) /\ q = d[i + 1].seq /\ p.client = d[1].seq
        BY <2>5, <2>6, <2>8 DEF Placed
    <2>10. d[1].seq < d[i + 1].seq /\ d[1].seq \in Int /\ d[i + 1].seq \in Int
        <3>1. \A x \in Asks : x.seq \in Int
            BY LiveAssumption DEF Asks, Requests
        <3>2. d[1] \in Asks /\ d[i + 1] \in Asks
            BY <2>3, <2>8
        <3>3. d[1].seq < d[i + 1].seq
            BY <2>7, <2>8, <2>9 DEF InTurn
        <3> QED BY <3>1, <3>2, <3>3
    <2> QED BY <2>9, <2>10
<1>3. \/ DrainRequest
      \/ DrainStop \/ OnAdapter \/ OnWork
      \/ \E req : \/ DeferRequest(req) \/ InterruptCondition(req) \/ Disconnect(req)
                  \/ RefuseWhileClosing(req) \/ ClientEof(req)
      \/ pending' \subseteq pending
    <2>1. CASE OnClient
        BY <1>1, <2>1 DEF OnClient
    <2>2. CASE Timeout
        BY <2>2 DEF Timeout, Raise
    <2>6. ~Shutdown
        BY DEF Departs, Shutdown, ShutdownRequest, Outgoing, NoRequest
    <2>3. CASE \/ \E w \in Workers : Worker(w)
               \/ ClientSends \/ ClientLeaves \/ UNCHANGED vars
        BY <2>3 DEF Worker, WorkerStart, WorkerFinish, WorkerTimeout, StepWorker,
           ClientSends, ClientLeaves, vars
    <2>4. CASE Adapter
        BY <1>0, <2>4, AdapterEffects DEF Handle, FlowInv
    <2>5. CASE AdapterAnswers \/ TargetStops \/ TargetExits \/ Crash
        BY <1>0, <2>5, TargetEffects DEF Reports, TargetMoves
    <2> QED BY <2>1, <2>2, <2>3, <2>4, <2>5, <2>6 DEF Next
<1> QED BY <1>0, <1>2, <1>3, OthersDepart DEF Departs

-----------------------------------------------------------------------------

OrderInv == FlowInv /\ EditsInv /\ TokensInv /\ HeldInv /\ LateInv

LEMMA InitOrder == Init => EditsInv /\ TokensInv /\ HeldInv /\ LateInv
<1> SUFFICES ASSUME Init PROVE EditsInv /\ TokensInv /\ HeldInv /\ LateInv
    OBVIOUS
<1>1. EditsInv
    BY InitKnown
<1>2. HeldInv /\ breakpoints.deferred = <<>>
    BY DEF Init, HeldInv, Waits
<1>3. LateInv
    <2>1. \A i : ~Placed(breakpoints.deferred, i)
        BY <1>2 DEF Placed
    <2> QED BY <2>1 DEF LateInv, InTurn, Before
<1>4. TokensInv
    <2>1. ~session.stopped
        BY DEF Init, FlagsAtLaunch
    <2>2. \A i : ~Stopping(i) /\ ~GoingAhead(i) /\ ~Refusing(i)
        BY DEF Init, Stopping, GoingAhead, Refusing
    <2>3. \A i : ~Resuming(i)
        <3>1. toAdapter # <<>> =>
                 toAdapter = <<Outgoing(1, NoRequest, "initialize", "client", "none", NoStop, 0, 0)>>
            BY DEF Init
        <3>2. \A i \in 1 .. Len(toAdapter) : toAdapter[i].command = "initialize"
            BY <3>1 DEF Outgoing, Init
        <3> QED BY <3>2 DEF Resuming, Resumes
    <2> QED BY <2>1, <2>2, <2>3 DEF TokensInv, KnowsStop, ResumesAlone, RefusedAlone, StopsLast
<1> QED BY <1>1, <1>2, <1>3, <1>4

LEMMA OrderHolds == ASSUME ~PairedStops PROVE Spec => []OrderInv
<1>1. Init => EditsInv /\ TokensInv /\ HeldInv /\ LateInv
    BY InitOrder
<1>2. FlowInv /\ EditsInv /\ TokensInv /\ HeldInv /\ LateInv /\ [Next]_vars
      => (EditsInv /\ TokensInv /\ HeldInv /\ LateInv)'
    BY EditsKept, TokensKept, HeldKept, LateKept
<1> QED BY <1>1, <1>2, FlowHolds, PTL DEF Spec, OrderInv

\* Execution does not outrun installation: when the loop sends a resume of the
\* editor to lldb-dap, no breakpoint request sent before it is unanswered.  The
\* loop performs a resume when no breakpoint work is pending, requests that came
\* during such work wait for it in the order they were sent in, and none waits
\* while the loop takes messages and no work is pending.  The target is one that
\* reports each stop once.
THEOREM ExecutionNeverOutruns == ASSUME ~PairedStops PROVE Spec => ExecutionOrdered
<1> DEFINE Ordered == \A p \in pending' \ pending :
                         (p.client > 0 /\ Resumes(p.command)) =>
                             \A q \in Unanswered' : ~(q > 0 /\ q < p.client)
<1>1. OrderInv /\ [Next]_vars => Ordered
    BY DepartsInOrder DEF OrderInv, Departs
<1>2. OrderInv /\ [Next]_vars => [Ordered]_vars
    BY <1>1
<1> QED BY <1>2, OrderHolds, PTL DEF Spec, ExecutionOrdered

-----------------------------------------------------------------------------
(* The stop whose conditions are evaluated is in the hands of the condition   *)
(* worker until the loop has heard of it.                                    *)

Judge == workers["condition"]
Judging == Held(workers["condition"]) \subseteq Held(workers'["condition"])

\* The worker is done with a job of another stop.
Outdated(job) == /\ Judge.pc = "done" /\ job = Judge.job /\ ConditionEpoch # job.epoch

\* Each step drops the evaluation, leaves it with the worker at the stop it is
\* for, or hands a new one over.
Judges ==
    \/ conditions'.active = NoJob
    \/ /\ conditions'.active = conditions.active
       /\ session'.revision = session.revision \/ ~session'.stopped
       /\ \A j \in Held(Judge) : j \in Held(workers'["condition"]) \/ Outdated(j)
    \/ /\ conditions'.active.epoch = session'.revision
       /\ conditions'.active \in Held(workers'["condition"])

LEMMA EnqueueHolds ==
    ASSUME NEW ws \in [Workers -> WorkerStates], NEW job \in Orders, NEW v \in Workers,
           NEW w \in Workers
    PROVE  /\ Held(ws[w]) \subseteq Held(Enqueue(ws, v, job)[w])
           /\ w = v => job \in Held(Enqueue(ws, v, job)[w])
<1>1. CASE w # v
    <2>1. Enqueue(ws, v, job)[w] = ws[w]
        BY <1>1, EnqueueLoad
    <2> QED BY <1>1, <2>1
<1>2. CASE w = v
    <2> DEFINE to == Enqueue(ws, v, job)[w]
               me == ws[w]
    <2>1. me \in WorkerStates
        OBVIOUS
    <2>2. to = [me EXCEPT !.queue = Append(me.queue, job)]
        BY <1>2 DEF Enqueue
    <2> HIDE DEF to, me
    <2>3. /\ to.queue = Append(me.queue, job) /\ to.job = me.job /\ to.pc = me.pc
          /\ me.queue \in Seq(Orders)
        BY <2>1, <2>2 DEF WorkerStates
    <2>4. /\ Len(to.queue) = Len(me.queue) + 1 /\ to.queue[Len(me.queue) + 1] = job
          /\ Len(me.queue) \in Nat
          /\ \A i \in 1 .. Len(me.queue) : to.queue[i] = me.queue[i]
        BY <2>3, Appends
    <2>5. /\ Len(me.queue) + 1 \in 1 .. Len(to.queue)
          /\ \A i \in 1 .. Len(me.queue) : i \in 1 .. Len(to.queue)
        BY <2>4
    <2>6. Held(me) \subseteq Held(to) /\ job \in Held(to)
        BY <2>3, <2>4, <2>5 DEF Held
    <2> QED BY <2>6 DEF to, me
<1> QED BY <1>1, <1>2

\* Which steps of the workers leave the evaluation where it is.
LEMMA JudgingOn ==
    ASSUME Types
    PROVE  /\ workers' = workers => Judging
           /\ \A S : workers' = Release(workers, S) => Judging
           /\ \A v \in Workers \ {"condition"} : \A job \in Orders :
                 workers' = Enqueue(workers, v, job) => Judging
           /\ \A v \in Workers \ {"condition"} :
                 workers[v].pc = "done" /\ workers' = Rested(v) => Judging
<1>1. workers \in [Workers -> WorkerStates] /\ "condition" \in Workers
    BY DEF Types, Workers
<1>2. workers' = workers => Judging
    BY DEF Judging
<1>3. ASSUME NEW S, workers' = Release(workers, S) PROVE Judging
    BY <1>1, <1>3, ReleaseLoad DEF Judging
<1>4. ASSUME NEW v \in Workers \ {"condition"}, NEW job \in Orders,
             workers' = Enqueue(workers, v, job)
      PROVE  Judging
    BY <1>1, <1>4, EnqueueHolds DEF Judging
<1>5. ASSUME NEW v \in Workers \ {"condition"}, workers[v].pc = "done", workers' = Rested(v)
      PROVE  Judging
    <2>1. workers'["condition"] = workers["condition"]
        BY <1>1, <1>5, RestedLoad
    <2> QED BY <2>1 DEF Judging
<1> QED BY <1>2, <1>3, <1>4, <1>5

\* The step of one worker.
LEMMA JudgingOne ==
    ASSUME Types, NEW v \in Workers, NEW to, workers' = [workers EXCEPT ![v] = to],
           v = "condition" => Held(workers[v]) \subseteq Held(to)
    PROVE  Judging
<1>1. workers \in [Workers -> WorkerStates] /\ "condition" \in Workers
    BY DEF Types, Workers
<1>2. CASE v = "condition"
    <2>1. workers'["condition"] = to
        BY <1>1, <1>2
    <2> QED BY <1>2, <2>1 DEF Judging
<1>3. CASE v # "condition"
    <2>1. workers'["condition"] = workers["condition"]
        BY <1>1, <1>3
    <2> QED BY <2>1 DEF Judging
<1> QED BY <1>2, <1>3

LEMMA JudgesOn ==
    ASSUME Judging, conditions'.active = conditions.active,
           session'.revision = session.revision \/ ~session'.stopped
    PROVE  Judges
BY DEF Judging, Judges, Judge

LEMMA PerformJudges ==
    ASSUME Types, NEW req \in Asks, NEW b \in BreakpointStates, Perform(req, b),
           Deferrable(req.command) => ~WorkPending
    PROVE  Judges
<1>0. conditions \in ConditionStates /\ session \in Flags
      /\ session.revision \in Nat
    BY DEF Types, Flags
<1>1. conditions'.active = conditions.active
    BY PerformCourse
<1>2. CASE \/ Refused(req) /\ ReplyAtOnce(req, "error", b)
           \/ ReplaceSources(req, b) \/ Threads(req, b) \/ StackTrace(req, b)
           \/ Pause(req, b)
    <2>1. workers' = workers
          /\ session' \in {session, [session EXCEPT !.pauseRevision = session.revision]}
        BY <1>2 DEF ReplyAtOnce, ReplaceSources, Threads, StackTrace, Pause
    <2>2. session'.revision = session.revision
        BY <1>0, <2>1 DEF Flags
    <2> QED BY <1>1, <2>1, <2>2, JudgingOn, JudgesOn
<1>3. CASE ReplaceFunctions(req, b) \/ ReplacePanic(req, b)
    <2> DEFINE job == [NoJob EXCEPT !.cause = req.seq, !.kind = req.kind]
    <2>1. job \in Orders
        BY <1>3, Values DEF ReplaceFunctions, ReplacePanic, Orders, Asks, Valid, KnownKinds
    <2>2. /\ session' = session
          /\ \/ workers' = Enqueue(workers, "function", job)
             \/ workers' = Enqueue(workers, "panic", job)
        BY <1>3 DEF ReplaceFunctions, ReplacePanic
    <2> HIDE DEF job
    <2> QED BY <1>1, <2>1, <2>2, JudgingOn, JudgesOn DEF Workers
<1>4. CASE ConfigurationDone(req, b)
    <2> DEFINE job == [NoJob EXCEPT !.kind = "plain"]
    <2>1. job \in Orders
        BY Values DEF Orders, KnownKinds, Kinds
    <2>2. /\ session' \in {session, [session EXCEPT !.configured = TRUE]}
          /\ \/ workers' = workers
             \/ workers' = Enqueue(workers, "panic", job)
        BY <1>4 DEF ConfigurationDone
    <2>3. session'.revision = session.revision
        BY <1>0, <2>2 DEF Flags
    <2> HIDE DEF job
    <2> QED BY <1>1, <2>1, <2>2, <2>3, JudgingOn, JudgesOn DEF Workers
<1>5. CASE Variables(req, b)
    <2> DEFINE job == [NoJob EXCEPT !.cause = req.seq, !.epoch = InspectionEpoch,
                                      !.frame = req.frame]
    <2>1. job \in Orders
        <3>1. InspectionEpoch \in Revisions
            BY <1>0 DEF InspectionEpoch, Revisions
        <3> QED BY <3>1, Values DEF Orders, Asks
    <2>2. /\ session' = session /\ workers' = Enqueue(workers, "inspection", job)
        BY <1>5 DEF Variables
    <2> HIDE DEF job
    <2> QED BY <1>1, <2>1, <2>2, JudgingOn, JudgesOn DEF Workers
<1>6. CASE Resume(req, b)
    <2>1. /\ session' = [session EXCEPT !.stopped = FALSE, !.revision = @ + 1]
          /\ workers' = Release(workers, {"inspection", "condition"})
        BY <1>6 DEF Resume
    <2>2. ~session'.stopped
        BY <1>0, <2>1 DEF Flags
    <2> QED BY <1>1, <2>1, <2>2, JudgingOn, JudgesOn
<1> QED BY <1>2, <1>3, <1>4, <1>5, <1>6 DEF Perform

\* A stop is published at the revision it has just got.
LEMMA PublishJudges ==
    ASSUME Types, NEW stop \in Stops, NEW c, NEW cond \in ConditionStates,
           NEW ws \in [Workers -> WorkerStates], NEW revision \in Nat,
           \/ PublishStop(stop, c, cond, ws, revision)
           \/ PublishConditionStop(stop, c, cond, ws, revision),
           revision = session'.revision,
           \/ cond.active = NoJob
           \/ ws = workers /\ cond.active = conditions.active
              /\ session'.revision = session.revision
    PROVE  Judges
<1> DEFINE job == ConditionJob(stop, revision)
<1>1. /\ job \in Orders /\ job.epoch = revision
    BY Values DEF ConditionJob, Orders, Revisions
<1>2. \/ conditions' = cond /\ workers' = ws
      \/ /\ conditions' = [cond EXCEPT !.active = job]
         /\ workers' = Enqueue(ws, "condition", job)
    BY DEF PublishStop, PublishConditionStop
<1> HIDE DEF job
<1>3. CASE conditions' = cond /\ workers' = ws
    <2>1. CASE cond.active = NoJob
        BY <1>3, <2>1 DEF Judges
    <2>2. CASE cond.active # NoJob
        BY <1>3, <2>2, JudgingOn, JudgesOn
    <2> QED BY <2>1, <2>2
<1>4. CASE /\ conditions' = [cond EXCEPT !.active = job]
           /\ workers' = Enqueue(ws, "condition", job)
    <2>1. conditions'.active = job
        BY <1>4 DEF ConditionStates
    <2>2. job \in Held(workers'["condition"])
        BY <1>1, <1>4, EnqueueHolds DEF Workers
    <2> QED BY <1>1, <2>1, <2>2 DEF Judges
<1> QED BY <1>2, <1>3, <1>4

LEMMA ClientJudges ==
    ASSUME Types, Live, Live', OnClient
    PROVE  Judges
<1> SUFFICES ASSUME NEW req, req = Head(fromClient), fromClient # <<>>,
                    \/ DeferRequest(req) \/ InterruptCondition(req)
                    \/ PerformRequest(req) \/ Disconnect(req)
                    \/ RefuseWhileClosing(req) \/ ClientEof(req)
             PROVE  Judges
    BY DEF OnClient
<1>1. /\ req \in Asks \cup Eofs
      /\ req.command # "eof" => req \in Asks
      /\ breakpoints \in BreakpointStates /\ conditions \in ConditionStates
      /\ session \in Flags
    BY HeadTyped DEF Types, Eofs
<1>2. CASE DeferRequest(req)
    <2>1. UNCHANGED <<session, conditions, workers>>
        BY <1>2 DEF DeferRequest, ReplyAtOnce
    <2> QED BY <2>1, JudgingOn, JudgesOn
<1>3. CASE InterruptCondition(req)
    <2>1. conditions' = [conditions EXCEPT !.active = NoJob]
        BY <1>3 DEF InterruptCondition
    <2>2. conditions'.active = NoJob
        BY <1>1, <2>1 DEF ConditionStates
    <2> QED BY <2>2 DEF Judges
<1>4. CASE PerformRequest(req)
    <2>1. req \in Asks /\ Perform(req, breakpoints) /\ ~MustDefer(req)
        BY <1>1, <1>4 DEF PerformRequest
    <2>2. Deferrable(req.command) => ~WorkPending
        BY <2>1 DEF MustDefer
    <2> QED BY <1>1, <2>1, <2>2, PerformJudges
<1>5. CASE RefuseWhileClosing(req) \/ ClientEof(req)
    BY <1>5 DEF RefuseWhileClosing, ClientEof, Live, Working
<1>6. CASE Disconnect(req)
    <2>1. session'.closing
        BY <1>1, <1>6 DEF Disconnect, Flags
    <2> QED BY <2>1 DEF Live
<1> QED BY <1>2, <1>3, <1>4, <1>5, <1>6

LEMMA DrainJudges ==
    ASSUME Types, DrainsAtRest, DrainStop \/ DrainRequest
    PROVE  Judges
<1>1. /\ breakpoints \in BreakpointStates /\ conditions \in ConditionStates
      /\ workers \in [Workers -> WorkerStates] /\ session.revision \in Nat
    BY DEF Types, Flags
<1>2. CASE DrainStop
    <2> DEFINE stop == Head(breakpoints.stops)
    <2>1. /\ PublishStop(stop, client, conditions, workers, session.revision)
          /\ session' = session /\ breakpoints.stops # <<>>
        BY <1>2 DEF DrainStop
    <2>2. stop \in Stops
        BY <1>1, <2>1, HeadTyped DEF BreakpointStates
    <2> HIDE DEF stop
    <2> QED BY <1>1, <2>1, <2>2, PublishJudges
<1>3. CASE DrainRequest
    <2> DEFINE req == Head(breakpoints.deferred)
               b == [breakpoints EXCEPT !.deferred = Tail(@)]
    <2>1. /\ breakpoints.deferred # <<>> /\ breakpoints.stops = <<>> /\ at = "drain"
          /\ Perform(req, b)
        BY <1>3 DEF DrainRequest
    <2>2. breakpoints.deferred \in Seq(Asks) /\ Tail(breakpoints.deferred) \in Seq(Asks)
          /\ req \in Asks
        BY <1>1, <2>1 DEF BreakpointStates
    <2>3. b \in BreakpointStates
        BY <1>1, <2>2 DEF BreakpointStates
    <2>4. ~WorkPending
        BY <1>1, <2>1 DEF DrainsAtRest
    <2> HIDE DEF req, b
    <2> QED BY <2>1, <2>2, <2>3, <2>4, PerformJudges
<1> QED BY <1>2, <1>3

LEMMA ReplyJudges ==
    ASSUME Types, Live, Live', NEW m,
           \/ OnConditionContinued(m) \/ \E w \in Workers : OnWorkerReply(m, w)
           \/ \E panicked \in BOOLEAN : OnStopClassified(m, panicked)
           \/ OnStackTrace(m) \/ OnSourcesReplaced(m) \/ OnInitialize(m)
           \/ OnLaunched(m) \/ OnConfigured(m) \/ OnResumed(m) \/ OnPauseAnswered(m)
           \/ OnThreads(m) \/ OnDisconnected(m)
    PROVE  Judges
<1>0. conditions \in ConditionStates /\ session \in Flags /\ session.revision \in Nat
      /\ workers \in [Workers -> WorkerStates]
    BY DEF Types, Flags
<1>1. CASE OnConditionContinued(m)
    <2>1. /\ workers' = workers
          /\ session' \in {session, [session EXCEPT !.stopped = TRUE]}
          /\ conditions' \in {conditions, [conditions EXCEPT !.suppress = FALSE]}
        BY <1>1 DEF OnConditionContinued
    <2>2. conditions'.active = conditions.active /\ session'.revision = session.revision
        BY <1>0, <2>1 DEF ConditionStates, Flags
    <2> QED BY <2>1, <2>2, JudgingOn, JudgesOn
<1>2. CASE \E w \in Workers : OnWorkerReply(m, w)
    <2>1. PICK w \in Workers : OnWorkerReply(m, w)
        BY <1>2
    <2> DEFINE me == workers[w]
               to == [me EXCEPT !.pc = "replied", !.seq = 0, !.result = m.value, !.data = m.data]
    <2>2. /\ UNCHANGED <<session, conditions>>
          /\ \/ workers' = workers
             \/ me.pc = "wait" /\ workers' = [workers EXCEPT ![w] = to]
        BY <2>1 DEF OnWorkerReply
    <2>3. to.queue = me.queue /\ to.job = me.job /\ to.pc = "replied"
        BY <1>0 DEF WorkerStates
    <2>4. me.pc = "wait" => Held(to) = Held(me)
        <3> HIDE DEF to, me
        <3> QED BY <2>3, SameLoad
    <2> HIDE DEF to
    <2>5. Judging
        BY <2>2, <2>4, JudgingOn, JudgingOne
    <2> QED BY <2>2, <2>5, JudgesOn
<1>3. CASE \E panicked \in BOOLEAN : OnStopClassified(m, panicked)
    <2>1. /\ session' = session /\ m.request \in pending
          /\ \/ UNCHANGED <<conditions, workers>>
             \/ PublishConditionStop(m.request.stop, client, conditions, workers,
                                     session.revision)
        BY <1>3 DEF OnStopClassified, TakeResponse
    <2> DEFINE stop == m.request.stop
    <2>2. stop \in Stops
        BY <2>1 DEF Types, Sent
    <2>3. UNCHANGED <<conditions, workers>>
          \/ PublishConditionStop(stop, client, conditions, workers, session.revision)
        BY <2>1
    <2> HIDE DEF stop
    <2>4. CASE UNCHANGED <<conditions, workers>>
        BY <2>1, <2>4, JudgingOn, JudgesOn
    <2>5. CASE PublishConditionStop(stop, client, conditions, workers, session.revision)
        BY <1>0, <2>1, <2>2, <2>5, PublishJudges
    <2> QED BY <2>3, <2>4, <2>5
<1>4. CASE OnStackTrace(m) \/ OnThreads(m)
    <2>1. UNCHANGED <<session, conditions, workers>>
        BY <1>4 DEF OnStackTrace, OnThreads
    <2> QED BY <2>1, JudgingOn, JudgesOn
<1>5. CASE OnInitialize(m)
    <2>1. UNCHANGED <<session, conditions, workers>>
        BY <1>5 DEF OnInitialize, Raise, Live, Working
    <2> QED BY <2>1, JudgingOn, JudgesOn
<1>6. CASE OnSourcesReplaced(m)
    <2>1. m.ok
        BY <1>6 DEF OnSourcesReplaced, Raise, Live, Working
    <2>2. /\ conditions' = [conditions EXCEPT !.updating = FALSE,
                                  !.bindings["source"] = m.request.kind]
          /\ UNCHANGED <<session, workers>>
        BY <1>6, <2>1 DEF OnSourcesReplaced
    <2>3. conditions'.active = conditions.active
        BY <1>0, <2>2 DEF ConditionStates
    <2> QED BY <2>2, <2>3, JudgingOn, JudgesOn
<1>7. CASE OnLaunched(m) \/ OnConfigured(m) \/ OnResumed(m) \/ OnPauseAnswered(m)
    <2>1. UNCHANGED <<conditions, workers>>
        BY <1>7 DEF OnLaunched, OnConfigured, OnResumed, OnPauseAnswered
    <2>2. session'.revision = session.revision
        <3> USE <1>0 DEF Flags
        <3>1. CASE OnLaunched(m)
            BY <3>1 DEF OnLaunched, Finished
        <3>2. CASE OnConfigured(m)
            BY <3>2 DEF OnConfigured, Finished
        <3>3. CASE OnResumed(m)
            BY <3>3 DEF OnResumed
        <3>4. CASE OnPauseAnswered(m)
            BY <3>4 DEF OnPauseAnswered
        <3> QED BY <1>7, <3>1, <3>2, <3>3, <3>4
    <2> QED BY <2>1, <2>2, JudgingOn, JudgesOn
<1>8. CASE OnDisconnected(m)
    BY <1>8 DEF OnDisconnected, Raise, Live, Working
<1> QED BY <1>1, <1>2, <1>3, <1>4, <1>5, <1>6, <1>7, <1>8

LEMMA EventJudges ==
    ASSUME Types, Live, Live', NEW m,
           \/ OnInitialized(m) \/ OnStopped(m) \/ OnContinued(m) \/ OnExited(m)
           \/ OnTerminated(m) \/ OnFailed(m)
    PROVE  Judges
<1>0. /\ conditions \in ConditionStates /\ session \in Flags
      /\ session.revision \in Nat /\ workers \in [Workers -> WorkerStates]
    BY DEF Types, Flags
<1>1. CASE OnInitialized(m)
    <2>1. UNCHANGED <<conditions, workers>> /\ session' = [session EXCEPT !.ready = TRUE]
        BY <1>1 DEF OnInitialized
    <2>2. session'.revision = session.revision
        BY <1>0, <2>1 DEF Flags
    <2> QED BY <2>1, <2>2, JudgingOn, JudgesOn
<1>2. CASE OnStopped(m)
    <2> DEFINE cond == [conditions EXCEPT !.active = NoJob, !.suppress = FALSE,
                            !.stepping = @ \/ session.pauseRevision # None]
               ws == Release(workers, {"inspection", "condition"})
    <2>1. /\ session' = [session EXCEPT !.stopped = TRUE, !.revision = session.revision + 1,
                                        !.pauseRevision = None]
          /\ \/ conditions' = cond
             \/ PublishStop(m.stop, AnswerStale(client), cond, ws, session.revision + 1)
        BY <1>2 DEF OnStopped, Live
    <2>2. /\ cond \in ConditionStates /\ cond.active = NoJob
          /\ ws \in [Workers -> WorkerStates]
        BY <1>0, Values, ReleaseTyped DEF ConditionStates
    <2>3. session'.revision = session.revision + 1 /\ session.revision + 1 \in Nat
        BY <1>0, <2>1 DEF Flags
    <2>4. m.stop \in Stops
        BY <1>2, MessageTyped DEF OnStopped, TakeEvent, Messages
    <2> HIDE DEF cond, ws
    <2>5. CASE conditions' = cond
        BY <2>2, <2>5 DEF Judges
    <2>6. CASE PublishStop(m.stop, AnswerStale(client), cond, ws, session.revision + 1)
        <3> DEFINE stop == m.stop
                   c == AnswerStale(client)
                   n == session.revision + 1
        <3>1. PublishStop(stop, c, cond, ws, n) /\ stop \in Stops /\ n \in Nat
              /\ n = session'.revision
            BY <2>3, <2>4, <2>6
        <3> HIDE DEF stop, c, n
        <3> QED BY <2>2, <3>1, PublishJudges
    <2> QED BY <2>1, <2>5, <2>6
<1>3. CASE OnContinued(m)
    <2>1. /\ session' = [session EXCEPT !.stopped = FALSE, !.revision = @ + 1]
          /\ workers' = Release(workers, {"inspection", "condition"})
          /\ conditions' = [conditions EXCEPT !.suppress = FALSE]
        BY <1>3 DEF OnContinued, Live
    <2>2. ~session'.stopped /\ conditions'.active = conditions.active
        BY <1>0, <2>1 DEF Flags, ConditionStates
    <2> QED BY <2>1, <2>2, JudgingOn, JudgesOn
<1>4. CASE OnExited(m)
    BY <1>0, <1>4 DEF OnExited, Flags, Live
<1>5. CASE OnTerminated(m)
    BY <1>0, <1>5 DEF OnTerminated, Finished, Flags, Live
<1>6. CASE OnFailed(m)
    BY <1>6 DEF OnFailed, Raise, Live, Working
<1> QED BY <1>1, <1>2, <1>3, <1>4, <1>5, <1>6

LEMMA WorkJudges ==
    ASSUME Types, Live, Live', OnWork
    PROVE  Judges
<1>0. conditions \in ConditionStates /\ session \in Flags /\ session.revision \in Nat
      /\ workers \in [Workers -> WorkerStates]
    BY DEF Types, Flags
<1>1. ASSUME NEW w \in Workers, OnRead(w) PROVE Judges
    <2> DEFINE me == workers[w]
               n == FreshSeq(pending)
               to1 == [me EXCEPT !.pc = "wait", !.seq = n]
               to2 == [me EXCEPT !.pc = "replied", !.result = "error"]
    <2>1. me \in WorkerStates /\ me.pc = "read" /\ UNCHANGED <<session, conditions>>
        BY <1>0, <1>1 DEF OnRead, TakeWork
    <2>2. \/ workers' = [workers EXCEPT ![w].pc = "wait", ![w].seq = n]
          \/ workers' = [workers EXCEPT ![w].pc = "replied", ![w].result = "error"]
        BY <1>1 DEF OnRead
    <2>3. workers' = [workers EXCEPT ![w] = to1] \/ workers' = [workers EXCEPT ![w] = to2]
        BY <1>0, <2>2
    <2> HIDE DEF me, n
    <2>4. /\ to1.queue = me.queue /\ to1.job = me.job /\ to1.pc = "wait"
          /\ to2.queue = me.queue /\ to2.job = me.job /\ to2.pc = "replied"
        BY <2>1 DEF WorkerStates
    <2> HIDE DEF to1, to2
    <2>5. Held(to1) = Held(me) /\ Held(to2) = Held(me)
        BY <2>1, <2>4, SameLoad
    <2>6. Judging
        BY <2>3, <2>5, JudgingOne DEF me
    <2> QED BY <2>1, <2>6, JudgesOn
<1>2. ASSUME NEW w \in Workers, RaiseDone(w) PROVE FALSE
    BY <1>2 DEF RaiseDone, Raise, Live, Working
<1>3. ASSUME NEW w \in Workers \ {"condition"}, workers[w].pc = "done", workers' = Rested(w),
             conditions'.active = conditions.active, session' = session
      PROVE  Judges
    BY <1>3, JudgingOn, JudgesOn
<1>4. CASE OnInspectDone
    <2>1. workers["inspection"].pc = "done" /\ workers' = Rested("inspection")
          /\ UNCHANGED <<session, conditions>>
        BY <1>4 DEF OnInspectDone, TakeWork
    <2> QED BY <1>3, <2>1 DEF Workers
<1>5. CASE OnFunctionDone
    <2>1. /\ workers["function"].pc = "done" /\ workers' = Rested("function")
          /\ session' = session
          /\ conditions' \in {conditions, [conditions EXCEPT !.bindings["function"] =
                                              breakpoints.requested]}
        BY <1>2, <1>5 DEF OnFunctionDone, IgnoreDone, TakeWork, Workers
    <2>2. conditions'.active = conditions.active
        BY <1>0, <2>1 DEF ConditionStates
    <2> QED BY <1>3, <2>1, <2>2 DEF Workers
<1>6. CASE OnPanicDone
    <2>1. /\ workers["panic"].pc = "done" /\ workers' = Rested("panic")
          /\ UNCHANGED <<session, conditions>>
        BY <1>2, <1>6 DEF OnPanicDone, IgnoreDone, TakeWork, Workers
    <2> QED BY <1>3, <2>1 DEF Workers
<1>7. CASE OnConditionDone
    <2>1. CASE ConditionEpoch # Judge.job.epoch
        <3>1. /\ Judge.pc = "done" /\ workers' = Rested("condition")
              /\ UNCHANGED <<session, conditions>>
            BY <1>7, <2>1 DEF OnConditionDone, IgnoreDone, TakeWork, Judge
        <3> DEFINE to == Rested("condition")["condition"]
        <3>2. /\ workers'["condition"] = to /\ to.queue = Judge.queue
            BY <1>0, <3>1 DEF Rested, Judge, Workers, WorkerStates
        <3> HIDE DEF to
        <3>3. \A j \in Held(Judge) : j \in Held(workers'["condition"]) \/ Outdated(j)
            BY <2>1, <3>1, <3>2 DEF Held, Outdated
        <3> QED BY <3>1, <3>3 DEF Judges
    <2>2. CASE ConditionEpoch = Judge.job.epoch
        <3>1. conditions' \in {[conditions EXCEPT !.active = NoJob, !.suppress = TRUE],
                               [conditions EXCEPT !.active = NoJob]}
            BY <1>7, <2>2 DEF OnConditionDone, Judge
        <3>2. conditions'.active = NoJob
            BY <1>0, <3>1 DEF ConditionStates
        <3> QED BY <3>2 DEF Judges
    <2> QED BY <2>1, <2>2
<1> QED BY <1>1, <1>4, <1>5, <1>6, <1>7 DEF OnWork

LEMMA WorkerJudges ==
    ASSUME Types, NEW w \in Workers, Worker(w)
    PROVE  Judges
<1> DEFINE me == workers[w]
<1>1. me \in WorkerStates /\ UNCHANGED <<session, conditions>>
    BY DEF Worker, WorkerStart, WorkerFinish, WorkerTimeout, StepWorker, Types
<1>2. ASSUME NEW to, workers' = [workers EXCEPT ![w] = to], Held(me) \subseteq Held(to)
      PROVE  Judges
    BY <1>1, <1>2, JudgingOne, JudgesOn
<1>3. CASE WorkerStart(w)
    <2> DEFINE job == Head(me.queue)
               taken == [me EXCEPT !.queue = Tail(me.queue), !.job = job]
               to1 == [taken EXCEPT !.pc = "done", !.result = "error"]
               to2 == [taken EXCEPT !.pc = "done", !.result = "ok"]
               to3 == [taken EXCEPT !.pc = "read"]
    <2>1. /\ me.pc = "idle" /\ me.queue # <<>>
          /\ \/ workers' = [workers EXCEPT ![w] = to1]
             \/ workers' = [workers EXCEPT ![w] = to2]
             \/ workers' = [workers EXCEPT ![w] = to3]
        BY <1>3 DEF WorkerStart, StepWorker
    <2> HIDE DEF me
    <2> DEFINE q == me.queue
               r == Tail(q)
    <2>2. q \in Seq(Orders) /\ q # <<>>
        BY <1>1, <2>1 DEF WorkerStates
    <2>3. \A to \in {to1, to2, to3} : to.queue = r /\ to.job = job /\ to.pc # "idle"
        BY <1>1 DEF WorkerStates
    <2>4. job = Head(q)
        OBVIOUS
    <2> HIDE DEF job, taken, to1, to2, to3
    <2>5. job = q[1] /\ \A i \in 1 .. Len(q) : i = 1 \/ (i - 1 \in 1 .. Len(r) /\ r[i - 1] = q[i])
        <3> HIDE DEF q
        <3>1. Len(r) = Len(q) - 1 /\ Len(q) \in Nat /\ Head(q) = q[1]
              /\ \A i \in 1 .. Len(r) : r[i] = q[i + 1]
            BY <2>2, Tails
        <3> HIDE DEF r
        <3> QED BY <2>4, <3>1
    <2>6. ASSUME NEW to \in {to1, to2, to3} PROVE Held(me) \subseteq Held(to)
        <3>1. Held(me) = {q[i] : i \in 1 .. Len(q)}
            BY <2>1 DEF Held
        <3>2. Held(to) = {r[i] : i \in 1 .. Len(r)} \cup {job}
            BY <2>3 DEF Held
        <3> HIDE DEF q, r
        <3> QED BY <2>5, <3>1, <3>2
    <2> QED BY <1>2, <2>1, <2>6 DEF me
<1>4. ASSUME WorkerFinish(w) \/ WorkerTimeout(w) PROVE Judges
    <2> DEFINE result == IF EpochHolds(w, me.job) THEN me.result ELSE "error"
               installed == IF me.result = "ok" THEN me.job.kind # "none"
                            ELSE me.installed
               to1 == [me EXCEPT !.pc = "done", !.result = result,
                                 !.installed = installed]
               to2 == [me EXCEPT !.pc = "done", !.seq = 0, !.result = "error"]
    <2>1. /\ me.pc # "idle"
          /\ workers' = [workers EXCEPT ![w] = to1] \/ workers' = [workers EXCEPT ![w] = to2]
        BY <1>4 DEF WorkerFinish, WorkerTimeout, StepWorker
    <2> HIDE DEF me, result, installed
    <2>2. /\ to1.queue = me.queue /\ to1.job = me.job /\ to1.pc = "done"
          /\ to2.queue = me.queue /\ to2.job = me.job /\ to2.pc = "done"
        BY <1>1 DEF WorkerStates
    <2> HIDE DEF to1, to2
    <2>3. Held(to1) = Held(me) /\ Held(to2) = Held(me)
        BY <2>1, <2>2, SameLoad
    <2> QED BY <1>2, <2>1, <2>3 DEF me
<1> QED BY <1>3, <1>4 DEF Worker

\* The stop under evaluation is the one the session is at, and its evaluation is
\* with the condition worker.
JudgedInv ==
    Live /\ conditions.active # NoJob =>
        /\ conditions.active.epoch = session.revision
        /\ conditions.active \in Held(workers["condition"])

LEMMA JudgedKept ==
    ASSUME FlowInv, HeldInv, HeldInv', JudgedInv, [Next]_vars
    PROVE  JudgedInv'
<1>0. SafetyInv /\ Types /\ Addressed /\ DrainsAtRest
    BY DEF FlowInv, AnswersInv, SafetyInv
<1> SUFFICES ASSUME Live', conditions'.active # NoJob
             PROVE  /\ conditions'.active.epoch = session'.revision
                    /\ conditions'.active \in Held(workers'["condition"])
    BY DEF JudgedInv
<1>1. Live
    BY <1>0, Monotone DEF Live
<1>2. session'.stopped
    BY DEF HeldInv
<1>3. ASSUME Judges
      PROVE  /\ conditions'.active.epoch = session'.revision
             /\ conditions'.active \in Held(workers'["condition"])
    <2> SUFFICES ASSUME conditions'.active = conditions.active,
                        session'.revision = session.revision,
                        \A j \in Held(Judge) : j \in Held(workers'["condition"]) \/ Outdated(j)
                 PROVE  /\ conditions'.active.epoch = session'.revision
                        /\ conditions'.active \in Held(workers'["condition"])
        BY <1>2, <1>3 DEF Judges
    <2>1. /\ conditions.active.epoch = session.revision
          /\ conditions.active \in Held(Judge)
          /\ session.stopped
        BY <1>1 DEF JudgedInv, HeldInv, Judge
    <2>2. ConditionEpoch = session.revision
        BY <1>1, <2>1 DEF ConditionEpoch, Inspectable, Live
    <2>3. ~Outdated(conditions.active)
        BY <2>1, <2>2 DEF Outdated
    <2> QED BY <2>1, <2>3
<1>4. CASE OnClient \/ DrainStop \/ DrainRequest \/ OnWork \/ \E w \in Workers : Worker(w)
    BY <1>0, <1>1, <1>3, <1>4, ClientJudges, DrainJudges, WorkJudges, WorkerJudges
<1>5. CASE OnAdapter
    BY <1>0, <1>1, <1>3, <1>5, ReplyJudges, EventJudges DEF OnAdapter
<1>6. CASE Timeout \/ Shutdown
    BY <1>6 DEF Timeout, Shutdown, Raise, Live, Working
<1>7. CASE \/ ClientSends \/ ClientLeaves
           \/ Adapter \/ AdapterAnswers \/ TargetStops \/ TargetExits \/ Crash
           \/ UNCHANGED vars
    <2>1. UNCHANGED <<session, workers, conditions>>
        <3>1. CASE ClientSends \/ ClientLeaves \/ UNCHANGED vars
            BY <3>1 DEF ClientSends, ClientLeaves, vars
        <3>2. CASE Adapter
            BY <1>0, <3>2, AdapterEffects DEF Handle
        <3>3. CASE AdapterAnswers \/ TargetStops \/ TargetExits \/ Crash
            BY <1>0, <3>3, TargetEffects DEF Reports, TargetMoves
        <3> QED BY <1>7, <3>1, <3>2, <3>3
    <2>2. Judges
        BY <1>0, <2>1, JudgingOn, JudgesOn
    <2> QED BY <1>3, <2>2
<1> QED BY <1>4, <1>5, <1>6, <1>7 DEF Next

-----------------------------------------------------------------------------
(* A request in the router is on its way to lldb-dap, in its hands, or        *)
(* answered; only the launch may wait for the configuration.                  *)

Responds(m, p) == m.type = "response" /\ m.request = p

\* lldb-dap has the request in hand or answers it with what it sends.
Comes(p, ms) ==
    \/ p.command = "launch"
    \/ p # NoOutgoing /\ target'.busy = p
    \/ \E i \in 1 .. Len(ms) : Responds(ms[i], p)

LEMMA ResponseComes ==
    ASSUME NEW p, NEW m \in Messages, Responds(m, p)
    PROVE  /\ <<m>> \in Seq(Messages) /\ Comes(p, <<m>>)
           /\ \A n \in Messages : /\ <<m, n>> \in Seq(Messages) /\ Comes(p, <<m, n>>)
                                  /\ <<n, m>> \in Seq(Messages) /\ Comes(p, <<n, m>>)
<1>1. <<m>> \in Seq(Messages) /\ Comes(p, <<m>>)
    <2> DEFINE s == <<m>>
    <2>1. s \in Seq(Messages) /\ Len(s) = 1 /\ s[1] = m
        BY Short
    <2> HIDE DEF s
    <2>2. Comes(p, s)
        BY <2>1 DEF Comes
    <2> QED BY <2>1, <2>2 DEF s
<1>2. ASSUME NEW n \in Messages
      PROVE  /\ <<m, n>> \in Seq(Messages) /\ Comes(p, <<m, n>>)
             /\ <<n, m>> \in Seq(Messages) /\ Comes(p, <<n, m>>)
    <2> DEFINE s == <<m, n>>
               t == <<n, m>>
    <2>1. /\ s \in Seq(Messages) /\ Len(s) = 2 /\ s[1] = m
          /\ t \in Seq(Messages) /\ Len(t) = 2 /\ t[2] = m
        BY Short
    <2> HIDE DEF s, t
    <2>2. Comes(p, s) /\ Comes(p, t)
        BY <2>1 DEF Comes
    <2> QED BY <2>1, <2>2 DEF s, t
<1> QED BY <1>1, <1>2

LEMMA AnyReplies ==
    ASSUME Types, NEW p \in Sent
    PROVE  /\ \A ok \in BOOLEAN : Reply(p, ok) \in Messages /\ Responds(Reply(p, ok), p)
           /\ Reply(target.launch, TRUE) \in Messages
           /\ \A type \in {"initialized", "continued", "exited", "terminated", "failed"} :
                 Event(type) \in Messages
<1>1. target.launch \in Sent /\ NoStop \in Stops
    BY Values DEF Types, Targets
<1>2. ASSUME NEW ok \in BOOLEAN PROVE Reply(p, ok) \in Messages /\ Responds(Reply(p, ok), p)
    BY <1>1, Wording DEF Responds
<1>3. Reply(target.launch, TRUE) \in Messages
    BY <1>1, Wording
<1>4. \A type \in {"initialized", "continued", "exited", "terminated", "failed"} :
                 Event(type) \in Messages
    BY <1>1, Wording
<1> QED BY <1>2, <1>3, <1>4

LEMMA LaunchResponds ==
    ASSUME Types, NEW p \in Sent, AdapterLaunches(p) \/ AdapterRefuses(p)
    PROVE  \E ms \in Seq(Messages) : Handle(p, ms, target') /\ Comes(p, ms)
<1> DEFINE good == Reply(p, TRUE)
           bad == Reply(p, FALSE)
           ready == Event("initialized")
           launched == Reply(target.launch, TRUE)
<1>1. /\ good \in Messages /\ Responds(good, p)
      /\ bad \in Messages /\ Responds(bad, p)
      /\ ready \in Messages /\ launched \in Messages
    BY AnyReplies
<1>2. \E t : \/ Handle(p, <<good>>, t) \/ Handle(p, <<bad>>, t)
             \/ Handle(p, <<good, ready>>, t)
             \/ p.command = "launch" /\ Handle(p, <<ready>>, t)
             \/ Handle(p, <<good, launched>>, t)
    BY DEF AdapterLaunches, AdapterRefuses
<1> HIDE DEF good, bad, ready, launched
<1>3. \A ms, t : Handle(p, ms, t) => Handle(p, ms, target')
    BY DEF Handle
<1>4. /\ <<good>> \in Seq(Messages) /\ Comes(p, <<good>>)
      /\ <<bad>> \in Seq(Messages) /\ Comes(p, <<bad>>)
      /\ <<good, ready>> \in Seq(Messages) /\ Comes(p, <<good, ready>>)
      /\ <<good, launched>> \in Seq(Messages) /\ Comes(p, <<good, launched>>)
    BY <1>1, ResponseComes
<1>5. <<ready>> \in Seq(Messages) /\ (p.command = "launch" => Comes(p, <<ready>>))
    BY <1>1, Short DEF Comes
<1> QED BY <1>2, <1>3, <1>4, <1>5

LEMMA InstallResponds ==
    ASSUME Types, NEW p \in Sent, Installs(p)
    PROVE  \E ms \in Seq(Messages) : Handle(p, ms, target') /\ Comes(p, ms)
<1>1. PICK t : /\ Handle(p, <<>>, t) /\ t.busy = p
               /\ p.command = "setBreakpoints" \/ p.use \in {"function", "panic"}
    <2>1. target \in Targets
        BY DEF Types
    <2> DEFINE done == [target EXCEPT !.busy = p]
    <2>2. /\ \A x : [done EXCEPT !.source = x].busy = p
          /\ \A x : [done EXCEPT !.function = x].busy = p
          /\ \A x : [done EXCEPT !.panic = x].busy = p
        BY <2>1 DEF Targets
    <2>3. /\ p.command = "setBreakpoints" \/ p.use \in {"function", "panic"}
          /\ \/ \E x : Handle(p, <<>>, [done EXCEPT !.source = x])
             \/ \E x : Handle(p, <<>>, [done EXCEPT !.function = x])
             \/ \E x : Handle(p, <<>>, [done EXCEPT !.panic = x])
        BY DEF Installs
    <2> HIDE DEF done
    <2> QED BY <2>2, <2>3
<1>2. p # NoOutgoing
    BY <1>1 DEF NoOutgoing, Outgoing
<1>3. Handle(p, <<>>, target') /\ target'.busy = p
    BY <1>1 DEF Handle
<1> QED BY <1>2, <1>3, Short DEF Comes

LEMMA InspectResponds ==
    ASSUME Types, NEW p \in Sent, Inspects(p)
    PROVE  \E ms \in Seq(Messages) : Handle(p, ms, target') /\ Comes(p, ms)
<1> DEFINE stopped == target.state = "stopped"
<1>1. PICK m \in Messages : Responds(m, p) /\ \E t : Handle(p, <<m>>, t)
    <2>1. stopped \in BOOLEAN
        OBVIOUS
    <2>2. CASE \E ok \in BOOLEAN : Handle(p, <<Reply(p, ok)>>, target)
        <3>1. PICK ok \in BOOLEAN : Handle(p, <<Reply(p, ok)>>, target)
            BY <2>2
        <3>2. Reply(p, ok) \in Messages /\ Responds(Reply(p, ok), p)
            BY AnyReplies
        <3> QED BY <3>1, <3>2
    <2>3. CASE \E holds \in BOOLEAN : \E b \in BOOLEAN :
                  Handle(p, <<Message("response", p, b,
                                IF ~b THEN "error"
                                ELSE IF holds THEN "true" ELSE "false", NoStop)>>, target)
        <3>1. PICK holds \in BOOLEAN, b \in BOOLEAN :
                  Handle(p, <<Message("response", p, b,
                                IF ~b THEN "error"
                                ELSE IF holds THEN "true" ELSE "false", NoStop)>>, target)
            BY <2>3
        <3> DEFINE value == IF ~b THEN "error" ELSE IF holds THEN "true" ELSE "false"
                   m == Message("response", p, b, value, NoStop)
        <3>2. value \in Results
            BY DEF Results
        <3>3. m \in Messages
            BY <3>2, MessagesTyped, Values
        <3>4. Responds(m, p)
            BY DEF Message, Responds
        <3>5. Handle(p, <<m>>, target)
            BY <3>1
        <3> HIDE DEF m
        <3> QED BY <3>3, <3>4, <3>5
    <2>4. \A holds \in IF target.no = p.stop.no THEN {p.stop.holds} ELSE BOOLEAN :
              holds \in BOOLEAN
        BY DEF Sent, Stops
    <2>5. \/ \E ok \in BOOLEAN : Handle(p, <<Reply(p, ok)>>, target)
          \/ \E holds \in IF target.no = p.stop.no THEN {p.stop.holds} ELSE BOOLEAN :
                  Handle(p, <<Message("response", p, stopped,
                                IF ~stopped THEN "error"
                                ELSE IF holds THEN "true" ELSE "false", NoStop)>>, target)
        BY <2>1 DEF Inspects
    <2> QED BY <2>1, <2>2, <2>3, <2>4, <2>5
<1>2. <<m>> \in Seq(Messages) /\ Comes(p, <<m>>)
    BY <1>1, ResponseComes
<1> QED BY <1>1, <1>2 DEF Handle

LEMMA MoveResponds ==
    ASSUME Types, NEW p \in Sent, Continues(p) \/ Halts(p) \/ Leaves(p)
    PROVE  \E ms \in Seq(Messages) : Handle(p, ms, target') /\ Comes(p, ms)
<1> DEFINE running == [target EXCEPT !.state = "running"]
           where == [NoStop EXCEPT !.no = target.no + 1]
           stop == StopEvent(where)
           continued == Event("continued")
           terminated == Event("terminated")
           good == Reply(p, TRUE)
           bad == Reply(p, FALSE)
<1>1. /\ good \in Messages /\ Responds(good, p)
      /\ bad \in Messages /\ Responds(bad, p)
      /\ continued \in Messages /\ terminated \in Messages
    BY AnyReplies
<1>2. target \in Targets /\ target.no \in Nat /\ NoOutgoing \in Sent
    BY Values DEF Types, Targets
<1>3. stop \in Messages
    <2>1. where \in Stops
        BY <1>2, Values DEF Stops
    <2> HIDE DEF where
    <2> QED BY <1>2, <2>1, Wording
<1>4. \A ms, t : Handle(p, ms, t) => Handle(p, ms, target') /\ target' = t
    BY DEF Handle
<1>5. [running EXCEPT !.busy = p].busy = p
    BY <1>2 DEF Targets
<1>6. \/ /\ Resumes(p.command)
         /\ Handle(p, <<>>, [running EXCEPT !.busy = p])
            \/ Handle(p, <<continued>>, [running EXCEPT !.busy = p])
      \/ \E t : \/ Handle(p, <<good, continued>>, t)
                \/ Handle(p, <<bad>>, t) \/ Handle(p, <<good>>, t)
                \/ Handle(p, <<good, stop>>, t) \/ Handle(p, <<stop, good>>, t)
                \/ Handle(p, Append(<<>>, good), t)
                \/ Handle(p, Append(<<terminated>>, good), t)
    <2>1. CASE Continues(p)
        BY <2>1 DEF Continues
    <2>2. CASE Halts(p)
        BY <2>2 DEF Halts
    <2>3. CASE Leaves(p)
        BY <2>3 DEF Leaves
    <2> QED BY <2>1, <2>2, <2>3
<1> HIDE DEF running, where, stop, continued, terminated, good, bad
<1>7. /\ <<>> \in Seq(Messages) /\ <<continued>> \in Seq(Messages)
      /\ Append(<<>>, good) = <<good>> /\ Append(<<terminated>>, good) = <<terminated, good>>
    BY <1>1, Short, Appending
<1>8. /\ <<good>> \in Seq(Messages) /\ Comes(p, <<good>>)
      /\ <<bad>> \in Seq(Messages) /\ Comes(p, <<bad>>)
      /\ \A n \in {continued, terminated, stop} :
            /\ <<good, n>> \in Seq(Messages) /\ Comes(p, <<good, n>>)
            /\ <<n, good>> \in Seq(Messages) /\ Comes(p, <<n, good>>)
    BY <1>1, <1>3, ResponseComes
<1>9. CASE /\ Resumes(p.command)
           /\ Handle(p, <<>>, [running EXCEPT !.busy = p])
              \/ Handle(p, <<continued>>, [running EXCEPT !.busy = p])
    <2>1. target'.busy = p
        BY <1>4, <1>5, <1>9
    <2>2. p # NoOutgoing
        BY <1>9 DEF Resumes, NoOutgoing, Outgoing
    <2>3. Comes(p, <<>>) /\ Comes(p, <<continued>>)
        BY <2>1, <2>2 DEF Comes
    <2> QED BY <1>4, <1>7, <1>9, <2>3
<1> QED BY <1>4, <1>6, <1>7, <1>8, <1>9

LEMMA AllRespond ==
    ASSUME Types, Adapter
    PROVE  \E p \in Sent, ms \in Seq(Messages) : Handle(p, ms, target') /\ Comes(p, ms)
<1> DEFINE p == Head(toAdapter)
<1>1. p \in Sent
    BY DEF Adapter, Types
<1>2. \/ AdapterLaunches(p) \/ AdapterRefuses(p) \/ Installs(p) \/ Inspects(p)
      \/ Continues(p) \/ Halts(p) \/ Leaves(p)
    BY DEF Adapter
<1> HIDE DEF p
<1> QED BY <1>1, <1>2, LaunchResponds, InstallResponds, InspectResponds, MoveResponds

\* A response that was heard is no longer waited for.
LEMMA ResponseSettles ==
    ASSUME Types, OnAdapter, Working', NEW p, Responds(Head(fromAdapter), p)
    PROVE  p \notin pending'
<1> DEFINE m == Head(fromAdapter)
<1>1. m.request = p /\ m.type = "response"
    BY DEF Responds
<1> HIDE DEF m
<1>2. \/ OnConditionContinued(m) \/ (\E w \in Workers : OnWorkerReply(m, w))
      \/ (\E panicked \in BOOLEAN : OnStopClassified(m, panicked))
      \/ OnStackTrace(m) \/ OnSourcesReplaced(m) \/ OnInitialize(m) \/ OnLaunched(m)
      \/ OnConfigured(m) \/ OnResumed(m) \/ OnPauseAnswered(m) \/ OnThreads(m)
      \/ OnDisconnected(m)
    BY <1>1 DEF OnAdapter, m, OnInitialized, OnStopped, OnContinued, OnExited, OnTerminated,
       OnFailed, TakeEvent
<1>3. CASE OnInitialize(m)
    <2>1. p.command = "initialize"
        BY <1>1, <1>3 DEF OnInitialize
    <2>2. \/ pending' = Settled(m)
          \/ \E q : q.command = "launch" /\ pending' = Settled(m) \cup {q}
        BY <1>3 DEF OnInitialize, Raise, Send, Outgoing
    <2>3. p \notin Settled(m)
        BY <1>1 DEF Settled
    <2> QED BY <2>1, <2>2, <2>3
<1>4. CASE OnSourcesReplaced(m) \/ OnDisconnected(m)
    BY <1>1, <1>4 DEF OnSourcesReplaced, OnDisconnected, Settled, Raise
<1>5. CASE \/ OnConditionContinued(m) \/ (\E w \in Workers : OnWorkerReply(m, w))
           \/ (\E panicked \in BOOLEAN : OnStopClassified(m, panicked))
           \/ OnStackTrace(m) \/ OnLaunched(m) \/ OnConfigured(m) \/ OnResumed(m)
           \/ OnPauseAnswered(m) \/ OnThreads(m)
    <2>1. pending' = Settled(m)
        BY <1>5 DEF OnConditionContinued, OnWorkerReply, OnStopClassified, OnStackTrace,
           OnLaunched, OnConfigured, OnResumed, OnPauseAnswered, OnThreads
    <2> QED BY <1>1, <2>1 DEF Settled
<1> QED BY <1>2, <1>3, <1>4, <1>5

\* Where a request in the router can be, the launch aside, while lldb-dap lives.
TravelInv ==
    Working /\ target.alive =>
        \A q \in pending :
            \/ q.command = "launch"
            \/ \E i \in 1 .. Len(toAdapter) : toAdapter[i] = q
            \/ q # NoOutgoing /\ target.busy = q
            \/ \E i \in 1 .. Len(fromAdapter) : Responds(fromAdapter[i], q)

LEMMA TravelOnLoop ==
    ASSUME Types, TravelInv, SendsLittle, Lasts, UNCHANGED target, Working',
           \/ fromAdapter' = fromAdapter
           \/ /\ fromAdapter # <<>> /\ fromAdapter' = Tail(fromAdapter)
              /\ \A q : Responds(Head(fromAdapter), q) => q \notin pending'
    PROVE  TravelInv'
<1> SUFFICES ASSUME target.alive, NEW q \in pending', q.command # "launch"
             PROVE  (\/ \E i \in 1 .. Len(toAdapter) : toAdapter[i] = q
                     \/ q # NoOutgoing /\ target.busy = q
                     \/ \E i \in 1 .. Len(fromAdapter) : Responds(fromAdapter[i], q))'
    BY DEF TravelInv
<1>1. Working
    BY DEF Lasts
<1>2. \/ q \in pending
      \/ \E i \in 1 .. Len(toAdapter') : toAdapter'[i] = q
    <2>1. CASE \E p : Sends(p)
        <3>1. PICK p : Sends(p)
            BY <2>1
        <3>2. PICK ps \in SUBSET pending : Goes(p, ps)
            BY <3>1 DEF Sends
        <3>3. q \in pending \/ q = p
            BY <3>2 DEF Goes
        <3>4. /\ Len(toAdapter) \in Nat /\ Len(toAdapter') = Len(toAdapter) + 1
              /\ toAdapter'[Len(toAdapter) + 1] = p
            BY <3>2, Grown
        <3>5. Len(toAdapter) + 1 \in 1 .. Len(toAdapter')
            BY <3>4
        <3> QED BY <3>3, <3>4, <3>5
    <2> QED BY <2>1 DEF SendsLittle
<1>3. (\E i \in 1 .. Len(toAdapter) : toAdapter[i] = q)
      => \E i \in 1 .. Len(toAdapter') : toAdapter'[i] = q
    <2>1. CASE \E p : Sends(p)
        <3>1. PICK p : Sends(p)
            BY <2>1
        <3>2. PICK ps \in SUBSET pending : Goes(p, ps)
            BY <3>1 DEF Sends
        <3>3. /\ Len(toAdapter) \in Nat /\ Len(toAdapter') = Len(toAdapter) + 1
              /\ \A i \in 1 .. Len(toAdapter) : toAdapter'[i] = toAdapter[i]
            BY <3>2, Grown
        <3>4. \A i \in 1 .. Len(toAdapter) : i \in 1 .. Len(toAdapter')
            BY <3>3
        <3> QED BY <3>3, <3>4
    <2> QED BY <2>1 DEF SendsLittle
<1>4. (\E i \in 1 .. Len(fromAdapter) : Responds(fromAdapter[i], q))
      => \E i \in 1 .. Len(fromAdapter') : Responds(fromAdapter'[i], q)
    <2>1. CASE fromAdapter' = fromAdapter
        BY <2>1
    <2>2. CASE /\ fromAdapter # <<>> /\ fromAdapter' = Tail(fromAdapter)
               /\ \A x : Responds(Head(fromAdapter), x) => x \notin pending'
        <3>1. /\ fromAdapter \in Seq(Messages) /\ ~Responds(Head(fromAdapter), q)
            BY <2>2 DEF Types
        <3> SUFFICES ASSUME NEW i \in 1 .. Len(fromAdapter), Responds(fromAdapter[i], q)
                     PROVE  \E j \in 1 .. Len(fromAdapter') : Responds(fromAdapter'[j], q)
            OBVIOUS
        <3>2. Head(fromAdapter) = fromAdapter[1]
            BY <2>2, <3>1, Heard
        <3>3. i # 1
            BY <3>1, <3>2
        <3>4. /\ Len(fromAdapter) \in Nat /\ Len(fromAdapter') = Len(fromAdapter) - 1
              /\ \A j \in 1 .. Len(fromAdapter') :
                    j + 1 \in 1 .. Len(fromAdapter) /\ fromAdapter'[j] = fromAdapter[j + 1]
            BY <2>2, Heard
        <3>5. i - 1 \in 1 .. Len(fromAdapter') /\ (i - 1) + 1 = i
            BY <3>3, <3>4
        <3>6. fromAdapter'[i - 1] = fromAdapter[i]
            BY <3>4, <3>5
        <3> QED BY <3>5, <3>6
    <2> QED BY <2>1, <2>2
<1>5. CASE q \in pending
    <2>1. \/ \E i \in 1 .. Len(toAdapter) : toAdapter[i] = q
          \/ q # NoOutgoing /\ target.busy = q
          \/ \E i \in 1 .. Len(fromAdapter) : Responds(fromAdapter[i], q)
        BY <1>1, <1>5 DEF TravelInv
    <2> QED BY <1>3, <1>4, <2>1
<1> QED BY <1>2, <1>5

LEMMA TravelKept ==
    ASSUME SafetyInv, Addressed, TravelInv, [Next]_vars
    PROVE  TravelInv'
<1> SUFFICES ASSUME Working', target'.alive PROVE TravelInv'
    BY DEF TravelInv
<1>0. Types /\ Closed
    BY DEF SafetyInv
<1>1. CASE OnClient \/ DrainStop \/ DrainRequest \/ OnWork \/ Timeout
    <2>1. OwnStep
        BY <1>0, <1>1, ClientSteps, DrainSteps, WorkSteps, TimeoutSteps
    <2> QED BY <1>0, <2>1, TravelOnLoop DEF OwnStep
<1>2. CASE OnAdapter
    <2>1. PICK m : MessageStep(m)
        BY <1>0, <1>2, AdapterSteps
    <2>2. \A q : Responds(Head(fromAdapter), q) => q \notin pending'
        BY <1>0, <1>2, ResponseSettles
    <2> QED BY <1>0, <2>1, <2>2, TravelOnLoop DEF MessageStep
<1>3. CASE Adapter
    <2>1. PICK p \in Sent, ms \in Seq(Messages) : Handle(p, ms, target') /\ Comes(p, ms)
        BY <1>0, <1>3, AllRespond
    <2>2. /\ UNCHANGED <<at, pending>> /\ target.alive /\ target.busy = NoOutgoing
          /\ toAdapter # <<>> /\ toAdapter' = Tail(toAdapter) /\ p = Head(toAdapter)
          /\ fromAdapter' = fromAdapter \o ms
        BY <2>1 DEF Handle
    <2>3. /\ p = toAdapter[1] /\ Len(toAdapter) \in Nat
          /\ Len(toAdapter') = Len(toAdapter) - 1
          /\ \A i \in 1 .. Len(toAdapter') :
                i + 1 \in 1 .. Len(toAdapter) /\ toAdapter'[i] = toAdapter[i + 1]
          /\ \A i \in 1 .. Len(fromAdapter) :
                 i \in 1 .. Len(fromAdapter') /\ fromAdapter'[i] = fromAdapter[i]
        BY <1>0, <2>1, Handled
    <2>4. (\E i \in 1 .. Len(ms) : Responds(ms[i], p))
          => \E i \in 1 .. Len(fromAdapter') : Responds(fromAdapter'[i], p)
        <3> SUFFICES ASSUME NEW i \in 1 .. Len(ms), Responds(ms[i], p)
                     PROVE  \E j \in 1 .. Len(fromAdapter') : Responds(fromAdapter'[j], p)
            OBVIOUS
        <3>1. /\ Len(fromAdapter) \in Nat /\ Len(ms) \in Nat
              /\ Len(fromAdapter') = Len(fromAdapter) + Len(ms)
              /\ \A j \in 1 .. Len(fromAdapter') :
                     \/ j \in 1 .. Len(fromAdapter)
                     \/ fromAdapter'[j] = ms[j - Len(fromAdapter)]
            BY <1>0, <2>2, Joins DEF Types
        <3>2. /\ Len(fromAdapter) + i \in 1 .. Len(fromAdapter')
              /\ Len(fromAdapter) + i \notin 1 .. Len(fromAdapter)
              /\ (Len(fromAdapter) + i) - Len(fromAdapter) = i
            BY <3>1
        <3>3. fromAdapter'[Len(fromAdapter) + i] = ms[i]
            BY <3>1, <3>2
        <3> QED BY <3>2, <3>3
    <2> SUFFICES ASSUME NEW q \in pending, q.command # "launch"
                 PROVE  (\/ \E i \in 1 .. Len(toAdapter) : toAdapter[i] = q
                         \/ q # NoOutgoing /\ target.busy = q
                         \/ \E i \in 1 .. Len(fromAdapter) : Responds(fromAdapter[i], q))'
        BY <2>2 DEF TravelInv
    <2>5. \/ \E i \in 1 .. Len(toAdapter) : toAdapter[i] = q
          \/ \E i \in 1 .. Len(fromAdapter) : Responds(fromAdapter[i], q)
        BY <2>2 DEF TravelInv, Working
    <2>6. CASE q = p
        BY <2>1, <2>4, <2>6 DEF Comes
    <2>7. CASE q # p
        <3>1. ASSUME NEW i \in 1 .. Len(toAdapter), toAdapter[i] = q
              PROVE  \E j \in 1 .. Len(toAdapter') : toAdapter'[j] = q
            <4>1. i - 1 \in 1 .. Len(toAdapter') /\ (i - 1) + 1 = i
                BY <2>3, <2>7, <3>1
            <4>2. toAdapter'[i - 1] = toAdapter[i]
                BY <2>3, <4>1
            <4> QED BY <3>1, <4>1, <4>2
        <3>2. (\E i \in 1 .. Len(fromAdapter) : Responds(fromAdapter[i], q))
              => \E i \in 1 .. Len(fromAdapter') : Responds(fromAdapter'[i], q)
            BY <2>3
        <3> QED BY <2>5, <3>1, <3>2
    <2> QED BY <2>6, <2>7
<1>4. CASE AdapterAnswers \/ TargetStops \/ TargetExits \/ Crash
    <2>1. PICK ms \in Seq(Messages) : Reports(ms)
        BY <1>0, <1>4, TargetEffects
    <2>2. /\ UNCHANGED <<at, pending, toAdapter>> /\ target.alive
          /\ fromAdapter' = fromAdapter \o ms
          /\ \A i \in 1 .. Len(fromAdapter) :
                 i \in 1 .. Len(fromAdapter') /\ fromAdapter'[i] = fromAdapter[i]
        BY <1>0, <2>1, Moved DEF Reports, TargetMoves
    <2>3. (\E i \in 1 .. Len(ms) : Responds(ms[i], target.busy))
          => \E i \in 1 .. Len(fromAdapter') : Responds(fromAdapter'[i], target.busy)
        <3> SUFFICES ASSUME NEW i \in 1 .. Len(ms), Responds(ms[i], target.busy)
                     PROVE  \E j \in 1 .. Len(fromAdapter') :
                                Responds(fromAdapter'[j], target.busy)
            OBVIOUS
        <3>1. /\ Len(fromAdapter) \in Nat /\ Len(ms) \in Nat
              /\ Len(fromAdapter') = Len(fromAdapter) + Len(ms)
              /\ \A j \in 1 .. Len(fromAdapter') :
                     \/ j \in 1 .. Len(fromAdapter)
                     \/ fromAdapter'[j] = ms[j - Len(fromAdapter)]
            BY <1>0, <2>2, Joins DEF Types
        <3>2. /\ Len(fromAdapter) + i \in 1 .. Len(fromAdapter')
              /\ Len(fromAdapter) + i \notin 1 .. Len(fromAdapter)
              /\ (Len(fromAdapter) + i) - Len(fromAdapter) = i
            BY <3>1
        <3>3. fromAdapter'[Len(fromAdapter) + i] = ms[i]
            BY <3>1, <3>2
        <3> QED BY <3>2, <3>3
    <2>4. \/ target'.busy = target.busy
          \/ \E i \in 1 .. Len(ms) : Responds(ms[i], target.busy)
        BY <2>1 DEF Reports, SaysDone, SaysStopped, SaysExited, SaysFailed, Responds
    <2> SUFFICES ASSUME NEW q \in pending, q.command # "launch"
                 PROVE  (\/ \E i \in 1 .. Len(toAdapter) : toAdapter[i] = q
                         \/ q # NoOutgoing /\ target.busy = q
                         \/ \E i \in 1 .. Len(fromAdapter) : Responds(fromAdapter[i], q))'
        BY <2>2 DEF TravelInv
    <2>5. \/ \E i \in 1 .. Len(toAdapter) : toAdapter[i] = q
          \/ q # NoOutgoing /\ target.busy = q
          \/ \E i \in 1 .. Len(fromAdapter) : Responds(fromAdapter[i], q)
        BY <2>2 DEF TravelInv, Working
    <2> QED BY <2>2, <2>3, <2>4, <2>5
<1>5. CASE Shutdown
    BY <1>5 DEF Shutdown, Working
<1>6. CASE UNCHANGED vars \/ (\E w \in Workers : Worker(w)) \/ ClientSends \/ ClientLeaves
    <2>1. UNCHANGED <<at, pending, toAdapter, fromAdapter, target>>
        BY <1>6 DEF vars, Worker, WorkerStart, WorkerFinish, WorkerTimeout, StepWorker,
           ClientSends, ClientLeaves
    <2> QED BY <2>1 DEF TravelInv, Working
<1> QED BY <1>1, <1>2, <1>3, <1>4, <1>5, <1>6 DEF Next

\* An exit is followed by the end of the session.
Ending(i) == i \in 1 .. Len(fromAdapter) /\ fromAdapter[i].type = "terminated"
FollowedInv ==
    Working /\ ~session.ended =>
        /\ session.exited => \E i : Ending(i)
        /\ \A i : Exiting(i) => \E j : j > i /\ Ending(j)

LEMMA TerminatedEnds ==
    ASSUME Types, OnAdapter, Head(fromAdapter).type = "terminated"
    PROVE  session'.ended
<1> DEFINE m == Head(fromAdapter)
<1>1. m.type = "terminated" /\ session \in Flags
    BY DEF Types
<1> HIDE DEF m
<1>2. OnTerminated(m)
    BY <1>1 DEF OnAdapter, m, OnConditionContinued, OnWorkerReply, OnStopClassified,
       OnStackTrace, OnSourcesReplaced, OnInitialize, OnLaunched, OnConfigured, OnResumed,
       OnPauseAnswered, OnThreads, OnDisconnected, TakeResponse,
       OnInitialized, OnStopped, OnContinued, OnExited, OnFailed, TakeEvent
<1> QED BY <1>1, <1>2 DEF OnTerminated, Finished, Flags

LEMMA FollowedKept ==
    ASSUME SafetyInv, Addressed, FollowedInv, [Next]_vars
    PROVE  FollowedInv'
<1> SUFFICES ASSUME Working', ~session'.ended PROVE FollowedInv'
    BY DEF FollowedInv
<1>0. Types /\ Closed
    BY DEF SafetyInv
<1>1. CASE OwnStep
    BY <1>1 DEF OwnStep, Lasts, FollowedInv, Ending, Exiting
<1>2. CASE OnAdapter
    <2>1. PICK m : MessageStep(m)
        BY <1>0, <1>2, AdapterSteps
    <2>2. /\ Working /\ ~session.ended /\ m = Head(fromAdapter)
          /\ session'.exited = (session.exited \/ m.type = "exited")
        BY <2>1 DEF MessageStep, Lasts
    <2>3. /\ m = fromAdapter[1] /\ 1 \in 1 .. Len(fromAdapter) /\ Len(fromAdapter) \in Nat
          /\ Len(fromAdapter') = Len(fromAdapter) - 1
          /\ \A i \in 1 .. Len(fromAdapter') :
                i + 1 \in 1 .. Len(fromAdapter) /\ fromAdapter'[i] = fromAdapter[i + 1]
        BY <1>0, <2>1, Heard DEF MessageStep
    <2>4. m.type # "terminated"
        BY <1>0, <1>2, <2>2, TerminatedEnds
    <2>5. \A j : Ending(j) => j \in Int /\ j > 1 /\ Ending(j - 1)'
        <3> SUFFICES ASSUME NEW j, Ending(j) PROVE j \in Int /\ j > 1 /\ Ending(j - 1)'
            OBVIOUS
        <3>1. j \in 1 .. Len(fromAdapter) /\ fromAdapter[j].type = "terminated"
            BY DEF Ending
        <3>2. j # 1
            BY <2>3, <2>4, <3>1
        <3>3. j \in Int /\ j > 1 /\ j - 1 \in 1 .. Len(fromAdapter') /\ (j - 1) + 1 = j
            BY <2>3, <3>1, <3>2
        <3>4. fromAdapter'[j - 1] = fromAdapter[j]
            BY <2>3, <3>3
        <3> QED BY <3>1, <3>3, <3>4 DEF Ending
    <2>6. m.type = "exited" => Exiting(1)
        BY <2>3 DEF Exiting
    <2>7. session'.exited => \E i : Ending(i)'
        BY <2>2, <2>5, <2>6 DEF FollowedInv
    <2>8. \A i : Exiting(i)' => \E j : j > i /\ Ending(j)'
        <3> SUFFICES ASSUME NEW i, Exiting(i)' PROVE \E j : j > i /\ Ending(j)'
            OBVIOUS
        <3>1. i \in Int /\ Exiting(i + 1)
            BY <2>3 DEF Exiting
        <3>2. PICK j : j > i + 1 /\ Ending(j)
            BY <2>2, <3>1 DEF FollowedInv
        <3>3. j \in Int /\ Ending(j - 1)'
            BY <2>5, <3>2
        <3>4. j - 1 > i
            BY <3>1, <3>2, <3>3
        <3> QED BY <3>3, <3>4
    <2> QED BY <2>7, <2>8 DEF FollowedInv
<1>3. CASE \E p \in Sent, ms \in Seq(Messages) :
               Handle(p, ms, target') /\ Effect(p, ms) /\ Address(p)
    <2>1. PICK p \in Sent, ms \in Seq(Messages) : Handle(p, ms, target') /\ Effect(p, ms)
        BY <1>3
    <2>2. UNCHANGED <<at, session>>
        BY <2>1 DEF Handle
    <2>3. \A i \in 1 .. Len(ms) : ms[i].type # "exited"
        BY <2>1 DEF Effect, Speaks, Says
    <2>4. /\ \A i \in 1 .. Len(fromAdapter') :
                 \/ i \in 1 .. Len(fromAdapter) /\ fromAdapter'[i] = fromAdapter[i]
                 \/ /\ i \notin 1 .. Len(fromAdapter)
                    /\ i - Len(fromAdapter) \in 1 .. Len(ms)
                    /\ fromAdapter'[i] = ms[i - Len(fromAdapter)]
          /\ \A i \in 1 .. Len(fromAdapter) :
                 i \in 1 .. Len(fromAdapter') /\ fromAdapter'[i] = fromAdapter[i]
        BY <1>0, <2>1, Handled
    <2>5. \A i : Exiting(i)' => Exiting(i)
        BY <2>3, <2>4 DEF Exiting
    <2>6. \A i : Ending(i) => Ending(i)'
        BY <2>4 DEF Ending
    <2> QED BY <2>2, <2>5, <2>6 DEF FollowedInv, Working
<1>4. CASE AdapterAnswers \/ TargetStops \/ TargetExits \/ Crash
    <2>1. PICK ms \in Seq(Messages) : Reports(ms)
        BY <1>0, <1>4, TargetEffects
    <2>2. UNCHANGED <<at, session>> /\ fromAdapter' = fromAdapter \o ms
        BY <2>1 DEF Reports, TargetMoves
    <2>3. /\ \A i \in 1 .. Len(fromAdapter') :
                 \/ i \in 1 .. Len(fromAdapter) /\ fromAdapter'[i] = fromAdapter[i]
                 \/ /\ i \notin 1 .. Len(fromAdapter)
                    /\ i - Len(fromAdapter) \in 1 .. Len(ms)
                    /\ fromAdapter'[i] = ms[i - Len(fromAdapter)]
          /\ \A i \in 1 .. Len(fromAdapter) :
                 i \in 1 .. Len(fromAdapter') /\ fromAdapter'[i] = fromAdapter[i]
        BY <1>0, <2>1, Moved DEF Reports
    <2>4. \A i : Ending(i) => Ending(i)'
        BY <2>3 DEF Ending
    <2>5. CASE SaysExited(ms)
        <3>1. Len(ms) = 2 /\ ms[2].type = "terminated"
            BY <2>5 DEF SaysExited
        <3>2. Len(fromAdapter) \in Nat /\ Len(fromAdapter') = Len(fromAdapter) + Len(ms)
            BY <1>0, <2>2, Joins DEF Types
        <3>3. Len(fromAdapter') = Len(fromAdapter) + 2
            BY <3>1, <3>2
        <3>4. PICK last \in Nat : last = Len(fromAdapter) + 2
            BY <3>2
        <3>5. last \in 1 .. Len(fromAdapter') /\ last \notin 1 .. Len(fromAdapter)
              /\ last - Len(fromAdapter) = 2 /\ last = Len(fromAdapter')
            BY <3>2, <3>3, <3>4
        <3>6. fromAdapter'[last] = ms[2]
            BY <2>3, <3>5
        <3>7. Ending(last)'
            BY <3>1, <3>5, <3>6 DEF Ending
        <3>8. ASSUME NEW i, Exiting(i)' PROVE last > i
            <4>1. i \in 1 .. Len(fromAdapter') /\ fromAdapter'[i].type = "exited"
                BY <3>8 DEF Exiting
            <4>2. i # last
                BY <3>1, <3>6, <4>1
            <4> QED BY <3>5, <4>1, <4>2
        <3>9. /\ session'.exited => \E i : Ending(i)'
              /\ \A i : Exiting(i)' => \E j : j > i /\ Ending(j)'
            BY <3>7, <3>8
        <3> QED BY <3>9 DEF FollowedInv
    <2>6. CASE ~SaysExited(ms)
        <3>1. SaysDone(ms) \/ SaysStopped(ms) \/ SaysFailed(ms)
            BY <2>1, <2>6 DEF Reports
        <3>2. \A i \in 1 .. Len(ms) : ms[i].type # "exited"
            BY <3>1 DEF SaysDone, SaysStopped, SaysFailed
        <3>3. \A i : Exiting(i)' => Exiting(i)
            BY <2>3, <3>2 DEF Exiting
        <3> QED BY <2>2, <2>4, <3>3 DEF FollowedInv, Working
    <2> QED BY <2>5, <2>6
<1>5. CASE Shutdown
    BY <1>5 DEF Shutdown, Working
<1>6. CASE Apart
    BY <1>6 DEF Apart, FollowedInv, Working, Exiting, Ending
<1>7. \/ OwnStep \/ OnAdapter \/ Shutdown \/ Apart
      \/ \E p \in Sent, ms \in Seq(Messages) :
               Handle(p, ms, target') /\ Effect(p, ms) /\ Address(p)
      \/ AdapterAnswers \/ TargetStops \/ TargetExits \/ Crash
    <2>1. CASE OnClient \/ DrainStop \/ DrainRequest \/ OnWork \/ Timeout
        BY <1>0, <2>1, ClientSteps, DrainSteps, WorkSteps, TimeoutSteps
    <2>2. CASE Adapter
        BY <1>0, <2>2, AdapterEffects
    <2>3. CASE UNCHANGED vars \/ (\E w \in Workers : Worker(w)) \/ ClientSends
               \/ ClientLeaves
        BY <2>3 DEF vars, Worker, WorkerStart, WorkerFinish, WorkerTimeout, StepWorker,
           ClientSends, ClientLeaves, Apart
    <2> QED BY <2>1, <2>2, <2>3 DEF Next
<1> QED BY <1>1, <1>2, <1>3, <1>4, <1>5, <1>6, <1>7

\* While a source replacement is under way, its request is in the router.
ReplacingInv == Working /\ conditions.updating => EditsOf(pending) # {}

LEMMA ReplacingKept ==
    ASSUME FlowInv, ReplacingInv, [Next]_vars
    PROVE  ReplacingInv'
<1> SUFFICES ASSUME Working', conditions'.updating PROVE EditsOf(pending') # {}
    BY DEF ReplacingInv
<1>0. SafetyInv /\ Addressed /\ Types /\ DrainsAtRest
    BY DEF FlowInv, SafetyInv, AnswersInv
<1>1. Working
    BY <1>0, WorkingBefore
<1>2. EditsStay \/ (\E q : Opens(q)) \/ (\E q : Closes(q))
    BY <1>0, CourseSteps DEF Course, EditStep, Working
<1> QED BY <1>1, <1>2 DEF EditsStay, Opens, Closes, ReplacingInv

\* What the session still has to do is in somebody's hands.
UnderwayInv == JudgedInv /\ ReplacingInv /\ TravelInv /\ FollowedInv

LEMMA InitUnderway == Init => UnderwayInv
<1> SUFFICES ASSUME Init PROVE UnderwayInv
    OBVIOUS
<1>1. JudgedInv
    BY DEF Init, JudgedInv
<1>2. ReplacingInv
    BY DEF Init, ReplacingInv
<1>3. FollowedInv
    <2>1. fromAdapter = <<>> /\ ~session.exited
        BY DEF Init, FlagsAtLaunch
    <2>2. \A i : ~Exiting(i)
        BY <2>1, Short DEF Exiting
    <2> QED BY <2>1, <2>2 DEF FollowedInv
<1>4. TravelInv
    <2> DEFINE hello == Outgoing(1, NoRequest, "initialize", "client", "none", NoStop, 0, 0)
    <2>1. \/ pending = {}
          \/ pending = {hello} /\ toAdapter = <<hello>>
        BY DEF Init
    <2> HIDE DEF hello
    <2>2. Len(<<hello>>) = 1 /\ <<hello>>[1] = hello
        BY Short
    <2>3. \A q \in pending : \E i \in 1 .. Len(toAdapter) : toAdapter[i] = q
        BY <2>1, <2>2
    <2> QED BY <2>3 DEF TravelInv
<1> QED BY <1>1, <1>2, <1>3, <1>4 DEF UnderwayInv

LEMMA UnderwayHolds == ASSUME ~PairedStops PROVE Spec => [](OrderInv /\ JobsInv /\ UnderwayInv)
<1>1. Init => UnderwayInv
    BY InitUnderway
<1>2. OrderInv /\ OrderInv' /\ UnderwayInv /\ [Next]_vars => UnderwayInv'
    BY JudgedKept, ReplacingKept, TravelKept, FollowedKept DEF OrderInv, FlowInv, UnderwayInv
<1> QED BY <1>1, <1>2, OrderHolds, JobsHold, PTL DEF Spec

\* What each kind of work waits for is on its way or with a worker.
LEMMA RestsClean ==
    ASSUME OrderInv, JobsInv, UnderwayInv
    PROVE  NothingStranded
<1> SUFFICES ASSUME Quiet
             PROVE  /\ breakpoints.stops = <<>> /\ breakpoints.deferred = <<>>
                    /\ ~WorkPending
    BY DEF NothingStranded
<1>1. /\ at = "loop" /\ fromAdapter = <<>> /\ toAdapter = <<>>
      /\ target.busy = NoOutgoing /\ target.alive
      /\ ~session.ended /\ ~session.closing
      /\ \A w \in Workers : workers[w].pc = "idle" /\ workers[w].queue = <<>>
    BY DEF Quiet
<1>2. Working
    BY <1>1 DEF Working
<1>3. /\ \A i : i \notin 1 .. Len(fromAdapter)
      /\ \A i : i \notin 1 .. Len(toAdapter)
    BY <1>1, Short
<1>4. Live
    <2>1. ~session.exited
        BY <1>1, <1>2, <1>3 DEF UnderwayInv, FollowedInv, Ending
    <2> QED BY <1>1, <1>2, <2>1 DEF Live
<1>5. \A w \in Workers : Load(workers[w]) = 0 /\ Held(workers[w]) = {}
    <2> DEFINE e == <<>>
    <2>1. Len(e) = 0 /\ 1 .. Len(e) = {}
        BY Short
    <2>2. \A w \in Workers : workers[w].queue = e /\ Count(workers[w].pc # "idle") = 0
        BY <1>1 DEF Count
    <2> HIDE DEF e
    <2> QED BY <1>1, <2>1, <2>2 DEF Load, Held
<1>6. \A w \in Installers : Idle(w, breakpoints)
    BY <1>2, <1>5 DEF JobsInv, Installers, Workers
<1>7. conditions.active = NoJob
    BY <1>4, <1>5 DEF UnderwayInv, JudgedInv, Workers
<1>8. ~conditions.updating
    <2> SUFFICES ASSUME conditions.updating PROVE FALSE
        OBVIOUS
    <2>1. PICK q \in pending : q.command = "setBreakpoints"
        BY <1>2 DEF UnderwayInv, ReplacingInv, EditsOf
    <2>2. q # NoOutgoing /\ target.busy = q
        BY <1>1, <1>2, <1>3, <2>1 DEF UnderwayInv, TravelInv
    <2> QED BY <1>1, <2>2
<1>9. ~WorkPending
    BY <1>6, <1>7, <1>8 DEF WorkPending, Idle, Installers
<1>10. ~Waits(breakpoints)
    BY <1>1, <1>4, <1>9 DEF OrderInv, HeldInv
<1> QED BY <1>9, <1>10 DEF Waits

\* Nothing is left behind: when no message is on its way and the workers are idle,
\* no stop is held back, no request is deferred and no breakpoint work is pending.
\* A stop whose conditions are evaluated is with the condition worker, a
\* replacement is with its worker or on its way to lldb-dap or back, and an exit
\* is followed by the end, so what a stop or a request waits for does end.
THEOREM NothingIsStranded == ASSUME ~PairedStops PROVE Spec => []NothingStranded
BY RestsClean, UnderwayHolds, PTL


-----------------------------------------------------------------------------
(* What the editor sees.  It is shown a stop exactly while the session is at  *)
(* one and nothing of it is hidden: the stop is not held back, its conditions *)
(* are not being evaluated and the panic breakpoint's frames are not awaited. *)

\* No request is ahead of the session, and the editor's requests say so.
Past(p) == /\ p.revision <= session.revision
           /\ p.use = "client" => p.client # NoRequest \/ p.command = "initialize"
PastInv == Working => \A p \in pending : Past(p)

\* The resume the session has not heard the answer to, and the question whether
\* the stop it is at is a panic.
Ahead(p) == Resumes(p.command) /\ p.revision = session.revision
Sorting(p) == p.use = "stopContext" /\ p.revision = session.revision

AheadAlone == \A p \in pending : Ahead(p) =>
    /\ ~session.stopped
    /\ p.use = "client" => client.resume = p.client
    /\ \A q \in pending : Ahead(q) => q = p
SortingAlone == \A p \in pending : Sorting(p) =>
    /\ session.stopped /\ conditions.active = NoJob /\ breakpoints.stops = <<>>
    /\ \A q \in pending : Sorting(q) => q = p

\* The editor's resume is in the router.
ResumeKept == client.resume # NoRequest =>
    \E p \in pending : /\ p.use = "client" /\ Resumes(p.command)
                       /\ p.client = client.resume

Hidden == breakpoints.stops # <<>> \/ conditions.active # NoJob \/ \E p \in pending : Sorting(p)
Seen == /\ client.view = "stopped" <=> session.stopped /\ ~Hidden
        /\ client.view # "gone"
Stands == AheadAlone /\ SortingAlone /\ ResumeKept /\ Seen
ViewInv == Live => Stands

LEMMA PastKept ==
    ASSUME SafetyInv, Addressed, PastInv, [Next]_vars
    PROVE  PastInv'
<1> SUFFICES ASSUME Working', NEW p \in pending' PROVE Past(p)'
    BY DEF PastInv
<1>1. /\ Working /\ session.revision <= session'.revision
      /\ session.revision \in Nat /\ session'.revision \in Nat
      /\ pending \subseteq Sent /\ \A q \in Sent : q.revision \in Nat
    <2>1. Types'
        BY TypesInductive DEF SafetyInv
    <2> QED BY <2>1, Monotone DEF SafetyInv, Types, Flags, Sent
<1>2. ASSUME p \in pending PROVE Past(p)'
    <2>1. Past(p) /\ p.revision \in Nat
        BY <1>1, <1>2 DEF PastInv
    <2> QED BY <1>1, <2>1 DEF Past
<1>3. CASE SendsLittle
    <2>1. CASE \E q : Sends(q)
        <3>1. PICK q : Sends(q)
            BY <2>1
        <3>2. p \in pending \/ p = q
            BY <3>1 DEF Sends, Goes
        <3>3. Past(q)'
            BY <1>1, <3>1 DEF Sends, Past
        <3> QED BY <1>2, <3>2, <3>3
    <2> QED BY <1>2, <1>3, <2>1 DEF SendsLittle
<1>4. CASE pending' = pending
    BY <1>2, <1>4
<1>5. SendsLittle \/ pending' = pending
    <2>1. /\ OwnStep \/ (\E m : MessageStep(m)) => SendsLittle
          /\ Apart => pending' = pending
        BY DEF OwnStep, MessageStep, Apart
    <2>2. (\E q \in Sent, ms \in Seq(Messages) :
               Handle(q, ms, target') /\ Effect(q, ms) /\ Address(q)) => pending' = pending
        BY DEF Handle
    <2>3. AdapterAnswers \/ TargetStops \/ TargetExits \/ Crash => pending' = pending
        BY DEF AdapterAnswers, TargetStops, TargetExits, Crash, TargetMoves
    <2>4. ~Shutdown
        BY LastWord
    <2> QED BY <2>1, <2>2, <2>3, <2>4, Steps
<1> QED BY <1>3, <1>4, <1>5

\* A step that changes nothing of this.
Tracked(p) == Resumes(p.command) \/ p.use = "stopContext"
Unmoved == /\ client'.view = client.view /\ client'.resume = client.resume
           /\ Same /\ conditions'.active = conditions.active
           /\ breakpoints'.stops = breakpoints.stops
           /\ \A p : Tracked(p) => (p \in pending' <=> p \in pending)

LEMMA UnmovedStands ==
    ASSUME Stands, Unmoved
    PROVE  Stands'
<1>1. \A p : /\ Ahead(p)' <=> Ahead(p)
             /\ Sorting(p)' <=> Sorting(p)
             /\ Ahead(p) \/ Sorting(p) => Tracked(p)
    BY DEF Unmoved, Same, Ahead, Sorting, Tracked
<1>2. AheadAlone'
    BY <1>1 DEF Unmoved, Same, Stands, AheadAlone
<1>3. SortingAlone'
    BY <1>1 DEF Unmoved, Same, Stands, SortingAlone
<1>4. ResumeKept'
    BY <1>1 DEF Unmoved, Stands, ResumeKept, Tracked
<1>5. Hidden' <=> Hidden
    BY <1>1 DEF Unmoved, Hidden
<1>6. Seen'
    BY <1>5 DEF Unmoved, Same, Stands, Seen
<1> QED BY <1>2, <1>3, <1>4, <1>6 DEF Stands

\* An answer to others than the editor's resume.
LEMMA AnswerLeaves ==
    ASSUME NEW c \in Editors, NEW S, NEW o, c.resume \notin S
    PROVE  /\ Answer(c, S, o).view = c.view /\ Answer(c, S, o).resume = c.resume
           /\ \A r, n : r \in S /\ o = "ok" /\ S = {r} =>
                 /\ AnswerWithData(c, r, n).view = c.view
                 /\ AnswerWithData(c, r, n).resume = c.resume
<1> DEFINE answers == [r \in Requests |-> IF r \in S THEN c.answers[r] + 1 ELSE c.answers[r]]
           outcome == [r \in Requests |-> IF r \in S THEN o ELSE c.outcome[r]]
<1>1. Answer(c, S, o) = [c EXCEPT !.answers = answers, !.outcome = outcome,
                                  !.view = c.view, !.resume = c.resume]
    BY DEF Answer
<1>2. Answer(c, S, o).view = c.view /\ Answer(c, S, o).resume = c.resume
    BY <1>1 DEF Editors
<1>3. ASSUME NEW r, NEW n, r \in S, o = "ok", S = {r}
      PROVE  /\ AnswerWithData(c, r, n).view = c.view
             /\ AnswerWithData(c, r, n).resume = c.resume
    <2> DEFINE d == Answer(c, S, o)
    <2>1. d.view = c.view /\ d.resume = c.resume
        BY <1>2
    <2>2. AnswerWithData(c, r, n) = [d EXCEPT !.data[r] = n]
        BY <1>3 DEF AnswerWithData
    <2>3. d = [c EXCEPT !.answers = answers, !.outcome = outcome,
                        !.view = c.view, !.resume = c.resume]
        BY <1>1
    <2> HIDE DEF d, answers, outcome
    <2>4. d.data = c.data /\ DOMAIN d = DOMAIN c
        BY <2>3 DEF Editors
    <2> QED BY <2>1, <2>2, <2>3 DEF Editors
<1> QED BY <1>2, <1>3

LEMMA DataLeaves ==
    ASSUME NEW c \in Editors, NEW r, NEW n, c.resume # r
    PROVE  /\ AnswerWithData(c, r, n).view = c.view
           /\ AnswerWithData(c, r, n).resume = c.resume
<1> DEFINE S == {r}
           o == "ok"
<1>1. c.resume \notin S /\ r \in S /\ o = "ok" /\ S = {r}
    OBVIOUS
<1> HIDE DEF S, o
<1> QED BY <1>1, AnswerLeaves

\* The editor's resume is with the router and with nobody else.
LEMMA Elsewhere ==
    ASSUME AnswersInv, Working, ResumeKept, PastInv
    PROVE  /\ client.resume # Launch
           /\ \A j \in inspection.waiting : j.cause # client.resume
           /\ \A i \in 1 .. Len(breakpoints.deferred) :
                 breakpoints.deferred[i].seq # client.resume
           /\ client.resume \notin {breakpoints.function} \cap Requests
           /\ client.resume \notin {breakpoints.panic} \cap Requests
           /\ fromClient # <<>> /\ Head(fromClient).command # "eof" =>
                 Head(fromClient).seq # client.resume
           /\ \A p \in pending :
                 p.use = "client" /\ p.client = client.resume =>
                     Resumes(p.command) \/ p.command = "initialize"
<1>0. /\ Types /\ Balanced /\ Sane(pending, breakpoints, inspection.waiting)
      /\ \A p \in pending : p.client = Launch <=> p.command = "launch"
      /\ \A j \in inspection.waiting : j.cause \in Others
      /\ NoRequest \notin Requests /\ NoRequest # Launch
    BY DEF AnswersInv, Working, Sane, Owed, ReadsOwed, Requests, NoRequest, Launch
<1>1. /\ breakpoints.deferred \in Seq(Asks) /\ fromClient \in Seq(Asks \cup Eofs)
      /\ \A q \in Asks : q.seq \in Requests
    BY <1>0 DEF Types, BreakpointStates, Asks
<1>2. /\ \A i \in 1 .. Len(breakpoints.deferred) : breakpoints.deferred[i].seq \in Requests
      /\ fromClient # <<>> => /\ Head(fromClient) \in Asks \cup Eofs
                              /\ 1 \in 1 .. Len(fromClient) /\ Head(fromClient) = fromClient[1]
    BY <1>1
<1>3. fromClient # <<>> /\ Head(fromClient).command # "eof" => Head(fromClient).seq \in Requests
    BY <1>1, <1>2 DEF Eofs
<1>4. CASE client.resume = NoRequest
    <2>1. \A p \in pending : p.use = "client" /\ p.client = NoRequest => p.command = "initialize"
        BY DEF PastInv, Past
    <2> QED BY <1>0, <1>2, <1>3, <1>4, <2>1 DEF Others
<1>5. CASE client.resume # NoRequest
    <2> DEFINE r == client.resume
    <2>1. PICK p \in pending : p.use = "client" /\ Resumes(p.command) /\ p.client = r
        BY <1>5 DEF ResumeKept
    <2>2. r # Launch /\ r \in Requests
        <3>1. p.command # "launch"
            BY <2>1 DEF Resumes
        <3>2. r \in Requests
            BY <1>0, <1>5 DEF Types, Editors
        <3> QED BY <1>0, <2>1, <3>1, <3>2
    <2>3. r \in Others /\ InRouter(pending, r)
        BY <2>1, <2>2 DEF Others, InRouter
    <2> HIDE DEF r
    <2>4. /\ Count(Coming(r))
             + Balance(r, pending, breakpoints, inspection.waiting, client) = 1
          /\ client.answers[r] \in Nat
        BY <1>0, <2>3 DEF Balanced, Types, Editors, Others
    <2>5. /\ ~Coming(r) /\ ~InQueue(breakpoints.deferred, r)
          /\ ~Reads(inspection.waiting, r) /\ breakpoints.function # r
          /\ breakpoints.panic # r
        BY <2>3, <2>4 DEF Balance, Count
    <2>6. \A i \in 1 .. Len(fromClient) : fromClient[i].seq # r
        BY <2>5 DEF Coming
    <2>7. \A q \in pending : q.client = r => Resumes(q.command)
        <3>1. \A q \in pending : q.client = r => q = p
            BY <1>0, <2>1, <2>3 DEF Sane, OneInRouter, r
        <3> QED BY <2>1, <3>1
    <2> QED BY <1>2, <2>2, <2>5, <2>6, <2>7 DEF InQueue, Reads, r
<1> QED BY <1>4, <1>5

\* After a step of the revision, what was sent before is behind.
LEMMA Renewed ==
    ASSUME Types, PastInv, Working, session'.revision = session.revision + 1
    PROVE  \A p \in pending : ~Ahead(p)' /\ ~Sorting(p)'
<1> SUFFICES ASSUME NEW p \in pending PROVE ~Ahead(p)' /\ ~Sorting(p)'
    OBVIOUS
<1>1. p.revision \in Nat /\ session.revision \in Nat /\ p.revision <= session.revision
    BY DEF Types, Flags, Sent, PastInv, Past
<1>2. p.revision # session'.revision
    BY <1>1
<1> QED BY <1>2 DEF Ahead, Sorting

LEMMA TellsView ==
    ASSUME NEW c \in Editors, NEW stop
    PROVE  /\ TellStopped(c, stop).view = "stopped" /\ TellStopped(c, stop).resume = NoRequest
           /\ TellContinued(c).view = "running" /\ TellContinued(c).resume = NoRequest
BY DEF TellStopped, TellContinued, Editors

\* The editor is shown the stop the session is at.
LEMMA ShownStands ==
    ASSUME Working, session'.stopped, conditions'.active = NoJob, breakpoints'.stops = <<>>,
           client'.view = "stopped", client'.resume = NoRequest,
           \A p \in pending' : ~Ahead(p)' /\ ~Sorting(p)'
    PROVE  Stands'
<1>1. AheadAlone'
    BY DEF AheadAlone
<1>2. SortingAlone'
    BY DEF SortingAlone
<1>3. ResumeKept'
    BY DEF ResumeKept
<1>4. ~Hidden'
    BY DEF Hidden
<1>5. Seen'
    BY <1>4 DEF Seen
<1> QED BY <1>1, <1>2, <1>3, <1>5 DEF Stands

\* The session is at no stop.
LEMMA RunningStands ==
    ASSUME ~session'.stopped, client'.view = "running",
           ResumeKept',
           \A p \in pending' : ~Sorting(p)',
           \A p \in pending' : Ahead(p)' =>
               /\ p.use = "client" => client'.resume = p.client
               /\ \A q \in pending' : Ahead(q)' => q = p
    PROVE  Stands'
<1>1. AheadAlone'
    BY DEF AheadAlone
<1>2. SortingAlone'
    BY DEF SortingAlone
<1>5. Seen'
    BY DEF Seen
<1> QED BY <1>1, <1>2, <1>5 DEF Stands

\* A stop that is published is shown or hidden.
LEMMA PublishStands ==
    ASSUME Types, NEW stop \in Stops, NEW c \in Editors, NEW cond \in ConditionStates, NEW ws,
           NEW revision \in Nat, revision = session'.revision, Working,
           PublishStop(stop, c, cond, ws, revision),
           session'.stopped, cond.active = NoJob, breakpoints'.stops = <<>>,
           c.view = "running",
           c.resume # NoRequest => \E p \in pending :
               p.use = "client" /\ Resumes(p.command) /\ p.client = c.resume,
           \A p \in pending : ~Ahead(p)' /\ ~Sorting(p)'
    PROVE  Stands'
<1>1. CASE breakpoints.panicInstalled /\ "panic" \in stop.ids
    <2>1. PICK p : /\ Goes(p, pending) /\ p.command = "stackTrace" /\ p.use = "stopContext"
                   /\ p.revision = revision
        <3>1. ~(pending' = pending)
            <4>1. Send(pending, Outgoing(FreshSeq(pending), NoRequest, "stackTrace",
                                         "stopContext", "none", stop, 0, revision))
                BY <1>1 DEF PublishStop
            <4>2. FreshSeq(pending) \in Nat /\ \A q \in pending : q.seq # FreshSeq(pending)
                BY FreshIsNew DEF Types
            <4> QED BY <4>1, <4>2 DEF Send, Outgoing
        <3> QED BY <3>1, PublishSends
    <2>2. /\ pending' = pending \cup {p} /\ conditions' = cond /\ client' = c
        BY <1>1, <2>1 DEF PublishStop, Goes
    <2>3. ~Ahead(p)' /\ Sorting(p)'
        BY <2>1 DEF Ahead, Sorting, Resumes
    <2>4. AheadAlone'
        BY <2>2, <2>3 DEF AheadAlone
    <2>5. SortingAlone'
        BY <2>2, <2>3 DEF SortingAlone
    <2>6. ResumeKept'
        BY <2>2 DEF ResumeKept
    <2>7. Seen'
        BY <2>2, <2>3 DEF Seen, Hidden
    <2> QED BY <2>4, <2>5, <2>6, <2>7 DEF Stands
<1>2. CASE ~(breakpoints.panicInstalled /\ "panic" \in stop.ids)
    <2>0. pending' = pending /\ PublishConditionStop(stop, c, cond, ws, revision)
        BY <1>2 DEF PublishStop
    <2>1. CASE ~cond.stepping /\ AllConditional(stop)
        <3>1. /\ conditions' = [cond EXCEPT !.active = ConditionJob(stop, revision)]
              /\ client' = c
            BY <2>0, <2>1 DEF PublishConditionStop
        <3>2. conditions'.active # NoJob
            <4>1. conditions'.active = ConditionJob(stop, revision)
                BY <3>1 DEF ConditionStates
            <4>2. ConditionJob(stop, revision).epoch = revision /\ NoJob.epoch = None
                BY DEF ConditionJob, NoJob
            <4> QED BY <4>1, <4>2 DEF None
        <3>3. AheadAlone' /\ SortingAlone'
            BY <2>0 DEF AheadAlone, SortingAlone
        <3>4. ResumeKept'
            BY <2>0, <3>1 DEF ResumeKept
        <3>5. Seen'
            BY <3>1, <3>2 DEF Seen, Hidden
        <3> QED BY <3>3, <3>4, <3>5 DEF Stands
    <2>2. CASE ~(~cond.stepping /\ AllConditional(stop))
        <3>1. conditions' = cond /\ client' = TellStopped(c, stop)
            BY <2>0, <2>2 DEF PublishConditionStop
        <3> QED BY <2>0, <3>1, TellsView, ShownStands
    <2> QED BY <2>1, <2>2
<1> QED BY <1>1, <1>2

LEMMA StaleLeaves ==
    ASSUME Types, \A j \in inspection.waiting : j.cause # client.resume
    PROVE  /\ AnswerStale(client) \in Editors
           /\ AnswerStale(client).view = client.view
           /\ AnswerStale(client).resume = client.resume
<1>1. client \in Editors /\ client.resume \notin {j.cause : j \in inspection.waiting}
    BY DEF Types
<1> QED BY <1>1, AnswerLeaves, AnswerTyped DEF AnswerStale

\* Passing a request on that is no resume leaves what is tracked.
LEMMA ForwardTracks ==
    ASSUME Types, NEW req \in Asks, req.kind \in KnownKinds, Forward(req, req.command),
           ~Resumes(req.command)
    PROVE  \A p : Tracked(p) => (p \in pending' <=> p \in pending)
<1>1. PICK p : Goes(p, pending) /\ p.command = req.command /\ p.use = "client"
    BY Forwards
<1>2. ~Tracked(p) /\ pending' = pending \cup {p}
    BY <1>1 DEF Tracked, Goes
<1> QED BY <1>2

LEMMA PerformStands ==
    ASSUME Types, PastInv, Working, Live, Stands, NEW req \in Asks, NEW b \in BreakpointStates,
           Perform(req, b), b.stops = breakpoints.stops,
           Deferrable(req.command) => ~WorkPending,
           req.seq # client.resume, \A j \in inspection.waiting : j.cause # client.resume
    PROVE  Stands'
<1>0. /\ session \in Flags /\ client \in Editors /\ conditions \in ConditionStates
      /\ req.seq \in Requests /\ req.seq # NoRequest
      /\ req.command \notin Edits \/ Valid(req) => req.kind \in KnownKinds
    BY DEF Types, Asks, Requests, NoRequest, Valid, KnownKinds
<1>1. conditions'.active = conditions.active /\ breakpoints'.stops = breakpoints.stops
    BY PerformCourse
<1>2. ASSUME UNCHANGED <<pending, client>>, session'.stopped = session.stopped,
             session'.revision = session.revision
      PROVE  Stands'
    BY <1>1, <1>2, UnmovedStands DEF Unmoved, Same
<1>3. ASSUME NEW o, ReplyAtOnce(req, o, b) PROVE Stands'
    <2>1. /\ UNCHANGED <<session, pending>> /\ client' = Answer(client, {req.seq}, o)
        BY <1>3 DEF ReplyAtOnce
    <2>2. client'.view = client.view /\ client'.resume = client.resume
        BY <1>0, <2>1, AnswerLeaves
    <2> QED BY <1>1, <2>1, <2>2, UnmovedStands DEF Unmoved, Same
<1>4. ASSUME Forward(req, req.command), req.kind \in KnownKinds, ~Resumes(req.command),
             client' = client, session'.stopped = session.stopped,
             session'.revision = session.revision
      PROVE  Stands'
    <2>1. \A p : Tracked(p) => (p \in pending' <=> p \in pending)
        BY <1>4, ForwardTracks
    <2> QED BY <1>1, <1>4, <2>1, UnmovedStands DEF Unmoved, Same
<1>5. CASE Refused(req) /\ ReplyAtOnce(req, "error", b)
    BY <1>3, <1>5
<1>6. CASE ReplaceFunctions(req, b) \/ ReplacePanic(req, b) \/ Variables(req, b)
    <2>1. UNCHANGED <<session, pending, client>>
        BY <1>6 DEF ReplaceFunctions, ReplacePanic, Variables
    <2> QED BY <1>2, <2>1
<1>7. CASE ReplaceSources(req, b) \/ StackTrace(req, b)
    <2>1. /\ Forward(req, req.command) /\ UNCHANGED <<session, client>>
          /\ req.command \in {"setBreakpoints", "stackTrace"} /\ req.kind \in KnownKinds
        BY <1>0, <1>7 DEF ReplaceSources, StackTrace, Edits
    <2> QED BY <1>4, <2>1 DEF Resumes
<1>8. CASE ConfigurationDone(req, b)
    <2>1. CASE b.panicConfigured
        <3>1. /\ session' = [session EXCEPT !.configured = TRUE]
              /\ Forward(req, req.command) /\ client' = client
              /\ req.command = "configurationDone" /\ req.kind \in KnownKinds
            BY <1>0, <1>8, <2>1 DEF ConfigurationDone, Edits
        <3>2. session'.stopped = session.stopped /\ session'.revision = session.revision
            BY <1>0, <3>1 DEF Flags
        <3> QED BY <1>4, <3>1, <3>2 DEF Resumes
    <2>2. CASE ~b.panicConfigured
        <3>1. UNCHANGED <<session, pending, client>>
            BY <1>8, <2>2 DEF ConfigurationDone
        <3> QED BY <1>2, <3>1
    <2> QED BY <2>1, <2>2
<1>9. CASE Threads(req, b)
    <2>1. CASE ReplyAtOnce(req, "ok", b)
        BY <1>3, <2>1
    <2>2. CASE ~ReplyAtOnce(req, "ok", b)
        <3>1. /\ Forward(req, req.command) /\ UNCHANGED <<session, client>>
              /\ req.command = "threads" /\ req.kind \in KnownKinds
            BY <1>0, <1>9, <2>2 DEF Threads, Edits
        <3> QED BY <1>4, <3>1 DEF Resumes
    <2> QED BY <2>1, <2>2
<1>10. CASE Pause(req, b)
    <2>1. /\ session' = [session EXCEPT !.pauseRevision = session.revision]
          /\ Forward(req, req.command) /\ req.command = "pause" /\ client' = client
          /\ req.kind \in KnownKinds
        BY <1>0, <1>10 DEF Pause, Edits
    <2>2. session'.stopped = session.stopped /\ session'.revision = session.revision
        BY <1>0, <2>1 DEF Flags
    <2> QED BY <1>4, <2>1, <2>2 DEF Resumes
<1>11. CASE Resume(req, b)
    <2>1. /\ session' = [session EXCEPT !.stopped = FALSE,
                                        !.revision = session.revision + 1]
          /\ Send(pending, Outgoing(FreshSeq(pending), req.seq, req.command, "client",
                              "none", NoStop, 0, session.revision + 1))
          /\ client' = [AnswerStale(client) EXCEPT !.view = "running", !.resume = req.seq]
          /\ Resumes(req.command)
        BY <1>11 DEF Resume
    <2>2. /\ ~session'.stopped /\ session'.revision = session.revision + 1
          /\ session.revision + 1 \in Nat
        BY <1>0, <2>1 DEF Flags
    <2>3. client'.view = "running" /\ client'.resume = req.seq
        BY <2>1, StaleLeaves DEF Editors
    <2>4. PICK p : /\ Goes(p, pending) /\ p.command = req.command /\ p.use = "client"
                   /\ p.revision = session.revision + 1 /\ p.client = req.seq
        <3>1. /\ req.command \in AllCommands /\ 0 \in Requests \cup {NoRequest}
              /\ "none" \in KnownKinds
            BY DEF Asks, KnownKinds, Kinds, NoRequest
        <3> QED BY <1>0, <2>1, <2>2, <3>1, Outgoes, Values
    <2>5. pending' = pending \cup {p}
        BY <2>4 DEF Goes
    <2>6. \A q \in pending : ~Ahead(q)' /\ ~Sorting(q)'
        BY <2>2, Renewed
    <2>7. ~Sorting(p)'
        BY <2>4 DEF Sorting
    <2>8. ResumeKept'
        BY <2>1, <2>3, <2>4, <2>5 DEF ResumeKept
    <2> QED BY <2>2, <2>3, <2>4, <2>5, <2>6, <2>7, <2>8, RunningStands
<1> QED BY <1>5, <1>6, <1>7, <1>8, <1>9, <1>10, <1>11 DEF Perform

\* What the handlers of the loop start from.
ViewBasis == /\ Types /\ AnswersInv /\ Addressed /\ PastInv /\ HeldInv /\ TokensInv /\ Stands
             /\ Live /\ Live'

LEMMA BasisGives ==
    ASSUME ViewBasis
    PROVE  /\ Types /\ Working /\ Stands /\ PastInv /\ ResumeKept
           /\ session \in Flags /\ session.revision \in Nat /\ client \in Editors
           /\ breakpoints \in BreakpointStates /\ conditions \in ConditionStates
           /\ workers \in [Workers -> WorkerStates]
           /\ \A j \in inspection.waiting : j.cause # client.resume
           /\ conditions.active # NoJob => session.stopped /\ breakpoints.stops = <<>>
           /\ breakpoints.stops # <<>> => session.stopped /\ Len(breakpoints.stops) = 1
           /\ session.stopped => \A p \in pending : ~Ahead(p)
           /\ ~session.stopped => \A p \in pending : ~Sorting(p)
           /\ client.view = "running" <=> ~(session.stopped /\ ~Hidden)
<1>1. Types /\ Working /\ Stands /\ PastInv /\ ResumeKept /\ AnswersInv
    BY DEF ViewBasis, Live, Stands
<1>2. client.view \in {"running", "stopped", "gone"}
    BY <1>1 DEF Types, Editors
<1>3. client.view = "running" <=> ~(session.stopped /\ ~Hidden)
    BY <1>1, <1>2 DEF Stands, Seen
<1>4. /\ conditions.active # NoJob => session.stopped /\ breakpoints.stops = <<>>
      /\ breakpoints.stops # <<>> => session.stopped /\ Len(breakpoints.stops) = 1
    BY DEF ViewBasis, HeldInv
<1>5. /\ session.stopped => \A p \in pending : ~Ahead(p)
      /\ ~session.stopped => \A p \in pending : ~Sorting(p)
    BY <1>1 DEF Stands, AheadAlone, SortingAlone
<1>6. \A j \in inspection.waiting : j.cause # client.resume
    BY <1>1, Elsewhere
<1> QED BY <1>1, <1>3, <1>4, <1>5, <1>6 DEF Types, Flags

LEMMA ClientStands ==
    ASSUME ViewBasis, OnClient
    PROVE  Stands'
<1> SUFFICES ASSUME NEW req, req = Head(fromClient), fromClient # <<>>,
                    \/ DeferRequest(req) \/ InterruptCondition(req)
                    \/ PerformRequest(req) \/ Disconnect(req)
                    \/ RefuseWhileClosing(req) \/ ClientEof(req)
             PROVE  Stands'
    BY DEF OnClient
<1>0. Live /\ Live' /\ ~session.closing
    BY DEF ViewBasis, Live
<1>1. /\ Types /\ Working /\ Stands /\ PastInv
      /\ session \in Flags /\ session.revision \in Nat /\ client \in Editors
      /\ breakpoints \in BreakpointStates /\ conditions \in ConditionStates
      /\ \A j \in inspection.waiting : j.cause # client.resume
      /\ conditions.active # NoJob => session.stopped /\ breakpoints.stops = <<>>
    BY BasisGives
<1>2. /\ req \in Asks \cup Eofs
      /\ req.command # "eof" => req \in Asks
    BY <1>1, HeadTyped DEF Types, Eofs
<1>3. req.command # "eof" => req.seq # client.resume
    BY Elsewhere, BasisGives DEF ViewBasis
<1>4. CASE DeferRequest(req)
    <2>1. req.command # "eof"
        BY <1>4 DEF DeferRequest, MustDefer, Deferrable
    <2>2. /\ UNCHANGED <<session, pending, conditions>>
          /\ client' = client \/ client' = Answer(client, {req.seq}, "error")
          /\ \/ breakpoints' = breakpoints
             \/ breakpoints' = [breakpoints EXCEPT !.deferred = Append(@, req)]
        BY <1>4 DEF DeferRequest, ReplyAtOnce
    <2>3. client'.view = client.view /\ client'.resume = client.resume
        BY <1>1, <1>3, <2>1, <2>2, AnswerLeaves
    <2>4. breakpoints'.stops = breakpoints.stops
        BY <1>1, <2>2 DEF BreakpointStates
    <2> QED BY <1>1, <2>2, <2>3, <2>4, UnmovedStands DEF Unmoved, Same
<1>5. CASE InterruptCondition(req)
    <2>1. /\ conditions' = [conditions EXCEPT !.active = NoJob]
          /\ conditions.active # NoJob /\ UNCHANGED <<breakpoints, pending>>
          /\ session' = [session EXCEPT !.revision = @ + 1]
          /\ client' = TellStopped(Answer(client, {req.seq}, "ok"), conditions.active.stop)
        BY <1>5 DEF InterruptCondition
    <2>2. conditions'.active = NoJob /\ breakpoints'.stops = <<>> /\ session'.stopped
          /\ session'.revision = session.revision + 1
        BY <1>1, <2>1 DEF ConditionStates, Flags
    <2>3. Answer(client, {req.seq}, "ok") \in Editors
        BY <1>1, AnswerTyped
    <2>4. client'.view = "stopped" /\ client'.resume = NoRequest
        BY <2>1, <2>3, TellsView
    <2>5. \A p \in pending' : ~Ahead(p)' /\ ~Sorting(p)'
        BY <1>1, <2>1, <2>2, Renewed
    <2> QED BY <1>1, <2>2, <2>4, <2>5, ShownStands
<1>6. CASE PerformRequest(req)
    <2>1. /\ req \in Asks /\ Perform(req, breakpoints) /\ ~MustDefer(req)
          /\ req.command # "eof"
        BY <1>2, <1>6 DEF PerformRequest
    <2>2. Deferrable(req.command) => ~WorkPending
        BY <2>1 DEF MustDefer
    <2> QED BY <1>0, <1>1, <1>3, <2>1, <2>2, PerformStands
<1>7. CASE Disconnect(req)
    <2>1. session'.closing
        BY <1>1, <1>7 DEF Disconnect, Flags
    <2> QED BY <1>0, <2>1 DEF Live
<1>8. CASE RefuseWhileClosing(req) \/ ClientEof(req)
    BY <1>0, <1>8 DEF RefuseWhileClosing, ClientEof, Live, Working
<1> QED BY <1>4, <1>5, <1>6, <1>7, <1>8

LEMMA DrainStands ==
    ASSUME ViewBasis, DrainStop \/ DrainRequest
    PROVE  Stands'
<1>0. Live /\ Live' /\ DrainsAtRest
    BY DEF ViewBasis, AnswersInv
<1>1. /\ Types /\ Working /\ Stands /\ PastInv /\ ResumeKept
      /\ session \in Flags /\ session.revision \in Nat /\ client \in Editors
      /\ breakpoints \in BreakpointStates /\ conditions \in ConditionStates
      /\ \A j \in inspection.waiting : j.cause # client.resume
      /\ conditions.active # NoJob => session.stopped /\ breakpoints.stops = <<>>
      /\ breakpoints.stops # <<>> => session.stopped /\ Len(breakpoints.stops) = 1
      /\ session.stopped => \A p \in pending : ~Ahead(p)
      /\ client.view = "running" <=> ~(session.stopped /\ ~Hidden)
    BY BasisGives
<1>2. CASE DrainStop
    <2> DEFINE q == breakpoints.stops
               e == <<>>
    <2>1. /\ q # e /\ q \in Seq(Stops) /\ breakpoints' = [breakpoints EXCEPT !.stops = Tail(q)]
          /\ session' = session
          /\ PublishStop(Head(q), client, conditions, workers, session.revision)
        BY <1>1, <1>2 DEF DrainStop, BreakpointStates
    <2>2. breakpoints'.stops = Tail(q)
        BY <1>1, <2>1 DEF BreakpointStates
    <2>3. session.stopped /\ Len(q) = 1 /\ conditions.active = NoJob
        BY <1>1, <2>1
    <2>4. client.view = "running" /\ \A p \in pending : ~Sorting(p)
        BY <1>1, <2>1 DEF Hidden, Stands, SortingAlone
    <2>5. Tail(q) = e /\ Head(q) \in Stops
        <3> HIDE DEF q
        <3> QED BY <2>1, <2>3, Single, HeadTyped
    <2>6. \A p \in pending : ~Ahead(p)' /\ ~Sorting(p)'
        BY <1>1, <2>1, <2>3, <2>4 DEF Ahead, Sorting
    <2>7. breakpoints'.stops = <<>>
        BY <2>2, <2>5
    <2> HIDE DEF q, e
    <2>8. /\ session.revision = session'.revision /\ session'.stopped
          /\ client.resume # NoRequest => \E p \in pending :
                p.use = "client" /\ Resumes(p.command) /\ p.client = client.resume
        BY <1>1, <2>1, <2>3 DEF ResumeKept
    <2> QED BY <1>1, <2>1, <2>3, <2>4, <2>5, <2>6, <2>7, <2>8, PublishStands
<1>3. CASE DrainRequest
    <2> DEFINE req == Head(breakpoints.deferred)
               b == [breakpoints EXCEPT !.deferred = Tail(@)]
    <2>1. /\ breakpoints.deferred # <<>> /\ breakpoints.stops = <<>> /\ at = "drain"
          /\ Perform(req, b)
        BY <1>3 DEF DrainRequest
    <2>2. breakpoints.deferred \in Seq(Asks) /\ Tail(breakpoints.deferred) \in Seq(Asks)
          /\ req \in Asks /\ req = breakpoints.deferred[1]
          /\ 1 \in 1 .. Len(breakpoints.deferred)
        <3>1. breakpoints.deferred \in Seq(Asks)
            BY <1>1 DEF BreakpointStates
        <3> QED BY <2>1, <3>1, Tails
    <2>3. b \in BreakpointStates /\ b.stops = breakpoints.stops
        BY <1>1, <2>2 DEF BreakpointStates
    <2>4. ~WorkPending
        BY <1>0, <2>1 DEF DrainsAtRest
    <2>5. req.seq # client.resume
        BY <1>1, <2>2, Elsewhere DEF ViewBasis
    <2> HIDE DEF req, b
    <2> QED BY <1>0, <1>1, <2>1, <2>2, <2>3, <2>4, <2>5, PerformStands
<1> QED BY <1>2, <1>3

\* An answered request leaves the router; one that is not tracked leaves no trace.
LEMMA SettledTracks ==
    ASSUME NEW m, pending' = Settled(m), ~Tracked(m.request)
    PROVE  \A p : Tracked(p) => (p \in pending' <=> p \in pending)
BY DEF Settled

\* A request that is neither the editor's nor about the stop at hand.
LEMMA DroppedStands ==
    ASSUME Stands, NEW p, pending' = pending \ {p}, ~Sorting(p), p.use # "client",
           client'.view = client.view, client'.resume = client.resume, Same,
           conditions'.active = conditions.active, breakpoints'.stops = breakpoints.stops
    PROVE  Stands'
<1>1. \A q : (Ahead(q)' <=> Ahead(q)) /\ (Sorting(q)' <=> Sorting(q))
    BY DEF Same, Ahead, Sorting
<1>2. AheadAlone'
    BY <1>1 DEF Same, Stands, AheadAlone
<1>3. SortingAlone'
    BY <1>1 DEF Same, Stands, SortingAlone
<1>4. ResumeKept'
    BY DEF Stands, ResumeKept
<1>5. Hidden' <=> Hidden
    BY <1>1 DEF Hidden
<1>6. Seen'
    BY <1>5 DEF Same, Stands, Seen
<1> QED BY <1>2, <1>3, <1>4, <1>6 DEF Stands

\* A refused resume was the last thing the session did.
LEMMA RefusedCurrent ==
    ASSUME ViewBasis, NEW m, TakeMessage(m), Refusal(m)
    PROVE  m.request.revision = session.revision /\ StillCurrent(m.request)
<1>1. fromAdapter # <<>> /\ fromAdapter' = Tail(fromAdapter) /\ m = Head(fromAdapter)
    BY DEF TakeMessage
<1>2. m = fromAdapter[1] /\ 1 \in 1 .. Len(fromAdapter)
    BY <1>1, Heard DEF ViewBasis
<1>3. Refusing(1)
    BY <1>2 DEF Refusing
<1>4. m.request.revision = session.revision
    BY <1>2, <1>3 DEF ViewBasis, TokensInv, RefusedAlone
<1> QED BY <1>4 DEF StillCurrent, ViewBasis, Live

\* ... and takes the session back to the stop it was at.
LEMMA UndoneStands ==
    ASSUME ViewBasis, NEW p \in pending, Ahead(p), pending' = pending \ {p},
           session'.stopped, session'.revision = session.revision,
           conditions'.active = conditions.active, breakpoints'.stops = breakpoints.stops,
           client'.view = "stopped", client'.resume = NoRequest
    PROVE  Stands'
<1>1. AheadAlone /\ ~session.stopped
    BY DEF ViewBasis, Stands, AheadAlone
<1>2. /\ conditions.active = NoJob /\ breakpoints.stops = <<>> /\ Working
      /\ \A q \in pending : ~Sorting(q)
    BY <1>1, BasisGives
<1>3. \A q \in pending' : ~Ahead(q)' /\ ~Sorting(q)'
    BY <1>1, <1>2 DEF AheadAlone, Ahead, Sorting
<1> QED BY <1>2, <1>3, ShownStands

LEMMA ResumedStands ==
    ASSUME ViewBasis, NEW m, OnResumed(m)
    PROVE  Stands'
<1> DEFINE p == m.request
<1>1. /\ Types /\ Working /\ Stands /\ PastInv
      /\ session \in Flags /\ client \in Editors
    BY BasisGives
<1>2. /\ p \in pending /\ pending' = pending \ {p} /\ p.use = "client" /\ Resumes(p.command)
      /\ UNCHANGED <<breakpoints, conditions>> /\ TakeMessage(m) /\ m.type = "response"
      /\ session' = [session EXCEPT !.stopped = IF RollsBack(m) THEN TRUE ELSE @]
      /\ client' = Answer(client, {p.client}, IF m.ok THEN "ok" ELSE "error")
    BY DEF OnResumed, TakeResponse, Settled
<1>3. p.client \in Others
    <2>1. /\ p.client \in Requests \cup {NoRequest}
          /\ p.client # NoRequest
        BY <1>1, <1>2 DEF Types, Sent, PastInv, Past, Resumes
    <2>2. p.client # Launch
        BY <1>1, <1>2 DEF ViewBasis, AnswersInv, Working, Sane, Owed, Resumes
    <2> QED BY <2>1, <2>2 DEF Others
<1> HIDE DEF p
<1>4. CASE m.ok
    <2>1. session' = session
        BY <1>1, <1>2, <1>4 DEF RollsBack, Flags
    <2>2. /\ client'.view = client.view
          /\ client'.resume = IF client.resume = p.client THEN NoRequest ELSE client.resume
        BY <1>1, <1>2, <1>4 DEF Answer, Editors
    <2>3. \A q : (Ahead(q)' <=> Ahead(q)) /\ (Sorting(q)' <=> Sorting(q))
        BY <2>1 DEF Ahead, Sorting
    <2>4. \A q \in pending : q.client = p.client => q = p
        BY <1>1, <1>2, <1>3 DEF ViewBasis, AnswersInv, Working, Sane, OneInRouter
    <2>5. AheadAlone'
        BY <1>1, <1>2, <2>1, <2>2, <2>3, <2>4 DEF Stands, AheadAlone
    <2>6. SortingAlone'
        BY <1>1, <1>2, <2>1, <2>3 DEF Stands, SortingAlone
    <2>7. ResumeKept'
        BY <1>1, <1>2, <2>2 DEF Stands, ResumeKept
    <2>8. Hidden' <=> Hidden
        <3>1. ~Sorting(p)
            BY <1>2 DEF Sorting
        <3> QED BY <1>2, <2>3, <3>1 DEF Hidden
    <2>9. Seen'
        BY <1>1, <2>1, <2>2, <2>8 DEF Stands, Seen
    <2> QED BY <2>5, <2>6, <2>7, <2>9 DEF Stands
<1>5. CASE ~m.ok
    <2>1. p.revision = session.revision /\ StillCurrent(p)
        BY <1>2, <1>5, RefusedCurrent DEF Refusal, p
    <2>2. session'.stopped /\ session'.revision = session.revision
        BY <1>1, <1>2, <1>5, <2>1 DEF RollsBack, p, Flags
    <2>3. Ahead(p) /\ client.resume = p.client
        BY <1>1, <1>2, <2>1 DEF Ahead, Stands, AheadAlone
    <2>4. client'.view = "stopped" /\ client'.resume = NoRequest
        BY <1>1, <1>2, <1>5, <2>3 DEF Answer, Editors
    <2> QED BY <1>2, <2>2, <2>3, <2>4, UndoneStands
<1>6. m.ok \in BOOLEAN
    BY <1>1, <1>2, MessageTyped DEF Messages
<1> QED BY <1>4, <1>5, <1>6

LEMMA ContinuedStands ==
    ASSUME ViewBasis, NEW m, OnConditionContinued(m)
    PROVE  Stands'
<1> DEFINE p == m.request
<1>1. /\ Types /\ Working /\ Stands
      /\ session \in Flags /\ client \in Editors /\ conditions \in ConditionStates
    BY BasisGives
<1>2. /\ p \in pending /\ pending' = pending \ {p} /\ p.use = "conditionContinue"
      /\ UNCHANGED breakpoints /\ TakeMessage(m) /\ m.type = "response"
      /\ IF ~m.ok /\ StillCurrent(p)
         THEN /\ session' = [session EXCEPT !.stopped = TRUE]
              /\ conditions' = [conditions EXCEPT !.suppress = FALSE]
              /\ client' = TellStopped(client, p.stop)
         ELSE UNCHANGED <<session, conditions, client>>
    BY DEF OnConditionContinued, TakeResponse, Settled
<1>3. Resumes(p.command) /\ ~Sorting(p)
    BY <1>2 DEF ViewBasis, Addressed, Address, Resumes, Sorting
<1> HIDE DEF p
<1>4. CASE ~(~m.ok /\ StillCurrent(p))
    BY <1>1, <1>2, <1>3, <1>4, DroppedStands DEF Same
<1>5. CASE ~m.ok /\ StillCurrent(p)
    <2>1. /\ session'.stopped /\ session'.revision = session.revision
          /\ conditions'.active = conditions.active
        BY <1>1, <1>2, <1>5 DEF Flags, ConditionStates
    <2>2. client'.view = "stopped" /\ client'.resume = NoRequest
        BY <1>1, <1>2, <1>5, TellsView
    <2>3. Ahead(p)
        BY <1>3, <1>5 DEF Ahead, StillCurrent
    <2> QED BY <1>2, <2>1, <2>2, <2>3, UndoneStands
<1> QED BY <1>4, <1>5

LEMMA ClassifiedStands ==
    ASSUME ViewBasis, NEW m, NEW panicked \in BOOLEAN, OnStopClassified(m, panicked)
    PROVE  Stands'
<1> DEFINE p == m.request
<1>1. /\ Types /\ Working /\ Stands /\ client \in Editors
      /\ session.stopped => \A q \in pending : ~Ahead(q)
    BY BasisGives
<1>2. /\ p \in pending /\ pending' = pending \ {p} /\ p.use = "stopContext"
      /\ UNCHANGED <<session, breakpoints>>
      /\ IF ~session.stopped \/ ~StillCurrent(p)
         THEN UNCHANGED <<client, conditions>>
         ELSE \/ client' = TellStopped(client, p.stop) /\ conditions' = conditions
              \/ PublishConditionStop(p.stop, client, conditions, workers, session.revision)
    BY DEF OnStopClassified, TakeResponse, Settled
<1>3. "panic" \in p.stop.ids
    BY <1>2 DEF ViewBasis, Addressed, Address
<1> HIDE DEF p
<1>4. CASE ~session.stopped \/ ~StillCurrent(p)
    <2>1. ~Sorting(p)
        BY <1>1, <1>2, <1>4 DEF Sorting, Stands, SortingAlone, StillCurrent, ViewBasis, Live
    <2> QED BY <1>1, <1>2, <1>4, <2>1, DroppedStands DEF Same
<1>5. CASE session.stopped /\ StillCurrent(p)
    <2>1. client' = TellStopped(client, p.stop) /\ conditions' = conditions
        <3>1. ~AllConditional(p.stop)
            BY <1>3 DEF AllConditional
        <3> QED BY <1>2, <1>5, <3>1 DEF PublishConditionStop
    <2>2. Sorting(p)
        BY <1>2, <1>5 DEF Sorting, StillCurrent
    <2>3. /\ conditions.active = NoJob /\ breakpoints.stops = <<>>
          /\ \A q \in pending : Sorting(q) => q = p
        BY <1>1, <1>2, <2>2 DEF Stands, SortingAlone
    <2>4. \A q \in pending' : ~Ahead(q)' /\ ~Sorting(q)'
        BY <1>1, <1>2, <1>5, <2>3 DEF Ahead, Sorting
    <2>5. client'.view = "stopped" /\ client'.resume = NoRequest
        BY <1>1, <2>1, TellsView
    <2> QED BY <1>1, <1>2, <1>5, <2>1, <2>3, <2>4, <2>5, ShownStands
<1> QED BY <1>4, <1>5

LEMMA ReplyStands ==
    ASSUME ViewBasis, NEW m,
           \/ OnConditionContinued(m) \/ \E w \in Workers : OnWorkerReply(m, w)
           \/ \E panicked \in BOOLEAN : OnStopClassified(m, panicked)
           \/ OnStackTrace(m) \/ OnSourcesReplaced(m) \/ OnInitialize(m)
           \/ OnLaunched(m) \/ OnConfigured(m) \/ OnResumed(m) \/ OnPauseAnswered(m)
           \/ OnThreads(m) \/ OnDisconnected(m)
    PROVE  Stands'
<1> DEFINE p == m.request
           a == {p.client}
           n == {Launch}
<1>0. Live /\ Live' /\ Addressed
    BY DEF ViewBasis
<1>1. /\ Types /\ Working /\ Stands
      /\ session \in Flags /\ client \in Editors /\ conditions \in ConditionStates
    BY BasisGives
<1>2. /\ \A q \in pending : q.use = "client" /\ q.client = client.resume =>
             Resumes(q.command) \/ q.command = "initialize"
      /\ client.resume # Launch
    BY Elsewhere, BasisGives DEF ViewBasis
<1>3. ASSUME p \in pending, p.use = "client", ~Resumes(p.command), p.command # "initialize"
      PROVE  client.resume \notin a /\ ~Tracked(p)
    BY <1>2, <1>3 DEF Tracked
<1>4. CASE \E w \in Workers : OnWorkerReply(m, w)
    <2>1. PICK w \in Workers : OnWorkerReply(m, w)
        BY <1>4
    <2>2. /\ p \in pending /\ pending' = pending \ {p} /\ p.use = w
          /\ UNCHANGED <<session, breakpoints, conditions, client>>
        BY <2>1 DEF OnWorkerReply, TakeResponse, Settled
    <2>3. ~Sorting(p) /\ p.use # "client"
        BY <2>2 DEF Sorting, Workers
    <2> HIDE DEF p
    <2> QED BY <1>1, <2>2, <2>3, DroppedStands DEF Same
<1>5. CASE OnStackTrace(m) \/ OnThreads(m)
    <2>1. /\ p \in pending /\ pending' = Settled(m) /\ p.use = "client"
          /\ p.command \in {"stackTrace", "threads"}
          /\ UNCHANGED <<session, breakpoints, conditions>>
        BY <1>5 DEF OnStackTrace, OnThreads, TakeResponse
    <2>2. client.resume \notin a /\ ~Tracked(p)
        BY <1>3, <2>1 DEF Resumes
    <2>3. \/ \E o : client' = Answer(client, a, o)
          \/ \E f : client' = [AnswerWithData(client, p.client, m.data) EXCEPT !.frame = f]
        BY <1>5 DEF OnStackTrace, OnThreads
    <2>4. client'.view = client.view /\ client'.resume = client.resume
        <3>1. CASE \E o : client' = Answer(client, a, o)
            <4>1. PICK o : client' = Answer(client, a, o)
                BY <3>1
            <4> HIDE DEF a
            <4> QED BY <1>1, <2>2, <4>1, AnswerLeaves
        <3>2. CASE \E f : client' = [AnswerWithData(client, p.client, m.data) EXCEPT !.frame = f]
            <4> DEFINE d == AnswerWithData(client, p.client, m.data)
            <4>1. d.view = client.view /\ d.resume = client.resume
                <5> DEFINE r == p.client
                <5>1. client.resume # r
                    BY <2>2
                <5> HIDE DEF r, p
                <5> QED BY <1>1, <5>1, DataLeaves DEF r
            <4>2. PICK f : client' = [d EXCEPT !.frame = f]
                BY <3>2
            <4> HIDE DEF d
            <4> QED BY <4>1, <4>2
        <3> QED BY <2>3, <3>1, <3>2
    <2>5. \A q : Tracked(q) => (q \in pending' <=> q \in pending)
        BY <2>1, <2>2, SettledTracks
    <2> QED BY <1>1, <2>1, <2>4, <2>5, UnmovedStands DEF Unmoved, Same
<1>6. CASE OnSourcesReplaced(m)
    <2>1. m.ok
        BY <1>0, <1>6 DEF OnSourcesReplaced, Raise, Live, Working
    <2>2. /\ p \in pending /\ pending' = Settled(m) /\ p.use = "client"
          /\ p.command = "setBreakpoints"
          /\ UNCHANGED <<session, breakpoints>>
          /\ conditions' = [conditions EXCEPT !.updating = FALSE,
                                !.bindings["source"] = p.kind]
          /\ client' = Answer(client, a, "ok")
        BY <1>6, <2>1 DEF OnSourcesReplaced, TakeResponse
    <2>3. client.resume \notin a /\ ~Tracked(p)
        BY <1>3, <2>2 DEF Resumes
    <2>4. conditions'.active = conditions.active
        BY <1>1, <2>2 DEF ConditionStates
    <2>5. \A q : Tracked(q) => (q \in pending' <=> q \in pending)
        BY <2>2, <2>3, SettledTracks
    <2> HIDE DEF a
    <2>6. client'.view = client.view /\ client'.resume = client.resume
        BY <1>1, <2>2, <2>3, AnswerLeaves
    <2> QED BY <1>1, <2>2, <2>4, <2>5, <2>6, UnmovedStands DEF Unmoved, Same
<1>7. CASE OnInitialize(m)
    <2>1. /\ p \in pending /\ p.use = "client" /\ p.command = "initialize"
          /\ UNCHANGED <<session, breakpoints, conditions, client>>
          /\ \/ pending' = Settled(m)
             \/ Send(Settled(m), Outgoing(FreshSeq(Settled(m)), Launch, "launch",
                                  "client", "none", NoStop, 0, session.revision))
        BY <1>0, <1>7 DEF OnInitialize, TakeResponse, Raise, Live, Working
    <2>2. \/ pending' = Settled(m)
          \/ \E q : q.command = "launch" /\ q.use = "client" /\ pending' = Settled(m) \cup {q}
        BY <2>1 DEF Send, Outgoing
    <2>3. \A q : Tracked(q) => (q \in pending' <=> q \in pending)
        BY <2>1, <2>2 DEF Tracked, Resumes, Settled
    <2> QED BY <1>1, <2>1, <2>3, UnmovedStands DEF Unmoved, Same
<1>8. CASE OnLaunched(m)
    <2> DEFINE answered == IF session.launchAnswered THEN client
                           ELSE Answer(client, n, IF m.ok THEN "ok" ELSE "error")
               launched == [session EXCEPT !.launchAnswered = TRUE]
    <2>1. /\ p \in pending /\ pending' = Settled(m) /\ p.use = "client"
          /\ p.command = "launch" /\ UNCHANGED <<breakpoints, conditions>>
          /\ \/ client' = answered /\ session' = launched
             \/ session' = Finished(launched)
        BY <1>8 DEF OnLaunched, TakeResponse
    <2>2. session' # Finished(launched)
        BY <1>0, <1>1 DEF Finished, Live, Flags
    <2>3. session'.stopped = session.stopped /\ session'.revision = session.revision
        BY <1>1, <2>1, <2>2 DEF Flags
    <2>4. ~Tracked(p) /\ client.resume \notin n
        BY <1>2, <2>1 DEF Tracked, Resumes
    <2>5. \A q : Tracked(q) => (q \in pending' <=> q \in pending)
        BY <2>1, <2>4, SettledTracks
    <2>6. client'.view = client.view /\ client'.resume = client.resume
        <3> HIDE DEF n, launched
        <3> QED BY <1>1, <2>1, <2>2, <2>4, AnswerLeaves
    <2> QED BY <1>1, <2>1, <2>3, <2>5, <2>6, UnmovedStands DEF Unmoved, Same
<1>9. CASE OnConfigured(m)
    <2>1. m.ok
        BY <1>0, <1>1, <1>9 DEF OnConfigured, Finished, Live, Flags
    <2>2. /\ p \in pending /\ pending' = Settled(m) /\ p.use = "client"
          /\ p.command = "configurationDone"
          /\ UNCHANGED <<session, breakpoints, conditions>>
          /\ client' = Answer(client, a, "ok")
        BY <1>9, <2>1 DEF OnConfigured, TakeResponse
    <2>3. client.resume \notin a /\ ~Tracked(p)
        BY <1>3, <2>2 DEF Resumes
    <2>5. \A q : Tracked(q) => (q \in pending' <=> q \in pending)
        BY <2>2, <2>3, SettledTracks
    <2> HIDE DEF a
    <2>6. client'.view = client.view /\ client'.resume = client.resume
        BY <1>1, <2>2, <2>3, AnswerLeaves
    <2> QED BY <1>1, <2>2, <2>5, <2>6, UnmovedStands DEF Unmoved, Same
<1>10. CASE OnPauseAnswered(m)
    <2>1. /\ p \in pending /\ pending' = Settled(m) /\ p.use = "client"
          /\ p.command = "pause" /\ UNCHANGED <<breakpoints, conditions>>
          /\ session' = [session EXCEPT !.pauseRevision =
                            IF ~m.ok /\ @ = p.revision THEN None ELSE @]
          /\ \E o : client' = Answer(client, a, o)
        BY <1>10 DEF OnPauseAnswered, TakeResponse
    <2>2. session'.stopped = session.stopped /\ session'.revision = session.revision
        BY <1>1, <2>1 DEF Flags
    <2>3. client.resume \notin a /\ ~Tracked(p)
        BY <1>3, <2>1 DEF Resumes
    <2>5. \A q : Tracked(q) => (q \in pending' <=> q \in pending)
        BY <2>1, <2>3, SettledTracks
    <2> HIDE DEF a
    <2>6. client'.view = client.view /\ client'.resume = client.resume
        BY <1>1, <2>1, <2>3, AnswerLeaves
    <2> QED BY <1>1, <2>1, <2>2, <2>5, <2>6, UnmovedStands DEF Unmoved, Same
<1>11. CASE OnDisconnected(m)
    BY <1>0, <1>11 DEF OnDisconnected, Raise, Live, Working
<1> QED BY <1>4, <1>5, <1>6, <1>7, <1>8, <1>9, <1>10, <1>11, ResumedStands,
           ContinuedStands, ClassifiedStands

\* The editor's resume stays where it is, or is over.
LEMMA ResumeStays ==
    ASSUME ResumeKept, pending' = pending,
           client'.resume \in {client.resume, NoRequest}
    PROVE  ResumeKept'
BY DEF ResumeKept

LEMMA EventStands ==
    ASSUME ViewBasis, fromAdapter # <<>>, NEW m, m = Head(fromAdapter),
           \/ OnInitialized(m) \/ OnStopped(m) \/ OnContinued(m) \/ OnExited(m)
           \/ OnTerminated(m) \/ OnFailed(m)
    PROVE  Stands'
<1>0. /\ Types /\ Working /\ Stands /\ PastInv /\ ResumeKept /\ Live /\ Live'
      /\ session \in Flags /\ session.revision \in Nat /\ client \in Editors
      /\ breakpoints \in BreakpointStates /\ conditions \in ConditionStates
      /\ workers \in [Workers -> WorkerStates]
      /\ \A j \in inspection.waiting : j.cause # client.resume
      /\ conditions.active # NoJob => session.stopped
      /\ breakpoints.stops # <<>> => session.stopped
      /\ client.view = "running" <=> ~(session.stopped /\ ~Hidden)
    BY BasisGives DEF ViewBasis
<1>1. CASE OnInitialized(m)
    <2>1. UNCHANGED <<breakpoints, conditions, pending, client>>
          /\ session' = [session EXCEPT !.ready = TRUE]
        BY <1>1 DEF OnInitialized, TakeEvent
    <2>2. session'.stopped = session.stopped /\ session'.revision = session.revision
        BY <1>0, <2>1 DEF Flags
    <2> QED BY <1>0, <2>1, <2>2, UnmovedStands DEF Unmoved, Same
<1>2. m.type \in {"stopped", "continued"}
          => ~session.stopped /\ breakpoints.stops = <<>> /\ client.view = "running"
    <2> SUFFICES ASSUME m.type \in {"stopped", "continued"} PROVE ~session.stopped
        BY <1>0
    <2>1. 1 \in 1 .. Len(fromAdapter) /\ m = fromAdapter[1]
        <3> fromAdapter \in Seq(Messages)
            BY <1>0 DEF Types
        <3> QED BY Tails
    <2>2. Unsettled
        BY <2>1 DEF Unsettled, Stopping, GoingAhead
    <2> QED BY <1>0, <2>2 DEF KnowsStop, ViewBasis, TokensInv
<1>s. /\ AnswerStale(client) \in Editors
      /\ AnswerStale(client).view = client.view
      /\ AnswerStale(client).resume = client.resume
    BY <1>0, StaleLeaves
<1>3. CASE OnStopped(m)
    <2>1. ~session.stopped /\ breakpoints.stops = <<>> /\ client.view = "running"
        BY <1>2, <1>3 DEF OnStopped, TakeEvent
    <2> DEFINE cond == [conditions EXCEPT !.active = NoJob, !.suppress = FALSE,
                            !.stepping = @ \/ session.pauseRevision # None]
               ws == Release(workers, {"inspection", "condition"})
               revision == session.revision + 1
               c == AnswerStale(client)
    <2>3. /\ session' = [session EXCEPT !.stopped = TRUE, !.revision = revision,
                                        !.pauseRevision = None]
          /\ IF HoldsStop
             THEN /\ breakpoints' = [breakpoints EXCEPT !.stops = Append(@, m.stop)]
                  /\ client' = c /\ pending' = pending
             ELSE /\ PublishStop(m.stop, c, cond, ws, revision)
                  /\ UNCHANGED breakpoints
        BY <1>0, <1>3 DEF OnStopped, TakeEvent, TakeMessage, Live
    <2>4. /\ cond.active = NoJob /\ cond \in ConditionStates /\ revision \in Nat
          /\ session'.stopped /\ session'.revision = revision
        <3>1. cond.active = NoJob /\ cond \in ConditionStates
            BY <1>0, Values DEF ConditionStates
        <3>2. session'.stopped /\ session'.revision = revision
            BY <1>0, <2>3 DEF Flags
        <3> QED BY <1>0, <3>1, <3>2
    <2>5. \A p \in pending : ~Ahead(p)' /\ ~Sorting(p)'
        BY <1>0, <2>4, Renewed
    <2>6. c.view = "running" /\ c.resume = client.resume /\ c \in Editors
        BY <1>s, <2>1
    <2>7. m.stop \in Stops
        BY MessageTyped, <1>0, <1>3 DEF OnStopped, TakeEvent, Messages
    <2> HIDE DEF cond, ws, revision, c
    <2>8. CASE HoldsStop
        <3> DEFINE q == breakpoints.stops
        <3>1. /\ breakpoints' = [breakpoints EXCEPT !.stops = Append(q, m.stop)]
              /\ client' = c /\ pending' = pending
            BY <2>3, <2>8
        <3>2. breakpoints'.stops = Append(q, m.stop) /\ q \in Seq(Stops)
            BY <1>0, <3>1 DEF BreakpointStates
        <3> HIDE DEF q
        <3>3. breakpoints'.stops # <<>>
            <4>1. Append(q, m.stop) # <<>>
                BY <2>7, <3>2
            <4> QED BY <3>2, <4>1
        <3>4. AheadAlone' /\ SortingAlone'
            BY <2>5, <3>1 DEF AheadAlone, SortingAlone
        <3>5. ResumeKept'
            BY <1>0, <2>6, <3>1, ResumeStays
        <3>6. Seen'
            BY <2>6, <3>1, <3>3 DEF Seen, Hidden
        <3> QED BY <3>4, <3>5, <3>6 DEF Stands
    <2>9. CASE ~HoldsStop
        <3>1. PublishStop(m.stop, c, cond, ws, revision) /\ breakpoints' = breakpoints
            BY <2>3, <2>9
        <3>2. c.resume # NoRequest => \E p \in pending :
                  p.use = "client" /\ Resumes(p.command) /\ p.client = c.resume
            BY <1>0, <2>6 DEF ResumeKept
        <3>3. breakpoints'.stops = <<>>
            BY <2>1, <3>1
        <3> QED BY <1>0, <2>4, <2>5, <2>6, <2>7, <3>1, <3>2, <3>3, PublishStands
    <2> QED BY <2>8, <2>9
<1>4. CASE OnContinued(m)
    <2>1. /\ session' = [session EXCEPT !.stopped = FALSE, !.revision = session.revision + 1]
          /\ client' \in {AnswerStale(client), TellContinued(AnswerStale(client))}
          /\ pending' = pending
        BY <1>0, <1>4 DEF OnContinued, Live
    <2>2. ~session'.stopped /\ session'.revision = session.revision + 1
        BY <1>0, <2>1 DEF Flags
    <2>3. client'.view = "running" /\ client'.resume \in {client.resume, NoRequest}
        <3>1. client.view = "running"
            BY <1>2, <1>4 DEF OnContinued, TakeEvent
        <3> QED BY <1>s, <2>1, <3>1, TellsView
    <2>4. ResumeKept'
        BY <1>0, <2>1, <2>3, ResumeStays
    <2>5. \A p \in pending' : ~Ahead(p)' /\ ~Sorting(p)'
        BY <1>0, <2>1, <2>2, Renewed
    <2> QED BY <2>2, <2>3, <2>4, <2>5, RunningStands
<1>5. CASE OnExited(m)
    <2>1. session'.exited
        BY <1>0, <1>5 DEF OnExited, Flags
    <2> QED BY <1>0, <2>1 DEF Live
<1>6. CASE OnTerminated(m)
    <2>1. session'.ended
        BY <1>0, <1>6 DEF OnTerminated, Finished, Flags
    <2> QED BY <1>0, <2>1 DEF Live
<1>7. CASE OnFailed(m)
    BY <1>0, <1>7 DEF OnFailed, Raise, Live, Working
<1> QED BY <1>1, <1>3, <1>4, <1>5, <1>6, <1>7

\* A worker's request is about no stop the editor waits for.
LEMMA ReadTracks ==
    ASSUME Types, NEW w \in Workers, OnRead(w)
    PROVE  \A p : Tracked(p) => (p \in pending' <=> p \in pending)
<1>1. \/ pending' = pending
      \/ Send(pending, Outgoing(FreshSeq(pending), NoRequest, "work", w,
                                workers[w].job.kind, workers[w].job.stop,
                                workers[w].job.cause, session.revision))
    BY DEF OnRead
<1>2. \/ pending' = pending
      \/ \E q : q.command = "work" /\ q.use = w /\ pending' = pending \cup {q}
    BY <1>1 DEF Send, Outgoing
<1>3. \A q : q.command = "work" /\ q.use = w => ~Tracked(q)
    BY DEF Tracked, Resumes, Workers
<1> QED BY <1>2, <1>3

\* The loop resumes after a false condition: the stop was hidden and stays so.
LEMMA SkipStands ==
    ASSUME ViewBasis, conditions.active # NoJob,
           ~session'.stopped, session'.revision = session.revision + 1,
           client'.view = client.view, client'.resume = client.resume,
           Send(pending, Outgoing(FreshSeq(pending), NoRequest, "continue",
                    "conditionContinue", "none", conditions.active.stop, 0,
                    session.revision + 1))
    PROVE  Stands'
<1>1. /\ Types /\ Working /\ Stands /\ PastInv /\ ResumeKept
      /\ conditions \in ConditionStates /\ session.stopped
      /\ client.view = "running" <=> ~(session.stopped /\ ~Hidden)
    BY BasisGives
<1>2. client.view = "running"
    BY <1>1 DEF Hidden
<1>3. PICK p : pending' = pending \cup {p} /\ p.use = "conditionContinue"
               /\ p.command = "continue"
    BY DEF Send, Outgoing
<1>4. \A q \in pending : ~Ahead(q)' /\ ~Sorting(q)'
    BY <1>1, Renewed
<1>5. ~Sorting(p)'
    BY <1>3 DEF Sorting
<1>6. ResumeKept'
    BY <1>1, <1>3 DEF ResumeKept
<1> QED BY <1>2, <1>3, <1>4, <1>5, <1>6, RunningStands

LEMMA JudgedStands ==
    ASSUME ViewBasis, Dated(workers), OnConditionDone
    PROVE  Stands'
<1> DEFINE stop == conditions.active.stop
<1>0. /\ Types /\ Working /\ Stands /\ PastInv /\ ResumeKept /\ Live /\ Live'
      /\ session \in Flags /\ session.revision \in Nat /\ client \in Editors
      /\ breakpoints \in BreakpointStates /\ conditions \in ConditionStates
      /\ \A j \in inspection.waiting : j.cause # client.resume
      /\ conditions.active # NoJob => session.stopped /\ breakpoints.stops = <<>>
      /\ session.stopped => \A p \in pending : ~Ahead(p)
    BY BasisGives DEF ViewBasis
<1>1. CASE ConditionEpoch # workers["condition"].job.epoch
    <2>1. UNCHANGED <<session, pending, breakpoints, conditions, client>>
        BY <1>1 DEF OnConditionDone, IgnoreDone
    <2> QED BY <1>0, <2>1, UnmovedStands DEF Unmoved, Same
<1>2. CASE ConditionEpoch = workers["condition"].job.epoch
    <2>1. /\ workers["condition"].pc = "done" /\ breakpoints' = breakpoints
          /\ \/ /\ session' = [session EXCEPT !.stopped = FALSE,
                                              !.revision = session.revision + 1]
                /\ client' = AnswerStale(client)
                /\ Send(pending, Outgoing(FreshSeq(pending), NoRequest, "continue",
                       "conditionContinue", "none", stop, 0, session.revision + 1))
             \/ /\ conditions' = [conditions EXCEPT !.active = NoJob]
                /\ client' = TellStopped(client, stop)
                /\ UNCHANGED <<session, pending>>
        BY <1>2 DEF OnConditionDone, TakeWork
    <2>2. conditions.active # NoJob
        <3>1. workers["condition"].job.epoch # None
            BY <2>1 DEF Dated
        <3> QED BY <1>2, <3>1 DEF ConditionEpoch
    <2>3. session.stopped /\ breakpoints.stops = <<>>
        BY <1>0, <2>2
    <2>4. CASE session' = session
        <3>1. /\ conditions' = [conditions EXCEPT !.active = NoJob]
              /\ client' = TellStopped(client, stop)
              /\ UNCHANGED <<session, pending>>
            <4>1. ASSUME session' = [session EXCEPT !.stopped = FALSE,
                                                    !.revision = session.revision + 1]
                  PROVE  FALSE
                <5>1. session'.revision = session.revision + 1
                    BY <1>0, <4>1 DEF Flags
                <5>2. session'.revision = session.revision
                    BY <2>4
                <5> QED BY <1>0, <5>1, <5>2
            <4> QED BY <2>1, <4>1
        <3>2. client'.view = "stopped" /\ client'.resume = NoRequest
            BY <1>0, <3>1, TellsView
        <3>3. conditions'.active = NoJob
            BY <1>0, <3>1 DEF ConditionStates
        <3>4. \A p \in pending' : ~Ahead(p)' /\ ~Sorting(p)'
            BY <1>0, <2>2, <2>3, <3>1 DEF Stands, SortingAlone, Ahead, Sorting
        <3> QED BY <1>0, <2>1, <2>3, <3>1, <3>2, <3>3, <3>4, ShownStands
    <2>5. CASE session' # session
        <3>1. /\ session' = [session EXCEPT !.stopped = FALSE,
                                            !.revision = session.revision + 1]
              /\ client' = AnswerStale(client)
              /\ Send(pending, Outgoing(FreshSeq(pending), NoRequest, "continue",
                     "conditionContinue", "none", stop, 0, session.revision + 1))
            BY <2>1, <2>5
        <3>2. ~session'.stopped /\ session'.revision = session.revision + 1
            BY <1>0, <3>1 DEF Flags
        <3>3. client'.view = client.view /\ client'.resume = client.resume
            BY <1>0, <3>1, StaleLeaves
        <3> QED BY <2>2, <3>1, <3>2, <3>3, SkipStands
    <2> QED BY <2>4, <2>5
<1> QED BY <1>1, <1>2

LEMMA WorkStands ==
    ASSUME ViewBasis, Dated(workers), OnWork
    PROVE  Stands'
<1>0. /\ Types /\ Working /\ Stands /\ PastInv /\ ResumeKept /\ Live /\ Live'
      /\ client \in Editors
      /\ breakpoints \in BreakpointStates /\ conditions \in ConditionStates
      /\ \A j \in inspection.waiting : j.cause # client.resume
    BY BasisGives DEF ViewBasis
<1>1. /\ client.resume \notin {breakpoints.function} \cap Requests
      /\ client.resume \notin {breakpoints.panic} \cap Requests
    BY <1>0, Elsewhere DEF ViewBasis
<1>2. ASSUME UNCHANGED <<session, pending, breakpoints, conditions, client>>
      PROVE  Stands'
    BY <1>0, <1>2, UnmovedStands DEF Unmoved, Same
<1>3. ASSUME NEW w \in Workers, OnRead(w) PROVE Stands'
    <2>1. UNCHANGED <<session, breakpoints, conditions, client>>
        BY <1>3 DEF OnRead
    <2>2. \A p : Tracked(p) => (p \in pending' <=> p \in pending)
        BY <1>0, <1>3, ReadTracks
    <2> QED BY <1>0, <2>1, <2>2, UnmovedStands DEF Unmoved, Same
<1>4. ASSUME NEW w, IgnoreDone(w) PROVE Stands'
    BY <1>2, <1>4 DEF IgnoreDone
<1>5. ASSUME NEW w, RaiseDone(w) PROVE FALSE
    BY <1>0, <1>5 DEF RaiseDone, Raise, Live, Working
<1>6. CASE OnInspectDone
    <2> DEFINE me == workers["inspection"]
               r == me.job.cause
               n == me.data
               a == {r}
    <2>1. UNCHANGED <<session, pending, breakpoints, conditions>>
          /\ \/ client' = client
             \/ /\ me.job \in inspection.waiting
                /\ \/ client' = AnswerWithData(client, r, n)
                   \/ client' = Answer(client, a, "error")
        BY <1>6 DEF OnInspectDone
    <2>2. client' # client => client.resume # r /\ client.resume \notin a
        BY <1>0, <2>1
    <2> HIDE DEF r, n, a, me
    <2>3. client'.view = client.view /\ client'.resume = client.resume
        BY <1>0, <2>1, <2>2, AnswerLeaves, DataLeaves
    <2> QED BY <1>0, <2>1, <2>3, UnmovedStands DEF Unmoved, Same
<1>7. CASE OnFunctionDone
    <2> DEFINE a == {breakpoints.function}
    <2>1. \/ \E w : IgnoreDone(w)
          \/ /\ breakpoints.function # NoRequest
             /\ conditions' = [conditions EXCEPT !.bindings["function"] = breakpoints.requested]
             /\ breakpoints' = [breakpoints EXCEPT !.function = NoRequest, !.requested = "none"]
             /\ client' = Answer(client, a, "ok") /\ UNCHANGED <<session, pending>>
        BY <1>5, <1>7 DEF OnFunctionDone
    <2>2. CASE ~\E w : IgnoreDone(w)
        <3>1. /\ conditions'.active = conditions.active
              /\ breakpoints'.stops = breakpoints.stops
            BY <1>0, <2>1, <2>2 DEF ConditionStates, BreakpointStates
        <3>2. client.resume \notin a
            <4>1. breakpoints.function \in Requests
                BY <1>0, <2>1, <2>2 DEF BreakpointStates, Others
            <4> QED BY <1>1, <4>1
        <3> HIDE DEF a
        <3>3. client'.view = client.view /\ client'.resume = client.resume
            <4>1. client' = Answer(client, a, "ok")
                BY <2>1, <2>2
            <4> QED BY <1>0, <3>2, <4>1, AnswerLeaves
        <3> QED BY <1>0, <2>1, <2>2, <3>1, <3>3, UnmovedStands DEF Unmoved, Same
    <2> QED BY <1>4, <2>2
<1>8. CASE OnPanicDone
    <2> DEFINE a == {breakpoints.panic} \cap Requests
    <2>1. \/ \E w : IgnoreDone(w)
          \/ /\ \E installed : breakpoints' =
                    [breakpoints EXCEPT !.panic = None, !.panicConfigured = TRUE,
                                        !.panicInstalled = installed]
             /\ client' = Answer(client, a, "ok") /\ UNCHANGED <<session, pending, conditions>>
        BY <1>5, <1>8 DEF OnPanicDone
    <2>2. CASE ~\E w : IgnoreDone(w)
        <3>1. breakpoints'.stops = breakpoints.stops
            BY <1>0, <2>1, <2>2 DEF BreakpointStates
        <3>2. client.resume \notin a
            BY <1>1
        <3> HIDE DEF a
        <3>3. client'.view = client.view /\ client'.resume = client.resume
            <4>1. client' = Answer(client, a, "ok")
                BY <2>1, <2>2
            <4> QED BY <1>0, <3>2, <4>1, AnswerLeaves
        <3> QED BY <1>0, <2>1, <2>2, <3>1, <3>3, UnmovedStands DEF Unmoved, Same
    <2> QED BY <1>4, <2>2
<1>9. CASE OnConditionDone
    BY <1>9, JudgedStands
<1> QED BY <1>3, <1>6, <1>7, <1>8, <1>9 DEF OnWork

LEMMA ViewKept ==
    ASSUME FlowInv, TokensInv, HeldInv, PastInv, ViewInv, [Next]_vars
    PROVE  ViewInv'
<1> SUFFICES ASSUME Live' PROVE Stands'
    BY DEF ViewInv
<1>0. /\ SafetyInv /\ Types /\ Addressed /\ Dated(workers) /\ client \in Editors
    BY DEF FlowInv, SafetyInv, Types
<1>1. Live /\ Stands
    <2>1. Live
        BY <1>0, Monotone DEF Live
    <2> QED BY <2>1 DEF ViewInv
<1>b. ViewBasis
    BY <1>0, <1>1 DEF FlowInv, ViewBasis
<1>2. CASE OnClient
    BY <1>b, <1>2, ClientStands
<1>3. CASE DrainStop \/ DrainRequest
    BY <1>b, <1>3, DrainStands
<1>4. CASE OnAdapter
    <2> DEFINE m == Head(fromAdapter)
    <2>1. fromAdapter # <<>>
        BY <1>4 DEF OnAdapter
    <2>2. CASE \/ OnConditionContinued(m) \/ \E w \in Workers : OnWorkerReply(m, w)
               \/ \E panicked \in BOOLEAN : OnStopClassified(m, panicked)
               \/ OnStackTrace(m) \/ OnSourcesReplaced(m) \/ OnInitialize(m)
               \/ OnLaunched(m) \/ OnConfigured(m) \/ OnResumed(m) \/ OnPauseAnswered(m)
               \/ OnThreads(m) \/ OnDisconnected(m)
        <3> HIDE DEF m
        <3> QED BY <1>b, <2>2, ReplyStands
    <2>3. CASE \/ OnInitialized(m) \/ OnStopped(m) \/ OnContinued(m) \/ OnExited(m)
               \/ OnTerminated(m) \/ OnFailed(m)
        BY <1>b, <2>1, <2>3, EventStands
    <2> QED BY <1>4, <2>2, <2>3 DEF OnAdapter
<1>5. CASE OnWork
    BY <1>0, <1>b, <1>5, WorkStands
<1>6. CASE Timeout \/ Shutdown
    BY <1>1, <1>6 DEF Timeout, Shutdown, Raise, Live, Working
<1>7. CASE \/ \E w \in Workers : Worker(w)
           \/ ClientSends \/ ClientLeaves
           \/ Adapter \/ AdapterAnswers \/ TargetStops \/ TargetExits \/ Crash
           \/ UNCHANGED vars
    <2>1. /\ UNCHANGED <<session, pending, breakpoints, conditions>>
          /\ client'.view = client.view /\ client'.resume = client.resume
        <3>1. CASE \E w \in Workers : Worker(w)
            BY <3>1 DEF Worker, WorkerStart, WorkerFinish, WorkerTimeout, StepWorker
        <3>2. CASE ClientSends \/ ClientLeaves \/ UNCHANGED vars
            BY <1>0, <3>2 DEF ClientSends, ClientLeaves, vars, Editors
        <3>3. CASE Adapter
            BY <1>0, <3>3, AdapterEffects DEF Handle
        <3>4. CASE AdapterAnswers \/ TargetStops \/ TargetExits \/ Crash
            BY <1>0, <3>4, TargetEffects DEF Reports, TargetMoves
        <3> QED BY <1>7, <3>1, <3>2, <3>3, <3>4
    <2> QED BY <1>1, <2>1, UnmovedStands DEF Unmoved, Same
<1> QED BY <1>2, <1>3, <1>4, <1>5, <1>6, <1>7 DEF Next

LEMMA InitView == Init => PastInv /\ ViewInv
<1> SUFFICES ASSUME Init PROVE PastInv /\ ViewInv
    OBVIOUS
<1>1. /\ session.revision = 0 /\ ~session.stopped
      /\ breakpoints.stops = <<>> /\ conditions.active = NoJob
      /\ client.view = "running" /\ client.resume = NoRequest
    BY DEF Init, FlagsAtLaunch
<1>2. \A p \in pending : /\ p.revision = 0 /\ p.command = "initialize" /\ p.use = "client"
    BY DEF Init, Outgoing
<1>3. PastInv
    BY <1>1, <1>2 DEF PastInv, Past
<1>4. \A p \in pending : ~Ahead(p) /\ ~Sorting(p)
    BY <1>2 DEF Ahead, Sorting, Resumes
<1>5. AheadAlone /\ SortingAlone /\ ResumeKept /\ Seen
    BY <1>1, <1>4 DEF AheadAlone, SortingAlone, ResumeKept, Seen
<1> QED BY <1>3, <1>5 DEF ViewInv, Stands

-----------------------------------------------------------------------------
(* What the session knows of the target.                                     *)

\* lldb-dap would not configure the target.
Denial(m) == m.type = "response" /\ ~m.ok /\ m.request.command = "configurationDone"
Denying(i) == i \in 1 .. Len(fromAdapter) /\ Denial(fromAdapter[i])

\* Where the target is, the session knows or will hear, or it has told the
\* target to go there.
StopKnown == target.state = "stopped" =>
    session.stopped \/ \E i : Resuming(i) \/ Stopping(i) \/ Refusing(i)
ExitKnown == target.state = "gone" /\ target.alive => \E i : Exiting(i)
StartKnown == target.state = "none" /\ session.configured =>
    \E i : Configuring(i) \/ Denying(i)
WhereInv == Live => StopKnown /\ ExitKnown /\ StartKnown

\* What lldb-dap has written is on its way.
LEMMA Written ==
    ASSUME Types, NEW ms \in Seq(Messages), fromAdapter' = fromAdapter \o ms,
           NEW k \in 1 .. Len(ms)
    PROVE  \E i \in 1 .. Len(fromAdapter') : fromAdapter'[i] = ms[k]
<1>1. fromAdapter \in Seq(Messages) /\ Len(fromAdapter) \in Nat /\ Len(ms) \in Nat
    BY DEF Types
<1> DEFINE n == Len(fromAdapter)
           i == n + k
<1>2. Len(fromAdapter') = n + Len(ms)
    BY <1>1, Joins
<1>3. /\ i \in 1 .. Len(fromAdapter') /\ i \notin 1 .. n /\ i - n = k
    BY <1>1, <1>2
<1> HIDE DEF i
<1>4. fromAdapter'[i] = ms[i - n]
    BY <1>1, <1>3, Joins
<1> QED BY <1>3, <1>4

\* lldb-dap answers a resume it does not carry out and a configuration it does
\* not accept, and reports the stop a pause leads to.
LEMMA AdapterTells ==
    ASSUME Types, Addressed, Adapter, NEW p, p = Head(toAdapter)
    PROVE  /\ target'.state = "stopped" /\ target.state # "stopped" => \E i : Stopping(i)'
           /\ target'.state = "stopped" /\ Resumes(p.command) => \E i : Refusing(i)'
           /\ target'.state = "gone" => target.state = "gone" \/ p.command = "disconnect"
           /\ target'.state = "none" => /\ target.state = "none"
                                        /\ p.command = "configurationDone"
                                               => \E i : Denying(i)'
<1> DEFINE running == [target EXCEPT !.state = "running"]
           where == [NoStop EXCEPT !.no = target.no + 1]
           stop == StopEvent(where)
           good == Reply(p, TRUE)
           bad == Reply(p, FALSE)
<1>1. /\ toAdapter # <<>> /\ p \in Sent /\ Address(p)
      /\ target \in Targets /\ target.no \in Nat
    <2>1. toAdapter # <<>> /\ toAdapter \in Seq(Sent)
        BY DEF Adapter, Types
    <2>2. p = toAdapter[1] /\ 1 \in 1 .. Len(toAdapter) /\ p \in Sent
        BY <2>1, Tails
    <2> QED BY <2>1, <2>2 DEF Addressed, Types, Targets
<1>2. Transition(p)
    <2>1. PICK q \in Sent, ms \in Seq(Messages) : Handle(q, ms, target') /\ Effect(q, ms)
        BY AdapterEffects
    <2>2. q = p
        BY <2>1 DEF Handle
    <2> QED BY <2>1, <2>2 DEF Effect
<1>3. \A ms, t : Handle(p, ms, t) => target' = t /\ fromAdapter' = fromAdapter \o ms
    BY DEF Handle
<1>4. /\ bad \in Messages /\ bad.type = "response" /\ bad.request = p /\ ~bad.ok
      /\ stop \in Messages /\ stop.type = "stopped" /\ good \in Messages
    <2>1. where \in Stops
        BY <1>1, Values DEF Stops
    <2> HIDE DEF where
    <2>2. TRUE \in BOOLEAN /\ FALSE \in BOOLEAN
        OBVIOUS
    <2> QED BY <1>1, <2>1, <2>2, Wording
<1>5. \/ AdapterLaunches(p) \/ AdapterRefuses(p) \/ Installs(p) \/ Inspects(p)
      \/ Continues(p) \/ Halts(p) \/ Leaves(p)
    BY DEF Adapter
<1>6. p.command # "work" => p.use \notin {"function", "panic", "inspection", "condition"}
    BY <1>1 DEF Address, Workers
<1>7. Resumes(p.command) => target'.state = "running" \/ fromAdapter' = fromAdapter \o <<bad>>
    <2> SUFFICES ASSUME Resumes(p.command)
                 PROVE  target'.state = "running" \/ fromAdapter' = fromAdapter \o <<bad>>
        OBVIOUS
    <2>1. p.command \in {"continue", "next"}
        BY DEF Resumes
    <2>2. AdapterRefuses(p) \/ Continues(p)
        BY <1>5, <1>6, <2>1 DEF AdapterLaunches, Installs, Inspects, Halts, Leaves
    <2>3. CASE AdapterRefuses(p)
        BY <1>3, <2>1, <2>3 DEF AdapterRefuses
    <2>4. CASE Continues(p)
        <3>1. \/ \E ms, t : Handle(p, ms, t) /\ t \in {running, [running EXCEPT !.busy = p]}
              \/ Handle(p, <<bad>>, target)
            BY <2>4 DEF Continues
        <3>2. running.state = "running" /\ [running EXCEPT !.busy = p].state = "running"
            BY <1>1 DEF Targets
        <3> HIDE DEF running, bad
        <3> QED BY <1>3, <3>1, <3>2
    <2> QED BY <2>2, <2>3, <2>4
<1>8. p.command = "configurationDone"
          => target'.state = "running" \/ fromAdapter' = fromAdapter \o <<bad>>
    <2> SUFFICES ASSUME p.command = "configurationDone"
                 PROVE  target'.state = "running" \/ fromAdapter' = fromAdapter \o <<bad>>
        OBVIOUS
    <2>2. AdapterLaunches(p) \/ AdapterRefuses(p)
        BY <1>5, <1>6 DEF Continues, Resumes, Installs, Inspects, Halts, Leaves
    <2>3. CASE AdapterRefuses(p)
        BY <1>3, <2>3 DEF AdapterRefuses
    <2>4. CASE AdapterLaunches(p)
        <3>1. \E ms : Handle(p, ms, [running EXCEPT !.launch = NoOutgoing])
            BY <2>4 DEF AdapterLaunches
        <3>2. [running EXCEPT !.launch = NoOutgoing].state = "running"
            BY <1>1 DEF Targets
        <3> HIDE DEF running
        <3> QED BY <1>3, <3>1, <3>2
    <2> QED BY <2>2, <2>3, <2>4
<1>9. p.command = "pause" /\ target'.state # target.state
          => fromAdapter' \in {fromAdapter \o <<good, stop>>, fromAdapter \o <<stop, good>>}
    <2> SUFFICES ASSUME p.command = "pause", target'.state # target.state
                 PROVE  fromAdapter' \in {fromAdapter \o <<good, stop>>,
                                          fromAdapter \o <<stop, good>>}
        OBVIOUS
    <2>1. AdapterRefuses(p) \/ Halts(p)
        BY <1>5, <1>6 DEF AdapterLaunches, Continues, Resumes, Installs, Inspects, Leaves
    <2>2. ~\E ms : Handle(p, ms, target)
        BY <1>3
    <2>3. ~AdapterRefuses(p)
        BY <2>2 DEF AdapterRefuses
    <2>4. \E t : Handle(p, <<good, stop>>, t) \/ Handle(p, <<stop, good>>, t)
        BY <2>1, <2>2, <2>3 DEF Halts
    <2> HIDE DEF good, stop
    <2> QED BY <1>3, <2>4
<1> HIDE DEF good, bad, stop, running, where
<1>10. fromAdapter' = fromAdapter \o <<bad>> =>
           /\ Resumes(p.command) => \E i : Refusing(i)'
           /\ p.command = "configurationDone" => \E i : Denying(i)'
    <2> SUFFICES ASSUME fromAdapter' = fromAdapter \o <<bad>>
                 PROVE  \E i \in 1 .. Len(fromAdapter') : fromAdapter'[i] = bad
        BY <1>4 DEF Refusing, Refusal, Denying, Denial
    <2> DEFINE ms == <<bad>>
    <2>1. ms \in Seq(Messages) /\ Len(ms) = 1 /\ ms[1] = bad
        BY <1>4, Short
    <2>2. fromAdapter' = fromAdapter \o ms /\ 1 \in 1 .. Len(ms)
        BY <2>1
    <2> HIDE DEF ms
    <2> QED BY <2>1, <2>2, Written
<1>11. fromAdapter' \in {fromAdapter \o <<good, stop>>, fromAdapter \o <<stop, good>>}
           => \E i : Stopping(i)'
    <2> SUFFICES ASSUME NEW ms \in {<<good, stop>>, <<stop, good>>},
                        fromAdapter' = fromAdapter \o ms
                 PROVE  \E i \in 1 .. Len(fromAdapter') : fromAdapter'[i] = stop
        BY <1>4 DEF Stopping
    <2>1. ms \in Seq(Messages) /\ \E k \in 1 .. Len(ms) : ms[k] = stop
        <3>1. CASE ms = <<good, stop>>
            <4>1. ms \in Seq(Messages) /\ Len(ms) = 2 /\ ms[2] = stop
                BY <1>4, <3>1, Short
            <4> QED BY <4>1
        <3>2. CASE ms = <<stop, good>>
            <4>1. ms \in Seq(Messages) /\ Len(ms) = 2 /\ ms[1] = stop
                BY <1>4, <3>2, Short
            <4> QED BY <4>1
        <3> QED BY <3>1, <3>2
    <2>2. PICK k \in 1 .. Len(ms) : ms[k] = stop
        BY <2>1
    <2>3. \E i \in 1 .. Len(fromAdapter') : fromAdapter'[i] = ms[k]
        BY <2>1, <2>2, Written
    <2> QED BY <2>2, <2>3
<1>12. target'.state = "stopped" /\ target.state # "stopped" => \E i : Stopping(i)'
    BY <1>2, <1>9, <1>11 DEF Transition
<1>13. target'.state = "stopped" /\ Resumes(p.command) => \E i : Refusing(i)'
    BY <1>7, <1>10
<1>14. target'.state = "gone" => target.state = "gone" \/ p.command = "disconnect"
    BY <1>2 DEF Transition
<1>15. target'.state = "none" => /\ target.state = "none"
                                 /\ p.command = "configurationDone" => \E i : Denying(i)'
    BY <1>2, <1>8, <1>10 DEF Transition
<1> QED BY <1>12, <1>13, <1>14, <1>15

\* A refused configuration ends the session.
LEMMA DenialEnds ==
    ASSUME Types, Addressed, OnAdapter, Denial(Head(fromAdapter))
    PROVE  session'.ended
<1> DEFINE m == Head(fromAdapter)
<1>1. /\ m.type = "response" /\ ~m.ok /\ m.request.command = "configurationDone"
      /\ session \in Flags
    BY DEF Types, Denial
<1> HIDE DEF m
<1>2. m.request \in pending => m.request.use \notin Workers
                               /\ m.request.use \notin {"stopContext", "conditionContinue"}
    BY <1>1 DEF Addressed, Address
<1>3. OnConfigured(m)
    <2>1. /\ ~OnConditionContinued(m) /\ ~\E w \in Workers : OnWorkerReply(m, w)
          /\ ~\E panicked \in BOOLEAN : OnStopClassified(m, panicked)
        BY <1>2 DEF OnConditionContinued, OnWorkerReply, OnStopClassified, TakeResponse
    <2>2. /\ ~OnStackTrace(m) /\ ~OnSourcesReplaced(m) /\ ~OnInitialize(m)
          /\ ~OnLaunched(m) /\ ~OnResumed(m) /\ ~OnPauseAnswered(m) /\ ~OnThreads(m)
          /\ ~OnDisconnected(m)
        BY <1>1 DEF OnStackTrace, OnSourcesReplaced, OnInitialize, OnLaunched, OnResumed,
           OnPauseAnswered, OnThreads, OnDisconnected, Resumes
    <2>3. /\ ~OnInitialized(m) /\ ~OnStopped(m) /\ ~OnContinued(m) /\ ~OnExited(m)
          /\ ~OnTerminated(m) /\ ~OnFailed(m)
        BY <1>1 DEF OnInitialized, OnStopped, OnContinued, OnExited, OnTerminated,
           OnFailed, TakeEvent
    <2> QED BY <2>1, <2>2, <2>3 DEF OnAdapter, m
<1> QED BY <1>1, <1>3 DEF OnConfigured, Finished, Flags

\* Requests that are sent come after those on their way.
LEMMA KeepsGoing ==
    ASSUME Types, SendsLittle
    PROVE  /\ \A i : Resuming(i) => Resuming(i)'
           /\ \A i : Configuring(i) => Configuring(i)'
           /\ \A p : Sends(p) /\ Resumes(p.command) => \E i : Resuming(i)'
           /\ \A p : Sends(p) /\ p.command = "configurationDone" => \E i : Configuring(i)'
<1>1. CASE toAdapter' = toAdapter /\ ~\E p : Sends(p)
    BY <1>1 DEF Resuming, Configuring
<1>2. ASSUME NEW p, Sends(p)
      PROVE  /\ \A i : Resuming(i) => Resuming(i)'
             /\ \A i : Configuring(i) => Configuring(i)'
             /\ Resumes(p.command) => \E i : Resuming(i)'
             /\ p.command = "configurationDone" => \E i : Configuring(i)'
    <2>1. /\ Len(toAdapter) \in Nat /\ Len(toAdapter') = Len(toAdapter) + 1
          /\ toAdapter'[Len(toAdapter) + 1] = p
          /\ \A i \in 1 .. Len(toAdapter) : toAdapter'[i] = toAdapter[i]
        BY <1>2, Grown DEF Sends
    <2>2. Len(toAdapter) + 1 \in 1 .. Len(toAdapter')
        BY <2>1
    <2>3. \A i : i \in 1 .. Len(toAdapter) => i \in 1 .. Len(toAdapter')
        BY <2>1
    <2> QED BY <2>1, <2>2, <2>3 DEF Resuming, Configuring
<1> QED BY <1>1, <1>2 DEF SendsLittle

LEMMA WhereOwn ==
    ASSUME Types, WhereInv, OwnStep, Live', Live
    PROVE  StopKnown' /\ ExitKnown' /\ StartKnown'
<1>1. SendsLittle /\ Lasts /\ UNCHANGED <<fromAdapter, target>> /\ Turn
    BY DEF OwnStep
<1>2. StopKnown /\ ExitKnown /\ StartKnown
    BY DEF WhereInv
<1>3. /\ \A i : Stopping(i) <=> Stopping(i)'
      /\ \A i : Refusing(i) <=> Refusing(i)'
      /\ \A i : Exiting(i) <=> Exiting(i)'
      /\ \A i : Denying(i) <=> Denying(i)'
    BY <1>1 DEF Stopping, Refusing, Exiting, Denying
<1>4. /\ \A i : Resuming(i) => Resuming(i)'
      /\ \A i : Configuring(i) => Configuring(i)'
      /\ \A p : Sends(p) /\ Resumes(p.command) => \E i : Resuming(i)'
      /\ \A p : Sends(p) /\ p.command = "configurationDone" => \E i : Configuring(i)'
    BY <1>1, KeepsGoing
<1>5. session.stopped => session'.stopped \/ \E i : Resuming(i)'
    BY <1>1, <1>4 DEF Turn, Same
<1>6. StopKnown'
    BY <1>1, <1>2, <1>3, <1>4, <1>5 DEF StopKnown
<1>7. ExitKnown'
    BY <1>1, <1>2, <1>3 DEF ExitKnown
<1>8. StartKnown'
    <2>1. session'.configured => session.configured \/ \E i : Configuring(i)'
        BY <1>1, <1>4 DEF Lasts
    <2> QED BY <1>1, <1>2, <1>3, <1>4, <2>1 DEF StartKnown
<1> QED BY <1>6, <1>7, <1>8

LEMMA WhereHeard ==
    ASSUME Types, Addressed, TokensInv, WhereInv, OnAdapter, Live', Live
    PROVE  StopKnown' /\ ExitKnown' /\ StartKnown'
<1>1. PICK m : MessageStep(m)
    BY AdapterSteps
<1>2. /\ SendsLittle /\ Lasts /\ UNCHANGED target /\ Follow(m)
      /\ m = Head(fromAdapter) /\ session'.exited = (session.exited \/ m.type = "exited")
    BY <1>1 DEF MessageStep
<1>3. /\ m = fromAdapter[1] /\ 1 \in 1 .. Len(fromAdapter) /\ Len(fromAdapter) \in Nat
      /\ Len(fromAdapter') = Len(fromAdapter) - 1
      /\ \A i \in 1 .. Len(fromAdapter') :
            i + 1 \in 1 .. Len(fromAdapter) /\ fromAdapter'[i] = fromAdapter[i + 1]
    BY <1>1, Heard DEF MessageStep
<1>4. /\ StopKnown /\ ExitKnown /\ StartKnown
      /\ KnowsStop /\ ResumesAlone /\ RefusedAlone
    BY DEF WhereInv, TokensInv
<1>5. \A i \in 1 .. Len(fromAdapter) :
          i = 1 \/ (i - 1 \in 1 .. Len(fromAdapter') /\ fromAdapter'[i - 1] = fromAdapter[i])
    <2> SUFFICES ASSUME NEW i \in 1 .. Len(fromAdapter), i # 1
                 PROVE  i - 1 \in 1 .. Len(fromAdapter') /\ fromAdapter'[i - 1] = fromAdapter[i]
        OBVIOUS
    <2>1. i - 1 \in 1 .. Len(fromAdapter') /\ (i - 1) + 1 = i
        BY <1>3
    <2> QED BY <1>3, <2>1
<1>6. /\ \A i : Stopping(i) => i = 1 \/ Stopping(i - 1)'
      /\ \A i : Refusing(i) => i = 1 \/ Refusing(i - 1)'
      /\ \A i : Exiting(i) => i = 1 \/ Exiting(i - 1)'
      /\ \A i : Denying(i) => i = 1 \/ Denying(i - 1)'
    BY <1>5 DEF Stopping, Refusing, Exiting, Denying
<1>7. /\ \A i : Resuming(i) => Resuming(i)'
      /\ \A i : Configuring(i) => Configuring(i)'
      /\ \A p : Sends(p) /\ p.command = "configurationDone" => \E i : Configuring(i)'
    BY <1>2, KeepsGoing
<1>8. /\ Stopping(1) => session'.stopped
      /\ session.stopped => session'.stopped
      /\ Refusing(1) => session'.stopped
    <2>1. Stopping(1) => m.type = "stopped"
        BY <1>3 DEF Stopping
    <2>2. session.stopped => m.type # "continued"
        BY <1>3, <1>4 DEF KnowsStop, Unsettled, GoingAhead
    <2>3. Refusing(1) => Undone(m)
        BY <1>3, <1>4 DEF Refusing, Undone, RefusedAlone
    <2>4. Refusing(1) => m.type = "response"
        BY <1>3 DEF Refusing, Refusal
    <2> QED BY <1>2, <2>1, <2>2, <2>3, <2>4 DEF Follow
<1>9. ~Exiting(1)
    BY <1>2, <1>3 DEF Exiting, Live
<1>10. ~Denying(1)
    BY <1>2, <1>3, DenialEnds DEF Denying, Live
<1>11. StopKnown'
    BY <1>2, <1>4, <1>6, <1>7, <1>8 DEF StopKnown
<1>12. ExitKnown'
    BY <1>2, <1>4, <1>6, <1>9 DEF ExitKnown
<1>13. StartKnown'
    <2>1. session'.configured => session.configured \/ \E i : Configuring(i)'
        BY <1>2, <1>7 DEF Lasts
    <2> QED BY <1>2, <1>4, <1>6, <1>7, <1>10, <2>1 DEF StartKnown
<1> QED BY <1>11, <1>12, <1>13

LEMMA WhereHandled ==
    ASSUME Types, Addressed, StartsOnce, WhereInv, Adapter, Live
    PROVE  StopKnown' /\ ExitKnown' /\ StartKnown'
<1>1. PICK p \in Sent, ms \in Seq(Messages) :
          Handle(p, ms, target') /\ Effect(p, ms) /\ Address(p)
    BY AdapterEffects
<1>2. /\ p = Head(toAdapter) /\ target.alive /\ UNCHANGED session
    BY <1>1 DEF Handle
<1>3. /\ p = toAdapter[1] /\ Len(toAdapter) \in Nat
      /\ Len(toAdapter') = Len(toAdapter) - 1
      /\ \A i \in 1 .. Len(toAdapter') :
             i + 1 \in 1 .. Len(toAdapter) /\ toAdapter'[i] = toAdapter[i + 1]
      /\ \A i \in 1 .. Len(fromAdapter) :
             i \in 1 .. Len(fromAdapter') /\ fromAdapter'[i] = fromAdapter[i]
      /\ 1 \in 1 .. Len(toAdapter)
    BY <1>1, Handled
<1>4. /\ \A i : Stopping(i) => Stopping(i)'
      /\ \A i : Refusing(i) => Refusing(i)'
      /\ \A i : Exiting(i) => Exiting(i)'
      /\ \A i : Denying(i) => Denying(i)'
    BY <1>3 DEF Stopping, Refusing, Exiting, Denying
<1>5. \A i \in 1 .. Len(toAdapter) :
          i = 1 \/ (i - 1 \in 1 .. Len(toAdapter') /\ toAdapter'[i - 1] = toAdapter[i])
    <2> SUFFICES ASSUME NEW i \in 1 .. Len(toAdapter), i # 1
                 PROVE  i - 1 \in 1 .. Len(toAdapter') /\ toAdapter'[i - 1] = toAdapter[i]
        OBVIOUS
    <2>1. i - 1 \in 1 .. Len(toAdapter') /\ (i - 1) + 1 = i
        BY <1>3
    <2> QED BY <1>3, <2>1
<1>6. /\ \A i : Resuming(i) => (i = 1 /\ Resumes(p.command)) \/ Resuming(i - 1)'
      /\ \A i : Configuring(i) => (i = 1 /\ p.command = "configurationDone")
                                  \/ Configuring(i - 1)'
    BY <1>3, <1>5 DEF Resuming, Configuring
<1>7. /\ target'.state = "stopped" /\ target.state # "stopped" => \E i : Stopping(i)'
      /\ target'.state = "stopped" /\ Resumes(p.command) => \E i : Refusing(i)'
      /\ target'.state = "gone" => target.state = "gone" \/ p.command = "disconnect"
      /\ target'.state = "none" => /\ target.state = "none"
                                   /\ p.command = "configurationDone" => \E i : Denying(i)'
    BY <1>2, AdapterTells
<1>8. StopKnown /\ ExitKnown /\ StartKnown
    BY DEF WhereInv
<1>9. StopKnown'
    BY <1>2, <1>4, <1>6, <1>7, <1>8 DEF StopKnown
<1>10. ExitKnown'
    <2>1. p.command # "disconnect"
        BY <1>3 DEF StartsOnce, Leaving, Live
    <2> QED BY <1>2, <1>4, <1>7, <1>8, <2>1 DEF ExitKnown
<1>11. StartKnown'
    BY <1>2, <1>4, <1>6, <1>7, <1>8 DEF StartKnown
<1> QED BY <1>9, <1>10, <1>11

LEMMA WhereReported ==
    ASSUME Types, WhereInv, AdapterAnswers \/ TargetStops \/ TargetExits \/ Crash, Live
    PROVE  StopKnown' /\ ExitKnown' /\ StartKnown'
<1>1. PICK ms \in Seq(Messages) : Reports(ms)
    BY TargetEffects
<1>2. /\ target.alive /\ UNCHANGED <<session, toAdapter>>
      /\ fromAdapter' = fromAdapter \o ms
    BY <1>1 DEF Reports, TargetMoves
<1>3. \A i \in 1 .. Len(fromAdapter) :
          i \in 1 .. Len(fromAdapter') /\ fromAdapter'[i] = fromAdapter[i]
    BY <1>1, Moved DEF Reports
<1>4. /\ \A i : Stopping(i) => Stopping(i)'
      /\ \A i : Refusing(i) => Refusing(i)'
      /\ \A i : Exiting(i) => Exiting(i)'
      /\ \A i : Denying(i) => Denying(i)'
    BY <1>3 DEF Stopping, Refusing, Exiting, Denying
<1>5. /\ \A i : Resuming(i) <=> Resuming(i)'
      /\ \A i : Configuring(i) <=> Configuring(i)'
    BY <1>2 DEF Resuming, Configuring
<1>6. \A k \in 1 .. Len(ms) : \E i \in 1 .. Len(fromAdapter') : fromAdapter'[i] = ms[k]
    BY <1>2, Written
<1>7. StopKnown /\ ExitKnown /\ StartKnown
    BY DEF WhereInv
<1>8. CASE SaysDone(ms)
    <2>1. target'.state = target.state /\ (target'.alive <=> target.alive)
        BY <1>2, <1>8 DEF SaysDone
    <2> QED BY <1>2, <1>4, <1>5, <1>7, <2>1 DEF StopKnown, ExitKnown, StartKnown
<1>9. CASE SaysStopped(ms)
    <2>1. /\ target'.state = "stopped" /\ Len(ms) > 0 /\ Len(ms) \in Nat
          /\ \A k \in 1 .. Len(ms) : ms[k].type = "stopped"
        BY <1>9 DEF SaysStopped
    <2>2. 1 \in 1 .. Len(ms)
        BY <2>1
    <2>3. \E i : Stopping(i)'
        BY <1>6, <2>1, <2>2 DEF Stopping
    <2> QED BY <2>1, <2>3 DEF StopKnown, ExitKnown, StartKnown
<1>10. CASE SaysExited(ms)
    <2>1. target'.state = "gone" /\ Len(ms) = 2 /\ ms[1].type = "exited"
        BY <1>10 DEF SaysExited
    <2>2. 1 \in 1 .. Len(ms)
        BY <2>1
    <2>3. \E i : Exiting(i)'
        BY <1>6, <2>1, <2>2 DEF Exiting
    <2> QED BY <2>1, <2>3 DEF StopKnown, ExitKnown, StartKnown
<1>11. CASE SaysFailed(ms)
    <2>1. target'.state = "gone" /\ ~target'.alive
        BY <1>11 DEF SaysFailed
    <2> QED BY <2>1 DEF StopKnown, ExitKnown, StartKnown
<1> QED BY <1>1, <1>8, <1>9, <1>10, <1>11 DEF Reports

LEMMA WhereKept ==
    ASSUME FlowInv, TokensInv, WhereInv, [Next]_vars
    PROVE  WhereInv'
<1> SUFFICES ASSUME Live' PROVE StopKnown' /\ ExitKnown' /\ StartKnown'
    BY DEF WhereInv
<1>0. SafetyInv /\ Types /\ Addressed /\ Closed /\ StartsOnce
    BY DEF FlowInv, SafetyInv
<1>1. Live
    BY <1>0, Monotone DEF Live
<1>2. CASE OwnStep
    BY <1>0, <1>1, <1>2, WhereOwn
<1>3. CASE OnAdapter
    BY <1>0, <1>1, <1>3, WhereHeard
<1>4. CASE Adapter
    BY <1>0, <1>1, <1>4, WhereHandled
<1>5. CASE AdapterAnswers \/ TargetStops \/ TargetExits \/ Crash
    BY <1>0, <1>1, <1>5, WhereReported
<1>6. CASE Apart
    <2>1. UNCHANGED <<session, toAdapter, fromAdapter, target>>
        BY <1>6 DEF Apart
    <2>2. /\ \A i : Stopping(i) <=> Stopping(i)'
          /\ \A i : Refusing(i) <=> Refusing(i)'
          /\ \A i : Exiting(i) <=> Exiting(i)'
          /\ \A i : Denying(i) <=> Denying(i)'
          /\ \A i : Resuming(i) <=> Resuming(i)'
          /\ \A i : Configuring(i) <=> Configuring(i)'
        BY <2>1 DEF Stopping, Refusing, Exiting, Denying, Resuming, Configuring
    <2> QED BY <1>1, <2>1, <2>2 DEF WhereInv, StopKnown, ExitKnown, StartKnown
<1>7. CASE Shutdown
    BY <1>7 DEF Shutdown, Live, Working
<1>8. \/ OwnStep \/ OnAdapter \/ Adapter \/ Apart \/ Shutdown
      \/ AdapterAnswers \/ TargetStops \/ TargetExits \/ Crash
    <2>1. /\ OnClient => OwnStep
          /\ DrainStop \/ DrainRequest => OwnStep
          /\ OnWork => OwnStep
          /\ Timeout => OwnStep
        BY <1>0, ClientSteps, DrainSteps, WorkSteps, TimeoutSteps
    <2>2. /\ UNCHANGED vars => Apart
          /\ (\E w \in Workers : Worker(w)) \/ ClientSends \/ ClientLeaves => Apart
        BY DEF vars, Worker, WorkerStart, WorkerFinish, WorkerTimeout, StepWorker,
           ClientSends, ClientLeaves, Apart
    <2> QED BY <2>1, <2>2 DEF Next
<1> QED BY <1>2, <1>3, <1>4, <1>5, <1>6, <1>7, <1>8

LEMMA InitWhere == Init => WhereInv
<1> SUFFICES ASSUME Init PROVE StopKnown /\ ExitKnown /\ StartKnown
    BY DEF WhereInv
<1>1. target.state = "running" \/ (target.state = "none" /\ ~session.configured)
    BY DEF Init, FlagsAtLaunch
<1> QED BY <1>1 DEF StopKnown, ExitKnown, StartKnown

-----------------------------------------------------------------------------
(* What the editor, the session and the target have in common at rest.       *)

SightInv == PastInv /\ ViewInv /\ WhereInv

LEMMA SightHolds ==
    ASSUME ~PairedStops
    PROVE  Spec => [](OrderInv /\ JobsInv /\ UnderwayInv /\ SightInv)
<1>1. Init => SightInv
    BY InitView, InitWhere DEF SightInv
<1>2. OrderInv /\ SightInv /\ [Next]_vars => SightInv'
    <2> SUFFICES ASSUME OrderInv, SightInv, [Next]_vars PROVE SightInv'
        OBVIOUS
    <2>1. /\ FlowInv /\ TokensInv /\ HeldInv /\ SafetyInv /\ Addressed
          /\ PastInv /\ ViewInv /\ WhereInv
        BY DEF OrderInv, SightInv, FlowInv
    <2> QED BY <2>1, PastKept, ViewKept, WhereKept DEF SightInv
<1> QED BY <1>1, <1>2, UnderwayHolds, PTL DEF Spec

\* When nothing is on its way, the editor, the session and the target agree on
\* whether the target is stopped.  The session hears of every stop and of every
\* resume that was refused, so at rest it knows where the target is; what would
\* hide a stop from the editor is itself something on its way.
THEOREM PartiesAgree == ASSUME ~PairedStops PROVE Spec => []Agreement
<1>1. OrderInv /\ JobsInv /\ UnderwayInv /\ SightInv => Agreement
    <2> SUFFICES ASSUME OrderInv, JobsInv, UnderwayInv, SightInv,
                        Quiet, session.configured, ~session.exited
                 PROVE  /\ client.view = target.state
                        /\ session.stopped <=> target.state = "stopped"
        BY DEF Agreement
    <2>1. /\ at = "loop" /\ fromAdapter = <<>> /\ toAdapter = <<>>
          /\ target.busy = NoOutgoing /\ target.alive
          /\ ~session.ended /\ ~session.closing
        BY DEF Quiet
    <2>2. Working /\ Live
        BY <2>1 DEF Working, Live
    <2>3. /\ \A i : i \notin 1 .. Len(fromAdapter)
          /\ \A i : i \notin 1 .. Len(toAdapter)
        BY <2>1, Short
    <2>4. /\ Stands /\ StopKnown /\ ExitKnown /\ StartKnown /\ KnowsStop
          /\ client \in Editors /\ target \in Targets
        BY <2>2 DEF SightInv, ViewInv, WhereInv, OrderInv, TokensInv, FlowInv, SafetyInv, Types
    <2>5. /\ ~\E i : Resuming(i) \/ Stopping(i) \/ Refusing(i)
          /\ ~\E i : Exiting(i)
          /\ ~\E i : Configuring(i) \/ Denying(i)
        BY <2>3 DEF Resuming, Stopping, Refusing, Exiting, Configuring, Denying
    <2>6. target.state \in {"running", "stopped"}
        BY <2>1, <2>4, <2>5 DEF ExitKnown, StartKnown, Targets
    <2>7. session.stopped <=> target.state = "stopped"
        BY <2>1, <2>4, <2>5 DEF StopKnown, KnowsStop, Still
    <2>8. ~Hidden
        <3>1. NothingStranded
            BY RestsClean
        <3>2. breakpoints.stops = <<>> /\ conditions.active = NoJob
            BY <3>1 DEF NothingStranded, WorkPending
        <3>3. \A p \in pending : ~Sorting(p)
            <4> SUFFICES ASSUME NEW p \in pending, p.use = "stopContext" PROVE FALSE
                BY DEF Sorting
            <4>1. p.command = "stackTrace"
                BY DEF OrderInv, FlowInv, Addressed, Address
            <4>2. p # NoOutgoing /\ target.busy = p
                BY <2>1, <2>2, <2>3, <4>1 DEF UnderwayInv, TravelInv
            <4> QED BY <2>1, <4>2
        <3> QED BY <3>2, <3>3 DEF Hidden
    <2>9. client.view \in {"running", "stopped"}
          /\ (client.view = "stopped" <=> session.stopped)
        BY <2>4, <2>8 DEF Stands, Seen, Editors
    <2> QED BY <2>6, <2>7, <2>9
<1> QED BY <1>1, SightHolds, PTL

-----------------------------------------------------------------------------
(* What becomes of an evaluation.  A stop is skipped on the word of the       *)
(* condition worker, which reads while the session goes on; so its word must  *)
(* be about the stop the session is at, and the breakpoints as they are.      *)

\* The condition worker's queue and the job it is at.
JudgeTo == workers'["condition"]
SameJudge(me, to) == /\ to.queue = me.queue /\ to.job = me.job
                     /\ to.pc = "idle" <=> me.pc = "idle"
JudgeStays == SameJudge(Judge, JudgeTo)
JudgeStarts == /\ Judge.pc = "idle" /\ Judge.queue # <<>> /\ JudgeTo.pc # "idle"
               /\ JudgeTo.queue = Tail(Judge.queue) /\ JudgeTo.job = Head(Judge.queue)
JudgeRests == /\ Judge.pc = "done" /\ JudgeTo.pc = "idle"
              /\ JudgeTo.queue = Judge.queue
JudgeTakes(job) == /\ JudgeTo.queue = Append(Judge.queue, job) /\ JudgeTo.job = Judge.job
                   /\ JudgeTo.pc = "idle" <=> Judge.pc = "idle"

\* While a stop is evaluated nothing changes the breakpoints it hit.
Undisturbed == conditions.active # NoJob /\ ~HoldsStop =>
                   ~HoldsStop' /\ conditions'.bindings = conditions.bindings

\* An evaluation goes on, is given up, ends, or begins.
GoesOnJudging == /\ conditions'.active = conditions.active /\ Undisturbed
                 /\ JudgeStays \/ JudgeStarts \/ JudgeRests
GivesUp == /\ conditions'.active = NoJob /\ session'.revision > session.revision
           /\ JudgeStays \/ JudgeRests
HasRuled == /\ conditions'.active = NoJob
            /\ JudgeRests /\ Judge.job.epoch = ConditionEpoch
Submits(stop) ==
    /\ Passes(stop) /\ AllConditional(stop) /\ ~HoldsStop'
    /\ conditions'.bindings = conditions.bindings
    /\ conditions'.active = ConditionJob(stop, session'.revision)
    /\ JudgeTakes(conditions'.active)
    /\ session'.revision > session.revision \/ breakpoints.stops # <<>>
Ruling == \/ GoesOnJudging \/ GivesUp \/ HasRuled
          \/ \E stop \in Stops : Submits(stop)

LEMMA ReleaseSame ==
    ASSUME NEW ws \in [Workers -> WorkerStates], NEW S
    PROVE  SameJudge(ws["condition"], Release(ws, S)["condition"])
<1> DEFINE me == ws["condition"]
           to == Release(ws, S)["condition"]
<1>1. me \in WorkerStates /\ "condition" \in Workers
    BY DEF Workers
<1>2. \/ to = me
      \/ me.pc = "wait" /\ to = [me EXCEPT !.pc = "replied", !.seq = 0, !.result = "error"]
    BY <1>1 DEF Release
<1> HIDE DEF me, to
<1>3. to.queue = me.queue /\ to.job = me.job /\ (to.pc = "idle" <=> me.pc = "idle")
    BY <1>1, <1>2 DEF WorkerStates
<1> QED BY <1>3 DEF SameJudge, me, to

\* Which steps of the workers leave the condition worker alone.
LEMMA JudgeOn ==
    ASSUME Types
    PROVE  /\ workers' = workers => JudgeStays
           /\ \A S : workers' = Release(workers, S) => JudgeStays
           /\ \A v \in Workers \ {"condition"} : \A job \in Orders :
                 workers' = Enqueue(workers, v, job) => JudgeStays
           /\ \A v \in Workers \ {"condition"} :
                 workers[v].pc = "done" /\ workers' = Rested(v) => JudgeStays
<1>1. workers \in [Workers -> WorkerStates] /\ "condition" \in Workers
    BY DEF Types, Workers
<1>2. workers' = workers => JudgeStays
    BY DEF JudgeStays, SameJudge, JudgeTo, Judge
<1>3. ASSUME NEW S, workers' = Release(workers, S) PROVE JudgeStays
    BY <1>1, <1>3, ReleaseSame DEF JudgeStays, JudgeTo, Judge
<1>4. ASSUME workers'["condition"] = workers["condition"] PROVE JudgeStays
    BY <1>4 DEF JudgeStays, SameJudge, JudgeTo, Judge
<1>5. ASSUME NEW v \in Workers \ {"condition"}, NEW job \in Orders,
             workers' = Enqueue(workers, v, job)
      PROVE  JudgeStays
    BY <1>1, <1>4, <1>5, EnqueueLoad
<1>6. ASSUME NEW v \in Workers \ {"condition"}, workers[v].pc = "done", workers' = Rested(v)
      PROVE  JudgeStays
    BY <1>1, <1>4, <1>6, RestedLoad
<1> QED BY <1>2, <1>3, <1>5, <1>6

\* The step of one worker.
LEMMA JudgeOne ==
    ASSUME Types, NEW v \in Workers, NEW to, workers' = [workers EXCEPT ![v] = to],
           v = "condition" => SameJudge(workers[v], to)
    PROVE  JudgeStays
<1>1. workers \in [Workers -> WorkerStates] /\ "condition" \in Workers
    BY DEF Types, Workers
<1>2. CASE v = "condition"
    <2>1. workers'["condition"] = to
        BY <1>1, <1>2
    <2> QED BY <1>2, <2>1 DEF JudgeStays, JudgeTo, Judge
<1>3. CASE v # "condition"
    <2>1. workers'["condition"] = workers["condition"]
        BY <1>1, <1>3
    <2> QED BY <2>1 DEF JudgeStays, SameJudge, JudgeTo, Judge
<1> QED BY <1>2, <1>3

\* A handler that leaves breakpoints and evaluations alone.
LEMMA StillOn ==
    ASSUME JudgeStays, conditions'.active = conditions.active,
           conditions'.bindings = conditions.bindings,
           conditions'.updating = conditions.updating,
           breakpoints'.function = breakpoints.function,
           breakpoints'.panic = breakpoints.panic
    PROVE  Ruling
BY DEF Ruling, GoesOnJudging, Undisturbed, HoldsStop

LEMMA PerformRuling ==
    ASSUME Types, NEW req \in Asks, NEW b \in BreakpointStates, Perform(req, b),
           Deferrable(req.command) => ~WorkPending,
           b.function = breakpoints.function, b.panic = breakpoints.panic
    PROVE  Ruling
<1>0. conditions \in ConditionStates /\ session \in Flags
      /\ session.revision \in Nat
    BY DEF Types, Flags
<1>1. conditions'.active = conditions.active
    BY PerformCourse
<1>2. CASE \/ Refused(req) /\ ReplyAtOnce(req, "error", b)
           \/ Threads(req, b) \/ StackTrace(req, b) \/ Pause(req, b)
    <2>1. workers' = workers /\ conditions' = conditions /\ breakpoints' = b
        BY <1>2 DEF ReplyAtOnce, Threads, StackTrace, Pause
    <2> QED BY <2>1, JudgeOn, StillOn
<1>3. ASSUME Deferrable(req.command), JudgeStays PROVE Ruling
    BY <1>1, <1>3 DEF Ruling, GoesOnJudging, Undisturbed, WorkPending
<1>4. CASE ReplaceSources(req, b)
    BY <1>3, <1>4, JudgeOn DEF ReplaceSources, Deferrable
<1>5. CASE ReplaceFunctions(req, b) \/ ReplacePanic(req, b)
    <2> DEFINE job == [NoJob EXCEPT !.cause = req.seq, !.kind = req.kind]
    <2>1. job \in Orders
        BY <1>5, Values DEF ReplaceFunctions, ReplacePanic, Orders, Asks, Valid, KnownKinds
    <2>2. /\ Deferrable(req.command)
          /\ \/ workers' = Enqueue(workers, "function", job)
             \/ workers' = Enqueue(workers, "panic", job)
        BY <1>5 DEF ReplaceFunctions, ReplacePanic, Deferrable
    <2> HIDE DEF job
    <2> QED BY <1>3, <2>1, <2>2, JudgeOn DEF Workers
<1>6. CASE ConfigurationDone(req, b)
    <2> DEFINE job == [NoJob EXCEPT !.kind = "plain"]
    <2>1. job \in Orders
        BY Values DEF Orders, KnownKinds, Kinds
    <2>2. /\ Deferrable(req.command)
          /\ \/ workers' = workers
             \/ workers' = Enqueue(workers, "panic", job)
        BY <1>6 DEF ConfigurationDone, Deferrable
    <2> HIDE DEF job
    <2> QED BY <1>3, <2>1, <2>2, JudgeOn DEF Workers
<1>7. CASE Variables(req, b)
    <2> DEFINE job == [NoJob EXCEPT !.cause = req.seq, !.epoch = InspectionEpoch,
                                      !.frame = req.frame]
    <2>1. job \in Orders
        <3>1. InspectionEpoch \in Revisions
            BY <1>0 DEF InspectionEpoch, Revisions
        <3> QED BY <3>1, Values DEF Orders, Asks
    <2>2. /\ conditions' = conditions /\ breakpoints' = b
          /\ workers' = Enqueue(workers, "inspection", job)
        BY <1>7 DEF Variables
    <2> HIDE DEF job
    <2>3. JudgeStays
        BY <2>1, <2>2, JudgeOn DEF Workers
    <2> QED BY <2>2, <2>3, StillOn
<1>8. CASE Resume(req, b)
    <2>1. Deferrable(req.command) /\ workers' = Release(workers, {"inspection", "condition"})
        BY <1>8 DEF Resume, Resumes, Deferrable
    <2> QED BY <1>3, <2>1, JudgeOn
<1> QED BY <1>2, <1>4, <1>5, <1>6, <1>7, <1>8 DEF Perform

\* A stop is published: it is shown, classified, or handed to the worker.
LEMMA PublishRuling ==
    ASSUME Types, NEW stop \in Stops, NEW c, NEW cond \in ConditionStates,
           NEW ws \in [Workers -> WorkerStates], NEW revision \in Nat,
           PublishStop(stop, c, cond, ws, revision),
           revision = session'.revision, Passes(stop), ~HoldsStop,
           cond.bindings = conditions.bindings, cond.updating = conditions.updating,
           SameJudge(Judge, ws["condition"]),
           breakpoints'.function = breakpoints.function,
           breakpoints'.panic = breakpoints.panic,
           \/ cond.active = NoJob /\ session'.revision > session.revision
           \/ cond = conditions /\ breakpoints.stops # <<>>
    PROVE  Ruling
<1> DEFINE job == ConditionJob(stop, revision)
<1>1. job \in Orders
    BY Values DEF ConditionJob, Orders, Revisions
<1>2. \/ conditions' = cond /\ workers' = ws
      \/ /\ conditions' = [cond EXCEPT !.active = job] /\ AllConditional(stop)
         /\ workers' = Enqueue(ws, "condition", job)
    BY DEF PublishStop, PublishConditionStop
<1>3. CASE conditions' = cond /\ workers' = ws
    <2>1. JudgeStays
        BY <1>3 DEF JudgeStays, JudgeTo
    <2>2. CASE cond.active = NoJob /\ session'.revision > session.revision
        BY <1>3, <2>1, <2>2 DEF Ruling, GivesUp
    <2>3. CASE cond = conditions
        BY <1>3, <2>1, <2>3, StillOn
    <2> QED BY <2>2, <2>3
<1>4. CASE /\ conditions' = [cond EXCEPT !.active = job] /\ AllConditional(stop)
           /\ workers' = Enqueue(ws, "condition", job)
    <2> HIDE DEF job
    <2>1. conditions'.active = job /\ conditions'.bindings = cond.bindings
          /\ conditions'.updating = cond.updating
        BY <1>4 DEF ConditionStates
    <2> DEFINE me == ws["condition"]
               to == workers'["condition"]
    <2>2. me \in WorkerStates /\ to = [me EXCEPT !.queue = Append(me.queue, job)]
        BY <1>4 DEF Enqueue, Workers
    <2> HIDE DEF me, to
    <2>3. to.queue = Append(me.queue, job) /\ to.job = me.job /\ to.pc = me.pc
        BY <2>2 DEF WorkerStates
    <2>4. JudgeTakes(job)
        BY <2>3 DEF JudgeTakes, JudgeTo, SameJudge, me, to
    <2>5. ~HoldsStop'
        BY <2>1 DEF HoldsStop
    <2>6. Submits(stop)
        BY <1>4, <2>1, <2>4, <2>5 DEF Submits, job
    <2> QED BY <2>6 DEF Ruling
<1> QED BY <1>2, <1>3, <1>4

LEMMA ClientRuling ==
    ASSUME Types, Live, Live', OnClient
    PROVE  Ruling
<1> SUFFICES ASSUME NEW req, req = Head(fromClient), fromClient # <<>>,
                    \/ DeferRequest(req) \/ InterruptCondition(req)
                    \/ PerformRequest(req) \/ Disconnect(req)
                    \/ RefuseWhileClosing(req) \/ ClientEof(req)
             PROVE  Ruling
    BY DEF OnClient
<1>1. /\ req \in Asks \cup Eofs
      /\ req.command # "eof" => req \in Asks
      /\ breakpoints \in BreakpointStates /\ conditions \in ConditionStates
      /\ session \in Flags /\ session.revision \in Nat
    BY HeadTyped DEF Types, Eofs, Flags
<1>2. CASE DeferRequest(req)
    <2>1. /\ UNCHANGED <<conditions, workers>>
          /\ breakpoints' \in {breakpoints,
                 [breakpoints EXCEPT !.deferred = Append(breakpoints.deferred, req)]}
        BY <1>2 DEF DeferRequest, ReplyAtOnce
    <2>2. breakpoints'.function = breakpoints.function
          /\ breakpoints'.panic = breakpoints.panic
        BY <1>1, <2>1 DEF BreakpointStates
    <2> QED BY <2>1, <2>2, JudgeOn, StillOn
<1>3. CASE InterruptCondition(req)
    <2>1. /\ conditions' = [conditions EXCEPT !.active = NoJob]
          /\ session' = [session EXCEPT !.revision = @ + 1] /\ workers' = workers
        BY <1>3 DEF InterruptCondition
    <2>2. conditions'.active = NoJob /\ session'.revision > session.revision
        BY <1>1, <2>1 DEF ConditionStates, Flags
    <2> QED BY <2>1, <2>2, JudgeOn DEF Ruling, GivesUp
<1>4. CASE PerformRequest(req)
    <2>1. req \in Asks /\ Perform(req, breakpoints) /\ ~MustDefer(req)
        BY <1>1, <1>4 DEF PerformRequest
    <2>2. Deferrable(req.command) => ~WorkPending
        BY <2>1 DEF MustDefer
    <2> QED BY <1>1, <2>1, <2>2, PerformRuling
<1>5. CASE RefuseWhileClosing(req) \/ ClientEof(req)
    BY <1>5 DEF RefuseWhileClosing, ClientEof, Live, Working
<1>6. CASE Disconnect(req)
    <2>1. session'.closing
        BY <1>1, <1>6 DEF Disconnect, Flags
    <2> QED BY <2>1 DEF Live
<1> QED BY <1>2, <1>3, <1>4, <1>5, <1>6

LEMMA DrainRuling ==
    ASSUME Types, DrainsAtRest, EditsInv, DrainStop \/ DrainRequest
    PROVE  Ruling
<1>1. /\ breakpoints \in BreakpointStates /\ conditions \in ConditionStates
      /\ workers \in [Workers -> WorkerStates] /\ session.revision \in Nat
    BY DEF Types, Flags
<1>2. CASE DrainStop
    <2> DEFINE stop == Head(breakpoints.stops)
               n == session.revision
               q == Tail(breakpoints.stops)
    <2>1. /\ PublishStop(stop, client, conditions, workers, n) /\ at = "drain"
          /\ session' = session /\ breakpoints.stops # <<>>
          /\ breakpoints' = [breakpoints EXCEPT !.stops = q]
        BY <1>2 DEF DrainStop
    <2>2. stop \in Stops
        BY <1>1, <2>1, HeadTyped DEF BreakpointStates
    <2>3. Passes(stop) /\ ~HoldsStop
        BY <2>1 DEF Passes, EditsInv
    <2>4. breakpoints'.function = breakpoints.function
          /\ breakpoints'.panic = breakpoints.panic
        BY <1>1, <2>1 DEF BreakpointStates
    <2>5. SameJudge(Judge, workers["condition"])
        BY DEF SameJudge, Judge
    <2>6. n = session'.revision /\ n \in Nat
        BY <1>1, <2>1
    <2> HIDE DEF stop, n, q
    <2> QED BY <1>1, <2>1, <2>2, <2>3, <2>4, <2>5, <2>6, PublishRuling
<1>3. CASE DrainRequest
    <2> DEFINE req == Head(breakpoints.deferred)
               b == [breakpoints EXCEPT !.deferred = Tail(@)]
    <2>1. /\ breakpoints.deferred # <<>> /\ breakpoints.stops = <<>> /\ at = "drain"
          /\ Perform(req, b)
        BY <1>3 DEF DrainRequest
    <2>2. breakpoints.deferred \in Seq(Asks) /\ Tail(breakpoints.deferred) \in Seq(Asks)
          /\ req \in Asks
        BY <1>1, <2>1 DEF BreakpointStates
    <2>3. b \in BreakpointStates /\ b.function = breakpoints.function
          /\ b.panic = breakpoints.panic
        BY <1>1, <2>2 DEF BreakpointStates
    <2>4. ~WorkPending
        BY <1>1, <2>1 DEF DrainsAtRest
    <2> HIDE DEF req, b
    <2> QED BY <2>1, <2>2, <2>3, <2>4, PerformRuling
<1> QED BY <1>2, <1>3

LEMMA ReplyRuling ==
    ASSUME Types, Addressed, EditsInv, Live, Live', NEW m,
           \/ OnConditionContinued(m) \/ \E w \in Workers : OnWorkerReply(m, w)
           \/ \E panicked \in BOOLEAN : OnStopClassified(m, panicked)
           \/ OnStackTrace(m) \/ OnSourcesReplaced(m) \/ OnInitialize(m)
           \/ OnLaunched(m) \/ OnConfigured(m) \/ OnResumed(m) \/ OnPauseAnswered(m)
           \/ OnThreads(m) \/ OnDisconnected(m)
    PROVE  Ruling
<1>0. conditions \in ConditionStates /\ workers \in [Workers -> WorkerStates]
    BY DEF Types
<1>1. CASE OnConditionContinued(m)
    <2>1. /\ workers' = workers /\ breakpoints' = breakpoints
          /\ conditions' \in {conditions, [conditions EXCEPT !.suppress = FALSE]}
        BY <1>1 DEF OnConditionContinued
    <2>2. /\ conditions'.active = conditions.active
          /\ conditions'.bindings = conditions.bindings
          /\ conditions'.updating = conditions.updating
        BY <1>0, <2>1 DEF ConditionStates
    <2> QED BY <2>1, <2>2, JudgeOn, StillOn
<1>2. CASE \E w \in Workers : OnWorkerReply(m, w)
    <2>1. PICK w \in Workers : OnWorkerReply(m, w)
        BY <1>2
    <2> DEFINE me == workers[w]
               to == [me EXCEPT !.pc = "replied", !.seq = 0, !.result = m.value, !.data = m.data]
    <2>2. /\ UNCHANGED <<breakpoints, conditions>>
          /\ \/ workers' = workers
             \/ me.pc = "wait" /\ workers' = [workers EXCEPT ![w] = to]
        BY <2>1 DEF OnWorkerReply
    <2>3. to.queue = me.queue /\ to.job = me.job /\ to.pc = "replied"
        BY <1>0 DEF WorkerStates
    <2>4. me.pc = "wait" => SameJudge(me, to)
        <3> HIDE DEF to, me
        <3> QED BY <2>3 DEF SameJudge
    <2> HIDE DEF to
    <2>5. JudgeStays
        BY <2>2, <2>4, JudgeOn, JudgeOne
    <2> QED BY <2>2, <2>5, StillOn
<1>3. CASE \E panicked \in BOOLEAN : OnStopClassified(m, panicked)
    <2> DEFINE stop == m.request.stop
    <2>1. /\ breakpoints' = breakpoints /\ "panic" \in stop.ids
          /\ \/ UNCHANGED <<conditions, workers>>
             \/ PublishConditionStop(stop, client, conditions, workers, session.revision)
        BY <1>3 DEF OnStopClassified, TakeResponse, Addressed, Address
    <2>2. ~AllConditional(stop)
        BY <2>1 DEF AllConditional
    <2> HIDE DEF stop
    <2>3. UNCHANGED <<conditions, workers>>
        BY <2>1, <2>2 DEF PublishConditionStop
    <2> QED BY <2>1, <2>3, JudgeOn, StillOn
<1>4. CASE OnStackTrace(m) \/ OnThreads(m)
    <2>1. UNCHANGED <<breakpoints, conditions, workers>>
        BY <1>4 DEF OnStackTrace, OnThreads
    <2> QED BY <2>1, JudgeOn, StillOn
<1>5. CASE OnInitialize(m)
    <2>1. UNCHANGED <<breakpoints, conditions, workers>>
        BY <1>5 DEF OnInitialize, Raise, Live, Working
    <2> QED BY <2>1, JudgeOn, StillOn
<1>6. CASE OnSourcesReplaced(m)
    <2>1. m.ok
        BY <1>6 DEF OnSourcesReplaced, Raise, Live, Working
    <2>2. /\ conditions' = [conditions EXCEPT !.updating = FALSE,
                                  !.bindings["source"] = m.request.kind]
          /\ workers' = workers
          /\ m.request \in pending /\ m.request.command = "setBreakpoints"
        BY <1>6, <2>1 DEF OnSourcesReplaced, TakeResponse
    <2>3. conditions'.active = conditions.active
        BY <1>0, <2>2 DEF ConditionStates
    <2>4. HoldsStop
        BY <2>2 DEF EditsInv, EditsOf, HoldsStop, Live
    <2> QED BY <2>2, <2>3, <2>4, JudgeOn DEF Ruling, GoesOnJudging, Undisturbed
<1>7. CASE OnLaunched(m) \/ OnConfigured(m) \/ OnResumed(m) \/ OnPauseAnswered(m)
    <2>1. UNCHANGED <<breakpoints, conditions, workers>>
        BY <1>7 DEF OnLaunched, OnConfigured, OnResumed, OnPauseAnswered
    <2> QED BY <2>1, JudgeOn, StillOn
<1>8. CASE OnDisconnected(m)
    BY <1>8 DEF OnDisconnected, Raise, Live, Working
<1> QED BY <1>1, <1>2, <1>3, <1>4, <1>5, <1>6, <1>7, <1>8

LEMMA EventRuling ==
    ASSUME Types, Live, Live', NEW m,
           \/ OnInitialized(m) \/ OnStopped(m) \/ OnContinued(m) \/ OnExited(m)
           \/ OnTerminated(m) \/ OnFailed(m)
    PROVE  Ruling
<1>0. /\ conditions \in ConditionStates /\ session \in Flags
      /\ session.revision \in Nat /\ workers \in [Workers -> WorkerStates]
      /\ breakpoints \in BreakpointStates
    BY DEF Types, Flags
<1>1. CASE OnInitialized(m)
    <2>1. UNCHANGED <<breakpoints, conditions, workers>>
        BY <1>1 DEF OnInitialized
    <2> QED BY <2>1, JudgeOn, StillOn
<1>2. CASE OnStopped(m)
    <2> DEFINE cond == [conditions EXCEPT !.active = NoJob, !.suppress = FALSE,
                            !.stepping = @ \/ session.pauseRevision # None]
               ws == Release(workers, {"inspection", "condition"})
               n == session.revision + 1
               stop == m.stop
               c == AnswerStale(client)
    <2>1. /\ session' = [session EXCEPT !.stopped = TRUE, !.revision = n,
                                        !.pauseRevision = None]
          /\ IF HoldsStop THEN conditions' = cond /\ workers' = ws
             ELSE PublishStop(stop, c, cond, ws, n) /\ breakpoints' = breakpoints
        BY <1>2 DEF OnStopped, Live
    <2>2. /\ cond \in ConditionStates /\ cond.active = NoJob
          /\ cond.bindings = conditions.bindings /\ cond.updating = conditions.updating
          /\ ws \in [Workers -> WorkerStates]
        BY <1>0, Values, ReleaseTyped DEF ConditionStates
    <2>3. session'.revision = n /\ n \in Nat /\ session'.revision > session.revision
        BY <1>0, <2>1 DEF Flags
    <2>4. stop \in Stops
        BY <1>2, MessageTyped DEF OnStopped, TakeEvent, Messages
    <2>5. ~HoldsStop => Passes(stop)
        BY <1>2 DEF OnStopped, TakeEvent, TakeMessage, Passes
    <2>6. SameJudge(Judge, ws["condition"])
        BY <1>0, ReleaseSame DEF Judge
    <2> HIDE DEF cond, ws, n, stop, c
    <2>7. CASE HoldsStop
        <3>1. conditions'.active = NoJob /\ JudgeStays
            BY <2>1, <2>2, <2>6, <2>7 DEF JudgeStays, JudgeTo
        <3> QED BY <2>3, <3>1 DEF Ruling, GivesUp
    <2>8. CASE ~HoldsStop
        <3>1. /\ PublishStop(stop, c, cond, ws, n) /\ Passes(stop)
              /\ breakpoints'.function = breakpoints.function
              /\ breakpoints'.panic = breakpoints.panic
            BY <2>1, <2>5, <2>8
        <3> QED BY <2>2, <2>3, <2>4, <2>6, <2>8, <3>1, PublishRuling
    <2> QED BY <2>7, <2>8
<1>3. CASE OnContinued(m)
    <2>1. /\ workers' = Release(workers, {"inspection", "condition"})
          /\ conditions' = [conditions EXCEPT !.suppress = FALSE]
          /\ breakpoints' = breakpoints
        BY <1>3 DEF OnContinued, Live
    <2>2. /\ conditions'.active = conditions.active
          /\ conditions'.bindings = conditions.bindings
          /\ conditions'.updating = conditions.updating
        BY <1>0, <2>1 DEF ConditionStates
    <2> QED BY <2>1, <2>2, JudgeOn, StillOn
<1>4. CASE OnExited(m)
    BY <1>0, <1>4 DEF OnExited, Flags, Live
<1>5. CASE OnTerminated(m)
    BY <1>0, <1>5 DEF OnTerminated, Finished, Flags, Live
<1>6. CASE OnFailed(m)
    BY <1>6 DEF OnFailed, Raise, Live, Working
<1> QED BY <1>1, <1>2, <1>3, <1>4, <1>5, <1>6

LEMMA WorkRuling ==
    ASSUME Types, Live, Live', OnWork
    PROVE  Ruling
<1>0. conditions \in ConditionStates /\ workers \in [Workers -> WorkerStates]
      /\ breakpoints \in BreakpointStates /\ session \in Flags /\ session.revision \in Nat
    BY DEF Types, Flags
<1>1. ASSUME NEW w \in Workers, OnRead(w) PROVE Ruling
    <2> DEFINE me == workers[w]
               n == FreshSeq(pending)
               to1 == [me EXCEPT !.pc = "wait", !.seq = n]
               to2 == [me EXCEPT !.pc = "replied", !.result = "error"]
    <2>1. me \in WorkerStates /\ me.pc = "read" /\ UNCHANGED <<breakpoints, conditions>>
        BY <1>0, <1>1 DEF OnRead, TakeWork
    <2>2. \/ workers' = [workers EXCEPT ![w].pc = "wait", ![w].seq = n]
          \/ workers' = [workers EXCEPT ![w].pc = "replied", ![w].result = "error"]
        BY <1>1 DEF OnRead
    <2>3. workers' = [workers EXCEPT ![w] = to1] \/ workers' = [workers EXCEPT ![w] = to2]
        BY <1>0, <2>2
    <2> HIDE DEF me, n
    <2>4. /\ to1.queue = me.queue /\ to1.job = me.job /\ to1.pc = "wait"
          /\ to2.queue = me.queue /\ to2.job = me.job /\ to2.pc = "replied"
        BY <2>1 DEF WorkerStates
    <2> HIDE DEF to1, to2
    <2>5. SameJudge(me, to1) /\ SameJudge(me, to2)
        BY <2>1, <2>4 DEF SameJudge
    <2>6. JudgeStays
        BY <2>3, <2>5, JudgeOne DEF me
    <2> QED BY <2>1, <2>6, StillOn
<1>2. ASSUME NEW w \in Workers, RaiseDone(w) PROVE FALSE
    BY <1>2 DEF RaiseDone, Raise, Live, Working
<1>3. ASSUME NEW w \in Workers \ {"condition"}, workers[w].pc = "done", workers' = Rested(w)
      PROVE  JudgeStays
    BY <1>3, JudgeOn
<1>4. CASE OnInspectDone
    <2>1. workers["inspection"].pc = "done" /\ workers' = Rested("inspection")
          /\ UNCHANGED <<breakpoints, conditions>>
        BY <1>4 DEF OnInspectDone, TakeWork
    <2> QED BY <1>3, <2>1, StillOn DEF Workers
<1>5. CASE OnFunctionDone
    <2>1. JudgeStays
        BY <1>2, <1>3, <1>5 DEF OnFunctionDone, IgnoreDone, TakeWork, Workers
    <2>2. CASE breakpoints.function = NoRequest
        <3>1. UNCHANGED <<breakpoints, conditions>>
            BY <1>5, <2>2 DEF OnFunctionDone, IgnoreDone
        <3> QED BY <2>1, <3>1, StillOn
    <2>3. CASE breakpoints.function # NoRequest
        <3>1. conditions' = [conditions EXCEPT !.bindings["function"] = breakpoints.requested]
            BY <1>2, <1>5, <2>3 DEF OnFunctionDone, Workers
        <3>2. conditions'.active = conditions.active
            BY <1>0, <3>1 DEF ConditionStates
        <3> QED BY <2>1, <2>3, <3>2 DEF Ruling, GoesOnJudging, Undisturbed, HoldsStop
    <2> QED BY <2>2, <2>3
<1>6. CASE OnPanicDone
    <2>1. JudgeStays
        BY <1>2, <1>3, <1>6 DEF OnPanicDone, IgnoreDone, TakeWork, Workers
    <2>2. CASE breakpoints.panic = None
        <3>1. UNCHANGED <<breakpoints, conditions>>
            BY <1>6, <2>2 DEF OnPanicDone, IgnoreDone
        <3> QED BY <2>1, <3>1, StillOn
    <2>3. CASE breakpoints.panic # None
        <3>1. conditions' = conditions
            BY <1>2, <1>6, <2>3 DEF OnPanicDone, Workers
        <3> QED BY <2>1, <2>3, <3>1 DEF Ruling, GoesOnJudging, Undisturbed, HoldsStop
    <2> QED BY <2>2, <2>3
<1>7. CASE OnConditionDone
    <2> DEFINE to == Rested("condition")["condition"]
               after == Release(Rested("condition"), {"inspection", "condition"})["condition"]
    <2>1. Judge.pc = "done" /\ to.queue = Judge.queue /\ to.pc = "idle"
        BY <1>0, <1>7 DEF OnConditionDone, IgnoreDone, TakeWork, Rested, Judge, Workers,
                          WorkerStates
    <2>2. after = to
        BY <2>1 DEF Release, Workers
    <2>3. workers'["condition"] = to
        BY <1>7, <2>2 DEF OnConditionDone, IgnoreDone
    <2> HIDE DEF to, after
    <2>4. JudgeRests
        BY <2>1, <2>3 DEF JudgeRests, JudgeTo
    <2>5. CASE ConditionEpoch # Judge.job.epoch
        <3>1. UNCHANGED <<breakpoints, conditions>>
            BY <1>7, <2>5 DEF OnConditionDone, IgnoreDone, Judge
        <3> QED BY <2>4, <3>1 DEF Ruling, GoesOnJudging, Undisturbed, HoldsStop
    <2>6. CASE ConditionEpoch = Judge.job.epoch
        <3>1. conditions' \in {[conditions EXCEPT !.active = NoJob, !.suppress = TRUE],
                               [conditions EXCEPT !.active = NoJob]}
            BY <1>7, <2>6 DEF OnConditionDone, Judge
        <3>2. conditions'.active = NoJob
            BY <1>0, <3>1 DEF ConditionStates
        <3> QED BY <2>4, <2>6, <3>2 DEF Ruling, HasRuled
    <2> QED BY <2>5, <2>6
<1> QED BY <1>1, <1>4, <1>5, <1>6, <1>7 DEF OnWork

LEMMA WorkerRuling ==
    ASSUME Types, NEW w \in Workers, Worker(w)
    PROVE  Ruling
<1> DEFINE me == workers[w]
<1>1. me \in WorkerStates /\ UNCHANGED <<breakpoints, conditions>>
    BY DEF Worker, WorkerStart, WorkerFinish, WorkerTimeout, StepWorker, Types
<1>2. CASE WorkerStart(w)
    <2> DEFINE job == Head(me.queue)
               taken == [me EXCEPT !.queue = Tail(me.queue), !.job = job]
               to1 == [taken EXCEPT !.pc = "done", !.result = "error"]
               to2 == [taken EXCEPT !.pc = "done", !.result = "ok"]
               to3 == [taken EXCEPT !.pc = "read"]
    <2>1. /\ me.pc = "idle" /\ me.queue # <<>>
          /\ \/ workers' = [workers EXCEPT ![w] = to1]
             \/ workers' = [workers EXCEPT ![w] = to2]
             \/ workers' = [workers EXCEPT ![w] = to3]
        BY <1>2 DEF WorkerStart, StepWorker
    <2>2. \A to \in {to1, to2, to3} : to.queue = Tail(me.queue) /\ to.job = job /\ to.pc # "idle"
        BY <1>1 DEF WorkerStates
    <2> HIDE DEF taken, to1, to2, to3
    <2>3. PICK to \in {to1, to2, to3} : workers' = [workers EXCEPT ![w] = to]
        BY <2>1
    <2>4. to.queue = Tail(me.queue) /\ to.job = job /\ to.pc # "idle"
        BY <2>2
    <2>5. CASE w = "condition"
        <3>1. workers'["condition"] = to
            BY <2>3, <2>5 DEF Types
        <3>2. JudgeStarts
            BY <2>1, <2>4, <2>5, <3>1 DEF JudgeStarts, Judge, JudgeTo
        <3> QED BY <1>1, <3>2 DEF Ruling, GoesOnJudging, Undisturbed, HoldsStop
    <2>6. CASE w # "condition"
        <3>1. JudgeStays
            BY <2>3, <2>6, JudgeOne
        <3> QED BY <1>1, <3>1, StillOn
    <2> QED BY <2>5, <2>6
<1>3. CASE WorkerFinish(w) \/ WorkerTimeout(w)
    <2> DEFINE result == IF EpochHolds(w, me.job) THEN me.result ELSE "error"
               installed == IF me.result = "ok" THEN me.job.kind # "none"
                            ELSE me.installed
               to1 == [me EXCEPT !.pc = "done", !.result = result,
                                 !.installed = installed]
               to2 == [me EXCEPT !.pc = "done", !.seq = 0, !.result = "error"]
    <2>1. /\ me.pc # "idle"
          /\ workers' = [workers EXCEPT ![w] = to1] \/ workers' = [workers EXCEPT ![w] = to2]
        BY <1>3 DEF WorkerFinish, WorkerTimeout, StepWorker
    <2> HIDE DEF me, result, installed
    <2>2. /\ to1.queue = me.queue /\ to1.job = me.job /\ to1.pc = "done"
          /\ to2.queue = me.queue /\ to2.job = me.job /\ to2.pc = "done"
        BY <1>1 DEF WorkerStates
    <2> HIDE DEF to1, to2
    <2>3. SameJudge(me, to1) /\ SameJudge(me, to2)
        BY <2>1, <2>2 DEF SameJudge
    <2>4. JudgeStays
        BY <2>1, <2>3, JudgeOne DEF me
    <2> QED BY <1>1, <2>4, StillOn
<1> QED BY <1>2, <1>3 DEF Worker

\* Every step of a session that goes on is of one of these kinds.
LEMMA Rules ==
    ASSUME SafetyInv, Addressed, DrainsAtRest, EditsInv, [Next]_vars, Live, Live'
    PROVE  Ruling
<1>0. Types
    BY DEF SafetyInv
<1>1. CASE OnClient \/ DrainStop \/ DrainRequest \/ OnWork \/ \E w \in Workers : Worker(w)
    BY <1>0, <1>1, ClientRuling, DrainRuling, WorkRuling, WorkerRuling
<1>2. CASE OnAdapter
    BY <1>0, <1>2, ReplyRuling, EventRuling DEF OnAdapter
<1>3. CASE Timeout \/ Shutdown
    BY <1>3 DEF Timeout, Shutdown, Raise, Live, Working
<1>4. CASE \/ ClientSends \/ ClientLeaves
           \/ Adapter \/ AdapterAnswers \/ TargetStops \/ TargetExits \/ Crash
           \/ UNCHANGED vars
    <2>1. UNCHANGED <<breakpoints, workers, conditions>>
        <3>1. CASE ClientSends \/ ClientLeaves \/ UNCHANGED vars
            BY <3>1 DEF ClientSends, ClientLeaves, vars
        <3>2. CASE Adapter
            BY <1>0, <3>2, AdapterEffects DEF Handle
        <3>3. CASE AdapterAnswers \/ TargetStops \/ TargetExits \/ Crash
            BY <1>0, <3>3, TargetEffects DEF Reports, TargetMoves
        <3> QED BY <1>4, <3>1, <3>2, <3>3
    <2> QED BY <1>0, <2>1, JudgeOn, StillOn
<1> QED BY <1>1, <1>2, <1>3, <1>4 DEF Next

-----------------------------------------------------------------------------
(* The order of the evaluations, and the rules they go by.                   *)

\* The worker takes its jobs in the order of the stops they are for.
InRank(me) ==
    /\ me.pc # "idle" => \A i \in 1 .. Len(me.queue) : me.job.epoch < me.queue[i].epoch
    /\ \A i, j \in 1 .. Len(me.queue) : i < j => me.queue[i].epoch < me.queue[j].epoch

\* No job is ahead of the session, and one for the stop the session is at is the
\* evaluation that is under way.
RankedInv == Live =>
    /\ InRank(Judge)
    /\ \A j \in Held(Judge) : /\ j.epoch <= session.revision
                              /\ j.epoch = session.revision => j = conditions.active

LEMMA JudgeTurns ==
    ASSUME Types, Types', InRank(Judge), Dated(workers)
    PROVE  /\ JudgeStays => InRank(JudgeTo) /\ Held(JudgeTo) = Held(Judge)
           /\ JudgeStarts => InRank(JudgeTo) /\ Held(JudgeTo) \subseteq Held(Judge)
           /\ JudgeRests => /\ InRank(JudgeTo)
                            /\ \A j \in Held(JudgeTo) : j \in Held(Judge)
                                                        /\ Judge.job.epoch < j.epoch
           /\ \A job \in Orders :
                 JudgeTakes(job) /\ (\A j \in Held(Judge) : j.epoch < job.epoch)
                 => InRank(JudgeTo) /\ Held(JudgeTo) = Held(Judge) \cup {job}
<1> DEFINE me == Judge
           to == JudgeTo
           q == me.queue
           r == to.queue
<1>0. /\ me \in WorkerStates /\ to \in WorkerStates /\ q \in Seq(Orders) /\ Len(q) \in Nat
      /\ r \in Seq(Orders)
    <2>1. workers \in [Workers -> WorkerStates] /\ workers' \in [Workers -> WorkerStates]
        BY DEF Types
    <2>2. me \in WorkerStates /\ to \in WorkerStates
        BY <2>1 DEF Judge, JudgeTo, Workers
    <2> HIDE DEF me, to
    <2> QED BY <2>2 DEF WorkerStates
<1>1. InRank(me)
    OBVIOUS
<1>2. JudgeStays => InRank(to) /\ Held(to) = Held(me)
    <2> SUFFICES ASSUME JudgeStays PROVE InRank(to) /\ Held(to) = Held(me)
        OBVIOUS
    <2>1. to.queue = me.queue /\ to.job = me.job /\ (to.pc = "idle" <=> me.pc = "idle")
        BY DEF JudgeStays, SameJudge
    <2> HIDE DEF me, to
    <2> QED BY <1>1, <2>1, SameLoad DEF InRank
<1>3. JudgeStarts => InRank(to) /\ Held(to) \subseteq Held(me)
    <2> SUFFICES ASSUME JudgeStarts PROVE InRank(to) /\ Held(to) \subseteq Held(me)
        OBVIOUS
    <2>1. me.pc = "idle" /\ q # <<>> /\ to.pc # "idle" /\ r = Tail(q) /\ to.job = Head(q)
        BY DEF JudgeStarts
    <2> HIDE DEF me, to
    <2>2. /\ to.job = q[1] /\ 1 \in 1 .. Len(q)
          /\ \A i \in 1 .. Len(r) : i + 1 \in 1 .. Len(q) /\ r[i] = q[i + 1]
        BY <1>0, <2>1, Tails
    <2>3. \A i, j \in 1 .. Len(q) : i < j => q[i].epoch < q[j].epoch
        BY <1>1 DEF InRank
    <2>4. Held(me) = {q[i] : i \in 1 .. Len(q)}
        BY <2>1 DEF Held
    <2>5. Held(to) = {r[i] : i \in 1 .. Len(r)} \cup {to.job}
        BY <2>1 DEF Held
    <2>6. Held(to) \subseteq Held(me)
        BY <2>2, <2>4, <2>5
    <2>7. \A i \in 1 .. Len(r) : to.job.epoch < r[i].epoch
        <3> TAKE i \in 1 .. Len(r)
        <3>1. i + 1 \in 1 .. Len(q) /\ r[i] = q[i + 1] /\ 1 < i + 1
            BY <1>0, <2>2
        <3> QED BY <2>2, <2>3, <3>1
    <2>8. \A i, j \in 1 .. Len(r) : i < j => r[i].epoch < r[j].epoch
        <3> TAKE i \in 1 .. Len(r), j \in 1 .. Len(r)
        <3>1. i + 1 \in 1 .. Len(q) /\ j + 1 \in 1 .. Len(q) /\ r[i] = q[i + 1] /\ r[j] = q[j + 1]
            BY <2>2
        <3>2. i < j => i + 1 < j + 1
            BY <1>0, <3>1
        <3> QED BY <2>3, <3>1, <3>2
    <2> QED BY <2>6, <2>7, <2>8 DEF InRank
<1>4. JudgeRests => /\ InRank(to)
                    /\ \A j \in Held(to) : j \in Held(me) /\ me.job.epoch < j.epoch
    <2> SUFFICES ASSUME JudgeRests
                 PROVE  /\ InRank(to)
                        /\ \A j \in Held(to) : j \in Held(me) /\ me.job.epoch < j.epoch
        OBVIOUS
    <2>1. me.pc = "done" /\ to.pc = "idle" /\ r = q
        BY DEF JudgeRests
    <2> HIDE DEF me, to
    <2>2. Held(to) = {q[i] : i \in 1 .. Len(q)} /\ Held(to) \subseteq Held(me)
        BY <2>1 DEF Held
    <2>3. InRank(to)
        BY <1>1, <2>1 DEF InRank
    <2>4. \A i \in 1 .. Len(q) : me.job.epoch < q[i].epoch
        BY <1>1, <2>1 DEF InRank
    <2> QED BY <2>2, <2>3, <2>4
<1>5. ASSUME NEW job \in Orders, JudgeTakes(job), \A j \in Held(me) : j.epoch < job.epoch
      PROVE  InRank(to) /\ Held(to) = Held(me) \cup {job}
    <2>1. r = Append(q, job) /\ to.job = me.job /\ (to.pc = "idle" <=> me.pc = "idle")
        BY <1>5 DEF JudgeTakes
    <2> HIDE DEF me, to
    <2>2. /\ Len(r) = Len(q) + 1 /\ r[Len(q) + 1] = job
          /\ \A i \in 1 .. Len(q) : r[i] = q[i]
          /\ \A i \in 1 .. Len(r) : i \in 1 .. Len(q) \/ i = Len(q) + 1
        BY <1>0, <2>1, Appends
    <2> HIDE DEF q, r
    <2>3. {r[i] : i \in 1 .. Len(r)} = {q[i] : i \in 1 .. Len(q)} \cup {job}
        <3>1. Len(q) + 1 \in 1 .. Len(r) /\ \A i \in 1 .. Len(q) : i \in 1 .. Len(r)
            BY <1>0, <2>2
        <3> QED BY <2>2, <3>1
    <2>4. Held(to) = Held(me) \cup {job}
        BY <2>1, <2>3 DEF Held, q, r
    <2>5. \A i \in 1 .. Len(q) : q[i].epoch < job.epoch
        <3>1. \A i \in 1 .. Len(q) : q[i] \in Held(me)
            BY DEF Held, q
        <3> QED BY <1>5, <3>1
    <2>6. me.pc # "idle" => me.job.epoch < job.epoch
        <3>1. me.pc # "idle" => me.job \in Held(me)
            BY DEF Held
        <3> QED BY <1>5, <3>1
    <2>7. ASSUME me.pc # "idle", NEW i \in 1 .. Len(r) PROVE me.job.epoch < r[i].epoch
        <3>1. i \in 1 .. Len(q) => me.job.epoch < r[i].epoch
            BY <1>1, <2>2, <2>7 DEF InRank, q
        <3> QED BY <2>2, <2>6, <2>7, <3>1
    <2>8. ASSUME NEW i \in 1 .. Len(r), NEW j \in 1 .. Len(r), i < j
          PROVE  r[i].epoch < r[j].epoch
        <3>1. i \in 1 .. Len(q)
            BY <1>0, <2>2, <2>8
        <3>2. j \in 1 .. Len(q) => r[i].epoch < r[j].epoch
            BY <1>1, <2>2, <2>8, <3>1 DEF InRank, q
        <3>3. j = Len(q) + 1 => r[i].epoch < r[j].epoch
            BY <2>2, <2>5, <3>1
        <3> QED BY <2>2, <3>2, <3>3
    <2>9. InRank(to)
        BY <2>1, <2>7, <2>8 DEF InRank, r
    <2> QED BY <2>4, <2>9
<1> QED BY <1>2, <1>3, <1>4, <1>5

LEMMA RankedKept ==
    ASSUME SafetyInv, Types', Addressed, DrainsAtRest, EditsInv, HeldInv, RankedInv,
           [Next]_vars
    PROVE  RankedInv'
<1> SUFFICES ASSUME Live'
             PROVE  /\ InRank(JudgeTo)
                    /\ \A j \in Held(JudgeTo) :
                          /\ j.epoch <= session'.revision
                          /\ j.epoch = session'.revision => j = conditions'.active
    BY DEF RankedInv, Judge, JudgeTo, InRank, Held
<1>0. /\ Types /\ Dated(workers) /\ session.revision \in Nat /\ session'.revision \in Nat
      /\ session.revision <= session'.revision
    <2>1. Types /\ Dated(workers) /\ session \in Flags /\ session' \in Flags
        BY DEF SafetyInv, Types
    <2> QED BY <2>1, Monotone DEF Flags
<1>1. Live
    BY Monotone DEF Live
<1>2. /\ InRank(Judge)
      /\ \A j \in Held(Judge) : /\ j.epoch <= session.revision
                                /\ j.epoch = session.revision => j = conditions.active
    BY <1>1 DEF RankedInv
<1>3. Ruling
    BY <1>0, <1>1, Rules
<1>4. \A j \in Held(Judge) : j.epoch \in Revisions
    <2>1. Judge \in WorkerStates
        BY <1>0 DEF Types, Judge, Workers
    <2>2. \A j \in Held(Judge) : j \in Orders
        BY <2>1, LoadTyped
    <2> QED BY <2>2 DEF Orders
<1>5. CASE GoesOnJudging
    <2>1. InRank(JudgeTo) /\ Held(JudgeTo) \subseteq Held(Judge)
        BY <1>0, <1>2, <1>5, JudgeTurns DEF GoesOnJudging
    <2>2. conditions'.active = conditions.active
        BY <1>5 DEF GoesOnJudging
    <2> QED BY <1>0, <1>2, <1>4, <2>1, <2>2 DEF Revisions, None
<1>6. CASE GivesUp
    <2>1. InRank(JudgeTo) /\ Held(JudgeTo) \subseteq Held(Judge)
        BY <1>0, <1>2, <1>6, JudgeTurns DEF GivesUp
    <2>2. session'.revision > session.revision
        BY <1>6 DEF GivesUp
    <2> QED BY <1>0, <1>2, <1>4, <2>1, <2>2 DEF Revisions, None
<1>7. CASE HasRuled
    <2>1. /\ InRank(JudgeTo)
          /\ \A j \in Held(JudgeTo) : j \in Held(Judge) /\ Judge.job.epoch < j.epoch
        BY <1>0, <1>2, <1>7, JudgeTurns DEF HasRuled
    <2>2. Judge.job.epoch = session.revision
        <3>1. Judge.pc = "done" /\ Judge.job.epoch = ConditionEpoch
            BY <1>7 DEF HasRuled, JudgeRests
        <3>2. Judge.job.epoch # None
            BY <1>0, <3>1 DEF Dated, Judge
        <3> QED BY <3>1, <3>2 DEF ConditionEpoch
    <2>3. \A j \in Held(JudgeTo) : FALSE
        BY <1>0, <1>2, <1>4, <2>1, <2>2 DEF Revisions, None
    <2> QED BY <2>1, <2>3
<1>8. CASE \E stop \in Stops : Submits(stop)
    <2>1. PICK stop \in Stops : Submits(stop)
        BY <1>8
    <2> DEFINE job == conditions'.active
    <2>2. /\ job \in Orders /\ job.epoch = session'.revision /\ JudgeTakes(job)
          /\ session'.revision > session.revision \/ breakpoints.stops # <<>>
        <3>1. /\ job = ConditionJob(stop, session'.revision) /\ JudgeTakes(job)
              /\ session'.revision > session.revision \/ breakpoints.stops # <<>>
            BY <2>1 DEF Submits
        <3>2. conditions'.active \in Orders
            BY DEF Types, ConditionStates
        <3>3. job.epoch = session'.revision
            BY <3>1 DEF ConditionJob, NoJob
        <3> HIDE DEF job
        <3>4. job \in Orders
            BY <3>2 DEF job
        <3> QED BY <3>1, <3>3, <3>4
    <2> HIDE DEF job
    <2>3. ASSUME NEW j \in Held(Judge) PROVE j.epoch < job.epoch
        <3>1. CASE breakpoints.stops # <<>>
            <4>1. conditions.active = NoJob
                BY <1>1, <3>1 DEF HeldInv
            <4>2. NoJob.epoch = None
                BY DEF NoJob
            <4>3. j.epoch # session.revision
                BY <1>0, <1>2, <4>1, <4>2 DEF None
            <4> QED BY <1>0, <1>2, <1>4, <2>2, <4>3 DEF Revisions, None
        <3>2. CASE session'.revision > session.revision
            BY <1>0, <1>2, <1>4, <2>2, <3>2 DEF Revisions, None
        <3> QED BY <2>2, <3>1, <3>2
    <2>4. InRank(JudgeTo) /\ Held(JudgeTo) = Held(Judge) \cup {job}
        BY <1>0, <1>2, <2>2, <2>3, JudgeTurns
    <2>5. ASSUME NEW j \in Held(JudgeTo)
          PROVE  /\ j.epoch <= session'.revision
                 /\ j.epoch = session'.revision => j = job
        <3>1. CASE j = job
            BY <1>0, <2>2, <3>1
        <3>2. CASE j \in Held(Judge)
            BY <1>0, <1>4, <2>2, <2>3, <3>2 DEF Revisions, None
        <3> QED BY <2>4, <3>1, <3>2
    <2> QED BY <2>4, <2>5 DEF job
<1> QED BY <1>3, <1>5, <1>6, <1>7, <1>8 DEF Ruling

\* The breakpoints of the stop that is evaluated stay what they were.
RuledInv == Live /\ conditions.active # NoJob =>
    AllConditional(conditions.active.stop) /\ ~HoldsStop

LEMMA RuledKept ==
    ASSUME SafetyInv, Addressed, DrainsAtRest, EditsInv, RuledInv, [Next]_vars
    PROVE  RuledInv'
<1> SUFFICES ASSUME Live', conditions'.active # NoJob
             PROVE  AllConditional(conditions.active.stop)' /\ ~HoldsStop'
    BY DEF RuledInv
<1>1. Live
    BY Monotone DEF Live
<1>2. Ruling
    BY <1>1, Rules
<1>3. CASE GoesOnJudging
    <2>1. conditions'.active = conditions.active /\ Undisturbed
        BY <1>3 DEF GoesOnJudging
    <2>2. AllConditional(conditions.active.stop) /\ ~HoldsStop
        BY <1>1, <2>1 DEF RuledInv
    <2>3. ~HoldsStop' /\ conditions'.bindings = conditions.bindings
        BY <2>1, <2>2 DEF Undisturbed
    <2> QED BY <2>1, <2>2, <2>3 DEF AllConditional
<1>4. CASE GivesUp \/ HasRuled
    BY <1>4 DEF GivesUp, HasRuled
<1>5. CASE \E stop \in Stops : Submits(stop)
    <2>1. PICK stop \in Stops : Submits(stop)
        BY <1>5
    <2>2. conditions'.active.stop = stop
        BY <2>1 DEF Submits, ConditionJob, NoJob
    <2>3. ~HoldsStop' /\ conditions'.bindings = conditions.bindings /\ AllConditional(stop)
        BY <2>1 DEF Submits
    <2> QED BY <2>2, <2>3 DEF AllConditional
<1> QED BY <1>2, <1>3, <1>4, <1>5 DEF Ruling

-----------------------------------------------------------------------------
(* The stop that is judged is where the target is, and the verdicts on their  *)
(* way are of that stop.                                                      *)

\* The stop that is evaluated, or held back, is where the target is.
PlacedInv == Live =>
    /\ conditions.active # NoJob => conditions.active.stop.no = target.no
    /\ \A s \in StopsOf(breakpoints) : s.no = target.no

LEMMA PlacedKept ==
    ASSUME SafetyInv, Addressed, DrainsAtRest, EditsInv, TokensInv, HeldInv, PlacedInv,
           [Next]_vars
    PROVE  PlacedInv'
<1> SUFFICES ASSUME Live'
             PROVE  /\ conditions'.active # NoJob => conditions'.active.stop.no = target'.no
                    /\ \A s \in StopsOf(breakpoints') : s.no = target'.no
    BY DEF PlacedInv, StopsOf
<1>0. Types
    BY DEF SafetyInv
<1>1. Live
    BY Monotone DEF Live
<1>2. /\ conditions.active # NoJob => conditions.active.stop.no = target.no
      /\ \A s \in StopsOf(breakpoints) : s.no = target.no
      /\ StopsLast /\ KnowsStop
    BY <1>1 DEF PlacedInv, TokensInv
<1>3. ASSUME NEW s, Hears(s) PROVE s.no = target.no
    <2>1. /\ fromAdapter # <<>> /\ Head(fromAdapter).type = "stopped"
          /\ s = Head(fromAdapter).stop
        BY <1>3 DEF Hears
    <2>2. Head(fromAdapter) = fromAdapter[1] /\ 1 \in 1 .. Len(fromAdapter)
        <3>1. fromAdapter \in Seq(Messages)
            BY <1>0 DEF Types
        <3> QED BY <2>1, <3>1, Tails
    <2>3. Stopping(1)
        BY <2>1, <2>2 DEF Stopping
    <2> QED BY <1>2, <2>1, <2>2, <2>3 DEF StopsLast
<1>4. ASSUME NEW s, Passes(s) PROVE s.no = target.no
    <2>1. CASE at = "drain" /\ breakpoints.stops # <<>> /\ s = Head(breakpoints.stops)
        <3>1. breakpoints.stops \in Seq(Stops)
            BY <1>0 DEF Types, BreakpointStates
        <3>2. Head(breakpoints.stops) = breakpoints.stops[1] /\ 1 \in 1 .. Len(breakpoints.stops)
            BY <2>1, <3>1, Tails
        <3>3. s \in StopsOf(breakpoints)
            BY <2>1, <3>2 DEF StopsOf
        <3> QED BY <1>2, <3>3
    <2>2. CASE Hears(s)
        BY <1>3, <2>2
    <2> QED BY <1>4, <2>1, <2>2 DEF Passes, Hears
<1>5. CASE target' = target
    <2>1. Ruling
        BY <1>1, Rules
    <2>2. conditions'.active # NoJob => conditions'.active.stop.no = target.no
        <3>1. CASE GoesOnJudging
            BY <1>2, <3>1 DEF GoesOnJudging
        <3>2. CASE GivesUp \/ HasRuled
            BY <3>2 DEF GivesUp, HasRuled
        <3>3. CASE \E stop \in Stops : Submits(stop)
            <4>1. PICK stop \in Stops : Submits(stop)
                BY <3>3
            <4>2. conditions'.active.stop = stop /\ Passes(stop)
                BY <4>1 DEF Submits, ConditionJob, NoJob
            <4> QED BY <1>4, <4>2
        <3> QED BY <2>1, <3>1, <3>2, <3>3 DEF Ruling
    <2>3. HoldsBack
        BY <1>0, CourseSteps DEF Course
    <2>4. \A s \in StopsOf(breakpoints') : s.no = target.no
        BY <1>2, <1>3, <2>3 DEF HoldsBack
    <2> QED BY <1>5, <2>2, <2>4
<1>6. ASSUME UNCHANGED <<session, conditions, breakpoints>>, target.alive,
             target.state # "running" => target'.no = target.no
      PROVE  /\ conditions'.active # NoJob => conditions'.active.stop.no = target'.no
             /\ \A s \in StopsOf(breakpoints') : s.no = target'.no
    <2>1. session.stopped => target.state = "stopped"
        BY <1>2, <1>6 DEF KnowsStop, Still
    <2>2. conditions.active # NoJob \/ breakpoints.stops # <<>> => session.stopped
        BY <1>1 DEF HeldInv
    <2>3. breakpoints.stops = <<>> => StopsOf(breakpoints) = {}
        <3>1. breakpoints.stops = <<>> => Len(breakpoints.stops) = 0
            BY Short
        <3> QED BY <3>1 DEF StopsOf
    <2>4. conditions' = conditions /\ breakpoints' = breakpoints
        BY <1>6
    <2>5. CASE session.stopped
        BY <1>2, <1>6, <2>1, <2>4, <2>5
    <2>6. CASE ~session.stopped
        BY <2>2, <2>3, <2>4, <2>6
    <2> QED BY <2>5, <2>6
<1>7. CASE \E p \in Sent, ms \in Seq(Messages) :
               Handle(p, ms, target') /\ Effect(p, ms) /\ Address(p)
    <2>1. PICK p \in Sent, ms \in Seq(Messages) : Handle(p, ms, target') /\ Effect(p, ms)
        BY <1>7
    <2>2. UNCHANGED <<session, conditions, breakpoints>> /\ target.alive
        BY <2>1 DEF Handle
    <2>3. target.state # "running" => target'.no = target.no
        BY <2>1 DEF Effect, Transition
    <2> QED BY <1>6, <2>2, <2>3
<1>8. CASE AdapterAnswers \/ TargetStops \/ TargetExits \/ Crash
    <2>1. PICK ms \in Seq(Messages) : Reports(ms)
        BY <1>0, <1>8, TargetEffects
    <2>2. UNCHANGED <<session, conditions, breakpoints>> /\ target.alive
        BY <2>1 DEF Reports, TargetMoves
    <2>3. target.state # "running" => target'.no = target.no
        BY <2>1 DEF Reports, SaysDone, SaysStopped, SaysExited, SaysFailed
    <2> QED BY <1>6, <2>2, <2>3
<1>9. OwnStep \/ (\E m : MessageStep(m)) \/ Apart => target' = target
    BY DEF OwnStep, MessageStep, Apart
<1>10. ~Shutdown
    BY DEF Shutdown, Live, Working
<1> QED BY <1>5, <1>7, <1>8, <1>9, <1>10, Steps

\* When lldb-dap has died the debuggee is gone.
GoneInv == ~target.alive => target.state = "gone"

LEMMA GoneKept ==
    ASSUME SafetyInv, Addressed, GoneInv, [Next]_vars
    PROVE  GoneInv'
<1>0. Types
    BY DEF SafetyInv
<1>1. OwnStep \/ (\E m : MessageStep(m)) \/ Apart => target' = target
    BY DEF OwnStep, MessageStep, Apart
<1>2. (\E p \in Sent, ms \in Seq(Messages) :
            Handle(p, ms, target') /\ Effect(p, ms) /\ Address(p)) => target'.alive
    BY DEF Effect, Keeps
<1>3. CASE Shutdown
    <2>1. target' = [target EXCEPT !.state = "gone", !.alive = FALSE]
        BY <1>3 DEF Shutdown
    <2>2. target'.state = "gone"
        BY <1>0, <2>1 DEF Types, Targets
    <2> QED BY <2>2 DEF GoneInv
<1>4. CASE AdapterAnswers \/ TargetStops \/ TargetExits \/ Crash
    <2>1. PICK ms \in Seq(Messages) : Reports(ms)
        BY <1>0, <1>4, TargetEffects
    <2>2. target'.alive \/ target'.state = "gone"
        BY <2>1 DEF Reports, SaysDone, SaysStopped, SaysExited, SaysFailed
    <2> QED BY <2>2 DEF GoneInv
<1> QED BY <1>1, <1>2, <1>3, <1>4, Steps DEF GoneInv

\* A condition that lldb-dap has yet to evaluate is of the stop the target is at,
\* as long as the session is there.
AskedInv == Working =>
    \A i \in 1 .. Len(toAdapter) :
        toAdapter[i].use = "condition"
        => Current(toAdapter[i].revision, toAdapter[i].stop.no)

LEMMA FetchesHere ==
    ASSUME SafetyInv, TokensInv, RankedInv, PlacedInv, GoneInv, Working,
           NEW p, Sends(p), p.use = "condition"
    PROVE  p.stop.no = target.no /\ AtRest /\ ~Resumes(p.command)
<1>1. Fetches(p) /\ p.command = "work"
    BY Values DEF Sends, Address, Workers
<1>2. Judge.pc = "read" /\ p.stop = Judge.job.stop /\ ConditionEpoch = Judge.job.epoch
    BY <1>1 DEF Fetches, Admits, EpochHolds, Judge
<1>3. Judge.job.epoch # None
    BY <1>2 DEF SafetyInv, Dated, Judge
<1>4. Live /\ session.stopped /\ conditions.active # NoJob /\ Judge.job.epoch = session.revision
    BY <1>2, <1>3 DEF ConditionEpoch, Inspectable, Live
<1>5. Judge.job \in Held(Judge)
    BY <1>2 DEF Held
<1>6. p.stop.no = target.no
    BY <1>2, <1>4, <1>5 DEF RankedInv, PlacedInv
<1>7. AtRest
    BY <1>4 DEF TokensInv, KnowsStop, Still, GoneInv, AtRest, Resuming
<1> QED BY <1>1, <1>6, <1>7 DEF Resumes

LEMMA AskedKept ==
    ASSUME SafetyInv, Types', Addressed, DatesInv, Settling, TokensInv, RankedInv,
           PlacedInv, GoneInv, AskedInv, [Next]_vars
    PROVE  AskedInv'
<1>0. /\ Types
      /\ \A i \in 1 .. Len(toAdapter) : toAdapter[i].revision \in Nat
    <2>1. Types /\ toAdapter \in Seq(Sent)
        BY DEF SafetyInv, Types
    <2>2. \A i \in 1 .. Len(toAdapter) : toAdapter[i] \in Sent
        BY <2>1
    <2> QED BY <2>1, <2>2 DEF Sent
<1> DEFINE Good(q) == q.use = "condition" /\ q.revision = session'.revision
                      => q.stop.no = target'.no /\ AtRest'
<1> SUFFICES ASSUME Working', NEW i \in 1 .. Len(toAdapter') PROVE Good(toAdapter'[i])
    BY DEF AskedInv, Current
<1>1. Working
    BY WorkingBefore
<1>2. \A j \in 1 .. Len(toAdapter) : Good(toAdapter[j])
    <2> SUFFICES ASSUME NEW j \in 1 .. Len(toAdapter), toAdapter[j].use = "condition"
                 PROVE  toAdapter[j].revision = session'.revision
                        => toAdapter[j].stop.no = target'.no /\ AtRest'
        OBVIOUS
    <2> DEFINE r == toAdapter[j].revision
               no == toAdapter[j].stop.no
    <2>1. r \in Nat /\ r <= session.revision /\ Current(r, no)
        BY <1>0, <1>1 DEF DatesInv, AskedInv
    <2> HIDE DEF r, no
    <2>2. r = session'.revision => no = target'.no /\ AtRest'
        BY <1>0, <2>1, CurrentKept
    <2> QED BY <2>2 DEF r, no
<1>3. CASE SendsLittle /\ UNCHANGED target
    <2>1. CASE toAdapter' = toAdapter
        BY <1>2, <2>1
    <2>2. CASE \E p : Sends(p)
        <3>1. PICK p : Sends(p)
            BY <2>2
        <3>2. PICK ps \in SUBSET pending : Goes(p, ps)
            BY <3>1 DEF Sends
        <3>3. /\ Len(toAdapter) \in Nat
              /\ toAdapter'[Len(toAdapter) + 1] = p
              /\ \A j \in 1 .. Len(toAdapter) : toAdapter'[j] = toAdapter[j]
              /\ \A j \in 1 .. Len(toAdapter') :
                    j \in 1 .. Len(toAdapter) \/ j = Len(toAdapter) + 1
            BY <1>0, <3>2, Grown
        <3>4. ASSUME p.use = "condition" PROVE p.stop.no = target'.no /\ AtRest'
            <4>1. p.stop.no = target.no /\ AtRest /\ ~Resumes(p.command)
                BY <1>1, <3>1, <3>4, FetchesHere
            <4>2. \A j \in 1 .. Len(toAdapter') : ~Resumes(toAdapter'[j].command)
                BY <3>3, <4>1 DEF AtRest
            <4> QED BY <1>3, <4>1, <4>2 DEF AtRest
        <3>5. Good(p)
            BY <3>4
        <3> HIDE DEF Good
        <3>6. CASE i \in 1 .. Len(toAdapter)
            BY <1>2, <3>3, <3>6
        <3>7. CASE i = Len(toAdapter) + 1
            BY <3>3, <3>5, <3>7
        <3> QED BY <3>3, <3>6, <3>7
    <2> QED BY <1>3, <2>1, <2>2 DEF SendsLittle
<1> HIDE DEF Good
<1>4. CASE \E p \in Sent, ms \in Seq(Messages) :
               Handle(p, ms, target') /\ Effect(p, ms) /\ Address(p)
    <2>1. PICK p \in Sent, ms \in Seq(Messages) : Handle(p, ms, target')
        BY <1>4
    <2>2. i + 1 \in 1 .. Len(toAdapter) /\ toAdapter'[i] = toAdapter[i + 1]
        BY <1>0, <2>1, Handled
    <2> QED BY <1>2, <2>2
<1>5. CASE Apart \/ AdapterAnswers \/ TargetStops \/ TargetExits \/ Crash
    <2>1. toAdapter' = toAdapter
        BY <1>0, <1>5, TargetEffects DEF Apart, Reports, TargetMoves
    <2> QED BY <1>2, <2>1
<1>6. OwnStep \/ (\E m : MessageStep(m)) => SendsLittle /\ UNCHANGED target
    BY DEF OwnStep, MessageStep
<1>7. ~Shutdown
    BY DEF Shutdown, Working
<1> QED BY <1>3, <1>4, <1>5, <1>6, <1>7, Steps

\* When lldb-dap has found a condition false, and the session is still at the stop
\* it asked about, the condition is false at that stop.
Verdict(m) == m.type = "response" /\ m.request.use = "condition" /\ m.value = "false"
DeniedInv == Working =>
    /\ target.busy.use # "condition" /\ target.launch.use # "condition"
    /\ \A i \in 1 .. Len(fromAdapter) : Verdict(fromAdapter[i]) =>
          LET p == fromAdapter[i].request IN
          /\ p.revision <= session.revision
          /\ p.revision = session.revision => ~p.stop.holds

LEMMA DeniedKept ==
    ASSUME SafetyInv, Types', Addressed, DatesInv, AskedInv, DeniedInv, [Next]_vars
    PROVE  DeniedInv'
<1>0. /\ Types /\ session.revision \in Nat /\ session'.revision \in Nat
      /\ session.revision <= session'.revision
      /\ \A i \in 1 .. Len(fromAdapter) : fromAdapter[i].request.revision \in Nat
    <2>1. /\ Types /\ fromAdapter \in Seq(Messages) /\ session \in Flags /\ session' \in Flags
        BY DEF SafetyInv, Types
    <2>2. \A i \in 1 .. Len(fromAdapter) : fromAdapter[i] \in Messages
        BY <2>1
    <2> QED BY <2>1, <2>2, Monotone DEF Sent, Flags, Messages
<1> DEFINE Good(m) == Verdict(m) =>
              /\ m.request.revision <= session'.revision
              /\ m.request.revision = session'.revision => ~m.request.stop.holds
<1> SUFFICES ASSUME Working'
             PROVE  /\ target'.busy.use # "condition" /\ target'.launch.use # "condition"
                    /\ \A i \in 1 .. Len(fromAdapter') : Good(fromAdapter'[i])
    BY DEF DeniedInv
<1>1. Working
    BY WorkingBefore
<1>2. \A i \in 1 .. Len(fromAdapter) : Good(fromAdapter[i])
    BY <1>0, <1>1 DEF DeniedInv
<1>3. target.busy.use # "condition" /\ target.launch.use # "condition"
      /\ NoOutgoing.use # "condition"
    BY <1>1 DEF DeniedInv, NoOutgoing, Outgoing
<1> HIDE DEF Good
<1>4. CASE OwnStep \/ Apart
    <2>1. fromAdapter' = fromAdapter /\ target' = target
        BY <1>4 DEF OwnStep, Apart
    <2> QED BY <1>2, <1>3, <2>1
<1>5. CASE \E m : MessageStep(m)
    <2>1. fromAdapter # <<>> /\ fromAdapter' = Tail(fromAdapter) /\ target' = target
        BY <1>5 DEF MessageStep
    <2>2. \A i \in 1 .. Len(fromAdapter') :
             i + 1 \in 1 .. Len(fromAdapter) /\ fromAdapter'[i] = fromAdapter[i + 1]
        BY <1>0, <2>1, Heard
    <2> QED BY <1>2, <1>3, <2>1, <2>2
<1>6. CASE \E p \in Sent, ms \in Seq(Messages) :
               Handle(p, ms, target') /\ Effect(p, ms) /\ Address(p)
    <2>1. PICK p \in Sent, ms \in Seq(Messages) :
              Handle(p, ms, target') /\ Effect(p, ms) /\ Address(p)
        BY <1>6
    <2>2. session' = session
        BY <2>1 DEF Handle
    <2>3. p.use \in Workers <=> p.command = "work"
        BY <2>1 DEF Address
    <2>4. target'.busy.use # "condition"
        <3>1. CASE target'.busy = NoOutgoing
            BY <1>3, <3>1
        <3>2. CASE target'.busy # NoOutgoing
            <4>1. /\ target'.busy = p
                  /\ \/ p.command = "setBreakpoints" \/ Resumes(p.command)
                     \/ p.use \in {"function", "panic"}
                BY <2>1, <3>2 DEF Effect, Keeps
            <4> QED BY <2>3, <4>1, Values DEF Resumes, Workers
        <3> QED BY <3>1, <3>2
    <2>5. target'.launch.use # "condition"
        <3>1. \/ target'.launch \in {NoOutgoing, target.launch}
              \/ target'.launch = p /\ p.command = "launch"
            BY <2>1 DEF Effect, Keeps
        <3>2. p.command = "launch" => p.use # "condition"
            BY <2>3, Values DEF Workers
        <3> QED BY <1>3, <3>1, <3>2
    <2>6. ASSUME NEW i \in 1 .. Len(fromAdapter') PROVE Good(fromAdapter'[i])
        <3>1. /\ p = toAdapter[1] /\ 1 \in 1 .. Len(toAdapter)
              /\ \/ i \in 1 .. Len(fromAdapter) /\ fromAdapter'[i] = fromAdapter[i]
                 \/ /\ i - Len(fromAdapter) \in 1 .. Len(ms)
                    /\ fromAdapter'[i] = ms[i - Len(fromAdapter)]
            BY <1>0, <2>1, <2>6, Handled
        <3>2. CASE i \in 1 .. Len(fromAdapter) /\ fromAdapter'[i] = fromAdapter[i]
            BY <1>2, <3>2
        <3>3. CASE /\ i - Len(fromAdapter) \in 1 .. Len(ms)
                   /\ fromAdapter'[i] = ms[i - Len(fromAdapter)]
            <4> DEFINE m == fromAdapter'[i]
            <4>1. Says(p, m)
                BY <2>1, <3>3 DEF Effect, Speaks
            <4> HIDE DEF m
            <4> SUFFICES ASSUME Verdict(m)
                         PROVE  /\ m.request.revision <= session'.revision
                                /\ m.request.revision = session'.revision
                                   => ~m.request.stop.holds
                BY DEF Good, m
            <4>2. m.type = "response" /\ m.request.use = "condition" /\ m.value = "false"
                BY DEF Verdict
            <4>3. m.request # target.launch
                BY <1>3, <4>2
            <4>4. m.request = p /\ (target.no = p.stop.no => ~p.stop.holds)
                BY <4>1, <4>2, <4>3 DEF Says
            <4>5. p.revision <= session.revision
                BY <3>1 DEF DatesInv
            <4>6. p.revision = session.revision => target.no = p.stop.no
                BY <1>1, <3>1, <4>2, <4>4 DEF AskedInv, Current
            <4> QED BY <2>2, <4>4, <4>5, <4>6
        <3> QED BY <3>1, <3>2, <3>3
    <2> QED BY <2>4, <2>5, <2>6
<1>7. CASE AdapterAnswers \/ TargetStops \/ TargetExits \/ Crash
    <2>1. PICK ms \in Seq(Messages) : Reports(ms)
        BY <1>0, <1>7, TargetEffects
    <2>2. target'.busy \in {target.busy, NoOutgoing} /\ target'.launch = target.launch
        BY <2>1 DEF Reports, KeepsPlace, SaysDone, SaysStopped, SaysExited, SaysFailed
    <2>3. \A j \in 1 .. Len(ms) : ms[j].type = "response" => ms[j].request = target.busy
        <3>1. SaysDone(ms) => \A j \in 1 .. Len(ms) : j = 1
            BY DEF SaysDone
        <3>2. SaysExited(ms) => \A j \in 1 .. Len(ms) : j = 1 \/ j = 2
            BY DEF SaysExited
        <3>3. SaysFailed(ms) => \A j \in 1 .. Len(ms) : j = 1
            BY DEF SaysFailed
        <3> QED BY <2>1, <3>1, <3>2, <3>3 DEF Reports, SaysDone, SaysStopped, SaysExited, SaysFailed
    <2>4. ASSUME NEW i \in 1 .. Len(fromAdapter') PROVE Good(fromAdapter'[i])
        <3>1. \/ i \in 1 .. Len(fromAdapter) /\ fromAdapter'[i] = fromAdapter[i]
              \/ /\ i - Len(fromAdapter) \in 1 .. Len(ms)
                 /\ fromAdapter'[i] = ms[i - Len(fromAdapter)]
            BY <1>0, <2>1, <2>4, Moved DEF Reports
        <3> QED BY <1>2, <1>3, <2>3, <3>1 DEF Good, Verdict
    <2> QED BY <1>3, <2>2, <2>4
<1>8. ~Shutdown
    BY DEF Shutdown, Working
<1> QED BY <1>4, <1>5, <1>6, <1>7, <1>8, Steps

\* What the condition worker found false is false at the stop the session is at.
JudgmentInv == Working =>
    (Judge.pc \in {"replied", "done"} /\ Judge.result = "false"
     => /\ Judge.job.epoch <= session.revision
        /\ Judge.job.epoch = session.revision => ~Judge.job.stop.holds)

LEMMA JudgmentKept ==
    ASSUME SafetyInv, Types', Addressed, DatesInv, AwaitedInv, DeniedInv, JudgmentInv,
           Look, [Next]_vars
    PROVE  JudgmentInv'
<1> DEFINE w == "condition"
<1> SUFFICES ASSUME Working', workers'[w].pc \in {"replied", "done"},
                    workers'[w].result = "false"
             PROVE  /\ workers'[w].job.epoch <= session'.revision
                    /\ workers'[w].job.epoch = session'.revision
                       => ~workers'[w].job.stop.holds
    BY DEF JudgmentInv, Judge
<1>1. Working /\ Attends /\ w \in Readers /\ w \in Workers
    BY WorkingBefore, Values DEF Look, Readers
<1>0. /\ Types /\ session.revision \in Nat /\ session'.revision \in Nat
      /\ session.revision <= session'.revision
      /\ workers[w] \in WorkerStates
    <2>1. Types /\ session \in Flags /\ session' \in Flags
        BY DEF SafetyInv, Types
    <2> QED BY <1>1, <2>1, Monotone DEF Flags, Types
<1>2. workers[w].job.epoch \in Revisions
    <2> DEFINE me == workers[w]
    <2>1. me \in WorkerStates
        BY <1>0
    <2> HIDE DEF me
    <2>2. me.job.epoch \in Revisions
        BY <2>1 DEF WorkerStates, Orders
    <2> QED BY <2>2 DEF me
<1>3. ASSUME workers'[w].job = workers[w].job,
             workers[w].job.epoch <= session.revision,
             workers[w].job.epoch = session.revision => ~workers[w].job.stop.holds
      PROVE  /\ workers'[w].job.epoch <= session'.revision
             /\ workers'[w].job.epoch = session'.revision
                => ~workers'[w].job.stop.holds
    BY <1>0, <1>2, <1>3 DEF Revisions, None
<1> HIDE DEF w
<1>4. CASE Unread(workers'[w])
    BY <1>4 DEF Unread
<1>5. CASE Keeping(workers[w], workers'[w])
    <2>1. /\ workers'[w].job = workers[w].job
          /\ workers[w].pc \in {"replied", "done"} /\ workers[w].result = "false"
        BY <1>5 DEF Keeping
    <2>2. /\ workers[w].job.epoch <= session.revision
          /\ workers[w].job.epoch = session.revision => ~workers[w].job.stop.holds
        BY <1>1, <2>1 DEF JudgmentInv, Judge, w
    <2> QED BY <1>3, <2>1, <2>2
<1>6. CASE Asking(w)
    BY <1>6 DEF Asking
<1>7. CASE \E m : Getting(w, m)
    <2>1. PICK m : Getting(w, m)
        BY <1>7
    <2>2. /\ fromAdapter # <<>> /\ m = Head(fromAdapter) /\ m.type = "response"
          /\ m.request \in pending /\ m.request.use = w
          /\ workers[w].pc = "wait" /\ workers[w].seq = m.request.seq
          /\ workers'[w].job = workers[w].job
          /\ workers'[w].result = m.value
        BY <2>1 DEF Getting
    <2>3. m = fromAdapter[1] /\ 1 \in 1 .. Len(fromAdapter)
        <3>1. fromAdapter \in Seq(Messages)
            BY <1>0 DEF Types
        <3> QED BY <2>2, <3>1, Tails
    <2>4. Verdict(m)
        BY <2>2 DEF Verdict, w
    <2>5. /\ m.request.revision <= session.revision
          /\ m.request.revision = session.revision => ~m.request.stop.holds
        BY <1>1, <2>3, <2>4 DEF DeniedInv
    <2>6. PICK p \in pending : /\ p.seq = workers[w].seq /\ p.revision = workers[w].job.epoch
                               /\ p.stop = workers[w].job.stop
        BY <1>1, <2>2 DEF AwaitedInv, Awaited
    <2>7. p = m.request
        BY <2>2, <2>6 DEF DatesInv
    <2> QED BY <1>3, <2>2, <2>5, <2>6, <2>7
<1> QED BY <1>1, <1>4, <1>5, <1>6, <1>7 DEF Attends

-----------------------------------------------------------------------------
(* Together: the invariant, and what it says of a skip.                      *)

TruthInv == /\ RankedInv /\ RuledInv /\ PlacedInv /\ GoneInv
            /\ AskedInv /\ DeniedInv /\ JudgmentInv

LEMMA InitTruth == Init => TruthInv
<1> SUFFICES ASSUME Init PROVE TruthInv
    OBVIOUS
<1> DEFINE p == Outgoing(1, NoRequest, "initialize", "client", "none", NoStop, 0, 0)
           e == <<>>
           s == <<p>>
<1>1. /\ toAdapter \in {e, s} /\ fromAdapter = e /\ breakpoints.stops = e
      /\ conditions.active = NoJob
      /\ Judge.pc = "idle" /\ Judge.queue = e
      /\ target.busy = NoOutgoing /\ target.launch = NoOutgoing /\ target.alive
    BY DEF Init, Judge, Workers
<1>2. Len(e) = 0 /\ Len(s) = 1 /\ s[1] = p
    BY Short
<1>3. p.use # "condition" /\ NoOutgoing.use # "condition"
    BY DEF Outgoing, NoOutgoing
<1> HIDE DEF p, e, s
<1>4. Len(fromAdapter) = 0 /\ Len(breakpoints.stops) = 0 /\ Len(Judge.queue) = 0
    BY <1>1, <1>2
<1>5. InRank(Judge) /\ Held(Judge) = {} /\ StopsOf(breakpoints) = {}
    BY <1>1, <1>4 DEF InRank, Held, StopsOf
<1>6. \A i \in 1 .. Len(toAdapter) : toAdapter[i].use # "condition"
    <2>1. CASE toAdapter = e
        BY <1>2, <2>1
    <2>2. CASE toAdapter = s
        <3>1. Len(toAdapter) = 1 /\ toAdapter[1] = p
            BY <1>2, <2>2
        <3>2. \A i \in 1 .. Len(toAdapter) : i = 1
            BY <3>1
        <3> QED BY <1>3, <3>1, <3>2
    <2> QED BY <1>1, <2>1, <2>2
<1>7. RankedInv /\ RuledInv /\ PlacedInv
    BY <1>1, <1>5 DEF RankedInv, RuledInv, PlacedInv
<1>8. GoneInv /\ AskedInv
    BY <1>1, <1>6 DEF GoneInv, AskedInv
<1>9. DeniedInv
    BY <1>1, <1>3, <1>4 DEF DeniedInv
<1>10. JudgmentInv
    BY <1>1 DEF JudgmentInv
<1> QED BY <1>7, <1>8, <1>9, <1>10 DEF TruthInv

LEMMA TruthHolds ==
    ASSUME ~PairedStops
    PROVE  Spec => [](OrderInv /\ SightInv /\ TruthInv)
<1>1. OrderInv /\ ReadsInv /\ TruthInv /\ [Next]_vars => TruthInv'
    <2> SUFFICES ASSUME OrderInv, ReadsInv, TruthInv, [Next]_vars PROVE TruthInv'
        OBVIOUS
    <2>1. /\ SafetyInv /\ Addressed /\ StartsOnce /\ DrainsAtRest
          /\ EditsInv /\ TokensInv /\ HeldInv
          /\ DatesInv /\ AwaitedInv
        BY DEF OrderInv, FlowInv, AnswersInv, ReadsInv
    <2>2. Types'
        BY <2>1, TypesInductive DEF SafetyInv
    <2>3. Look /\ Settling
        BY <2>1, LookSteps, Settles
    <2>4. RankedInv' /\ RuledInv' /\ PlacedInv' /\ GoneInv'
        BY <2>1, <2>2, RankedKept, RuledKept, PlacedKept, GoneKept DEF TruthInv
    <2>5. AskedInv' /\ DeniedInv' /\ JudgmentInv'
        BY <2>1, <2>2, <2>3, AskedKept, DeniedKept, JudgmentKept DEF TruthInv
    <2> QED BY <2>4, <2>5 DEF TruthInv
<1> QED BY <1>1, InitTruth, SightHolds, ReadsHold, PTL DEF Spec

\* A stop is skipped only when all it hit is conditional and its conditions are
\* false there, and the editor never saw it.  The verdict the loop acts on was
\* asked at the stop the session is at, which is the stop the target is at; no
\* breakpoint changes while a stop is evaluated; and a stop under evaluation is
\* hidden from the editor.  The target is one that reports each stop once.
THEOREM OnlyFalseOnesSkip == ASSUME ~PairedStops PROVE Spec => OnlyFalseConditionsSkip
<1> DEFINE Skipped == \A p \in pending' \ pending :
              p.use = "conditionContinue" =>
                  /\ p.stop.ids # {} /\ ~p.stop.holds
                  /\ \A b \in p.stop.ids :
                        b # "panic" /\ conditions.bindings[b] = "conditional"
                  /\ client.view # "stopped"
<1>1. OrderInv /\ SightInv /\ TruthInv /\ [Next]_vars => Skipped
    <2> SUFFICES ASSUME OrderInv, SightInv, TruthInv, [Next]_vars,
                        NEW p \in pending' \ pending, p.use = "conditionContinue"
                 PROVE  /\ p.stop.ids # {} /\ ~p.stop.holds
                        /\ \A b \in p.stop.ids :
                              b # "panic" /\ conditions.bindings[b] = "conditional"
                        /\ client.view # "stopped"
        OBVIOUS
    <2>1. SafetyInv /\ Addressed /\ Types
        BY DEF OrderInv, FlowInv, SafetyInv
    <2>2. Sends(p) /\ Working
        <3>1. CASE SendsLittle /\ Working
            <4>1. PICK q : Sends(q)
                BY <3>1 DEF SendsLittle
            <4>2. PICK ps \in SUBSET pending : Goes(q, ps)
                BY <4>1 DEF Sends
            <4>3. p = q
                BY <4>2 DEF Goes
            <4> QED BY <3>1, <4>1, <4>3
        <3>2. CASE \/ Apart \/ AdapterAnswers \/ TargetStops \/ TargetExits \/ Crash
                   \/ \E r \in Sent, ms \in Seq(Messages) : Handle(r, ms, target')
            <4>1. pending' = pending
                BY <2>1, <3>2, TargetEffects
                   DEF Apart, Handle, Reports, TargetMoves
            <4> QED BY <4>1
        <3>3. OwnStep \/ (\E m : MessageStep(m)) => SendsLittle /\ Working
            BY DEF OwnStep, MessageStep, Lasts
        <3>4. ~Shutdown
            BY LastWord
        <3> QED BY <2>1, <3>1, <3>2, <3>3, <3>4, Steps
    <2>3. /\ p.stop = conditions.active.stop /\ ConditionEpoch # None
          /\ Judge.pc = "done" /\ Judge.result = "false"
          /\ Judge.job.epoch = session.revision
        BY <2>2 DEF Sends, Skips, Judge
    <2>4. Live /\ conditions.active # NoJob
        BY <2>2, <2>3 DEF ConditionEpoch, Inspectable, Live
    <2>5. Judge.job \in Held(Judge)
        BY <2>3 DEF Held
    <2>6. Judge.job = conditions.active
        BY <2>3, <2>4, <2>5 DEF TruthInv, RankedInv
    <2>7. ~p.stop.holds
        BY <2>2, <2>3, <2>6 DEF TruthInv, JudgmentInv
    <2>8. AllConditional(p.stop)
        BY <2>3, <2>4 DEF TruthInv, RuledInv
    <2>9. client.view # "stopped"
        BY <2>4 DEF SightInv, ViewInv, Stands, Seen, Hidden
    <2> QED BY <2>7, <2>8, <2>9 DEF AllConditional
<1>2. OrderInv /\ SightInv /\ TruthInv /\ [Next]_vars => [Skipped]_vars
    BY <1>1
<1> QED BY <1>2, TruthHolds, PTL DEF Spec, OnlyFalseConditionsSkip

=============================================================================
