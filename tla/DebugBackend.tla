---------------------------- MODULE DebugBackend ----------------------------
(***************************************************************************)
(* What DebugSession may rely on when it calls a DebugBackend                *)
(* (src/debugger/backend.mbt), whatever the protocol behind it: a call is    *)
(* answered once, an execution is kept exactly as long as its answers say so, *)
(* and a stop has the breakpoints that were asked for.                       *)
(***************************************************************************)
CONSTANTS
    Points,       \* breakpoints that may be installed
    Names         \* the calls: "launch", "resume", "sync" and those that look

VARIABLES
    call,     \* the call in progress and the breakpoints it asks for
    held,     \* whether an execution is kept
    ended,    \* whether the backend saw the end of the program it still keeps
    config,   \* the breakpoints installed in it
    answer    \* how the last call was answered

contract == <<call, held, ended, config, answer>>

NoCall == [name |-> "none", want |-> {}]
Waiting == call # NoCall

Init == call = NoCall /\ ~held /\ ~ended /\ config = {} /\ answer = "none"

\* Everything but a launch and the end of the session needs a stopped program.
Call(name, want) ==
    /\ ~Waiting
    /\ name \notin {"launch", "quit", "stack"} => held /\ ~ended
    /\ call' = [name |-> name, want |-> want]
    /\ answer' = "none"
    /\ UNCHANGED <<held, ended, config>>

\* The program of an earlier stop ended unnoticed by the session: the call is
\* refused, and nothing is done about it.
Refuse ==
    /\ held /\ ended
    /\ call' = NoCall
    /\ answer' \in {"refused", "rejected"}
    /\ UNCHANGED <<held, ended, config>>

\* While it is called, the backend may replace its execution and change the
\* breakpoints, but only a launch or a synchronization changes them in one.
Work ==
    /\ Waiting
    /\ held' \in BOOLEAN /\ ended' \in BOOLEAN
    /\ held' => held \/ call.name = "launch"
    /\ ended' => held'
    /\ \/ call.name \in {"launch", "sync"} /\ config' \in SUBSET Points
       \/ config' = IF held' THEN config ELSE {}
    /\ UNCHANGED <<call, answer>>

Answer(is) == Waiting /\ call' = NoCall /\ answer' = is

\* A stop: of a new program, with the breakpoints the launch was given, or of
\* the one that was resumed, with those it had.
AnswerStopped ==
    /\ call.name \in {"launch", "resume"}
    /\ held /\ ~ended
    /\ call.name = "launch" => config = call.want
    /\ Answer("stopped")
    /\ UNCHANGED <<held, ended, config>>

\* Only a synchronization can be done with a program that ended meanwhile.
AnswerDone ==
    /\ call.name \notin {"launch", "resume", "quit"}
    /\ held
    /\ IF call.name = "sync" THEN config = call.want ELSE ~ended
    /\ Answer("done")
    /\ UNCHANGED <<held, ended, config>>

\* Nothing is kept of a program that ended or was given up, so that the next
\* launch starts afresh.
AnswerEnded ==
    /\ \E is \in {"exited", "failed", "closed"} : Answer(is)
    /\ held' = FALSE /\ ended' = FALSE /\ config' = {}

AnswerUnreadable ==
    /\ call.name = "find" /\ held /\ ~ended
    /\ Answer("unreadable")
    /\ UNCHANGED <<held, ended, config>>

Next ==
    \/ \E name \in Names, want \in SUBSET Points : Call(name, want)
    \/ Refuse \/ Work
    \/ AnswerStopped \/ AnswerDone \/ AnswerEnded \/ AnswerUnreadable

Spec == Init /\ [][Next]_contract

=============================================================================
