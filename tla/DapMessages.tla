----------------------------- MODULE DapMessages -----------------------------
(***************************************************************************)
(* DAP messages as far as moondbg tells them apart (src/dap), and the inbox *)
(* of the dispatcher: a response is for the request whose number it carries, *)
(* and is kept until somebody waits for that request.                       *)
(***************************************************************************)
EXTENDS Integers, Sequences

NoThread == 0

\* What a request is about: the source file or the command line of a breakpoint
\* request, the breakpoints it carries, the thread of a resumption.
Request(seq, command, on, points, thread) ==
    [seq |-> seq, command |-> command, on |-> on, points |-> points,
     thread |-> thread]

\* full: a window of stack frames after which there may be more.
Response(req, ok) ==
    [kind |-> "response", to |-> req.seq, name |-> req.command, ok |-> ok,
     thread |-> NoThread, full |-> FALSE]

EventOf(name, thread) ==
    [kind |-> "event", to |-> 0, name |-> name, ok |-> TRUE, thread |-> thread,
     full |-> FALSE]

Event(name) == EventOf(name, NoThread)

IsResponse(m) == m.kind = "response"
IsEvent(m) == m.kind = "event"

-----------------------------------------------------------------------------
(* DapInbox: the responses nobody asked for yet.                             *)

NoRequest == -1

Buffered(inbox, seq) == \E m \in inbox : m.to = seq

\* take_response
Taken(inbox, seq) == CHOOSE m \in inbox : m.to = seq
Without(inbox, m) == inbox \ {m}

\* route, for a client that waits for request seq, or for NoRequest.
Matches(m, seq) == IsResponse(m) /\ m.to = seq

\* buffer_response: a second response to one request is an error.
IsDuplicate(inbox, m) == Buffered(inbox, m.to)

-----------------------------------------------------------------------------
(* ProcessDapTransport: an adapter process and its two pipes.  What it wrote *)
(* stays readable when it is gone.  When the client closes it, `open` ends with *)
(* both pipes and the process: nobody sees what it still does.               *)

Running == -1
Cancelled == -9

Process == [requests |-> <<>>, messages |-> <<>>, exit |-> Running, open |-> TRUE]

IsUp(a) == a.exit = Running

\* A write to a process that is gone fails.
Writable(a) == a.open /\ IsUp(a)

\* receive_message raises AdapterClosed.
AtEnd(a) == a.messages = <<>> /\ ~IsUp(a)

Written(a, req) == [a EXCEPT !.requests = Append(@, req)]
Read(a) == [a EXCEPT !.messages = Tail(@)]
Sent(a, ms) == [a EXCEPT !.messages = @ \o ms]
Answered(a, ms) == [Sent(a, ms) EXCEPT !.requests = Tail(@)]
Closed(a) == [Process EXCEPT !.exit = Cancelled, !.open = FALSE]

=============================================================================
