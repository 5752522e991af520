--------------------------- MODULE MCLiveSession ---------------------------
(***************************************************************************)
(* LiveSession for TLC.  Each model lets the editor use the requests of one *)
(* part of the protocol; the constants of a model are named for that part. *)
(***************************************************************************)
EXTENDS LiveSession

\* The editor changes breakpoints around stops and resumes.
EditCommands == {"setBreakpoints", "setFunctionBreakpoints", "continue", "pause"}
EditHits == {{"source"}, {"source", "function"}}

EditKinds == Kinds \ {"invalid"}

\* The editor looks at a stop while it resumes or leaves.
InspectCommands == {"stackTrace", "variables", "continue", "next"}
InspectHits == {{}}

\* The editor configures the session, starts it and ends it.
LaunchCommands == {"setExceptionBreakpoints", "configurationDone", "threads",
                   "disconnect"}
LaunchHits == {{}, {"panic"}}

\* The smallest set with breakpoint work, a resume and a pause.
PairCommands == {"setBreakpoints", "continue"}
PairHits == {{}, {"source"}}

\* Requests that wait for workers, for lldb-dap and for one another.
ServedCommands == {"setBreakpoints", "setFunctionBreakpoints", "continue",
                   "stackTrace"}

=============================================================================
