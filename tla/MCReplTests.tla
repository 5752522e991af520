----------------------------- MODULE MCReplTests -----------------------------
EXTENDS ReplTests

Source(path) == [kind |-> "source", path |-> path]
Family == [kind |-> "family", path |-> "none"]

\* The breakpoints of the tests.
TestBreakpoints ==
    [p \in 1 .. 9 |-> IF p = 2 THEN Source("main")
                      ELSE IF p = 9 THEN Source("fake") ELSE Family]

=============================================================================
