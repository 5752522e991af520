----------------------------- MODULE MCLldbSystem -----------------------------
EXTENDS LldbSystem

\* A source line with a condition and a family.
SourceAndFamily ==
    <<[kind |-> "source", path |-> "a"], [kind |-> "family", path |-> "none"]>>

\* One breakpoint of each kind.
Mixed == <<[kind |-> "source", path |-> "a"], [kind |-> "exact", path |-> "none"],
           [kind |-> "family", path |-> "none"]>>

=============================================================================
