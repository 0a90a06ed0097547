------------------------ MODULE MCCaptureSupervisor ------------------------
\* Two sources: the required one has an agent at work and hooks, the other one
\* only lies there.
EXTENDS CaptureSupervisor

MCOrder == <<"codex", "events">>
MCInitialFiles == {[codex |-> c, events |-> <<"x", NL>>] : c \in {Missing, <<"x", NL>>}}
MCConfigs == {[codex |-> TRUE, events |-> FALSE]}
MCMaxFaults == [append |-> 1, replace |-> 1, hooks |-> 1, any |-> 0]
=============================================================================
