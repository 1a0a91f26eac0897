-------------------------- MODULE MCPodTermination --------------------------
\* Instances of PodTermination: one container; a container that runs and one
\* that never started; one pid or two.
EXTENDS PodTermination

CONSTANTS c1, c2, lead, pid2

OneContainer == {c1}
OneLeader == [c \in {c1} |-> lead]
TwoPids == {lead, pid2}

TwoContainers == {c1, c2}
TwoLeaders == [c \in {c1, c2} |-> IF c = c1 THEN lead ELSE NoGroup]
OnePid == {lead}
=============================================================================
