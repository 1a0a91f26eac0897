---------------------------- MODULE MCPodProvider ----------------------------
\* Instances of PodProvider: pods whose keys differ.
EXTENDS PodProvider

OwnKeys == [n \in Names |-> n]
=============================================================================
