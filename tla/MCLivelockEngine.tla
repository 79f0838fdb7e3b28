--------------------------- MODULE MCLivelockEngine ---------------------------
(* Small instances of LivelockEngine.                                        *)
EXTENDS LivelockEngine

Watch(window, threshold, action, fallback) ==
    [otel |-> TRUE, window |-> window, threshold |-> threshold,
     action |-> action, fallback |-> fallback, pods |-> Pods]

\* Two policies on one pod, with different windows and different remedies.
TwoSpecs == [q \in {"evict", "suspend"} |->
                IF q = "evict"
                THEN Watch(1, 1, "InjectFault", "EvictPod")
                ELSE Watch(2, 2, "SuspendWorkload", "EvictPod")]

\* One policy, whose window is as long as the cooldown.
SuspendSpec == [q \in {"suspend"} |->
                   Watch(2, 2, "SuspendWorkload", "EvictPod")]

\* One policy for three ticks, longer than the engine's interval.
PacedSpec == [q \in {"evict"} |-> Watch(3, 2, "EvictPod", "EvictPod")]

\* A pod of a Deployment, and one nobody owns.
OwnedPod  == [p \in {"agent"} |-> "agents"]
OrphanPod == [p \in {"agent"} |-> NoOwner]
=============================================================================
