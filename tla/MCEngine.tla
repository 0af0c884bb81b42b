------------------------------ MODULE MCEngine ------------------------------
(***************************************************************************)
(* The properties of Engine.                                               *)
(***************************************************************************)
EXTENDS Engine

\* Types; what is published is complete, and a thread that does not call
\* holds no reference.
TypeOK ==
    /\ slot \in EngineOrNone
    /\ {poisoned, aborted} \subseteq BOOLEAN
    /\ life \in [Lives -> {"clearing", "stopping", "creating", "connecting", "binding", "publishing"} \cup Over]
    /\ kind \in [Starts -> {"dlna", "bilibili"}]
    /\ rt \in [Engines -> {"none", "starting", "running", "dropped"}]
    /\ server \in [Engines -> {"none", "up", "down"}]
    /\ notify \in EngineOrNone
    /\ call \in [Callers -> Call]
    /\ task \in [Callers -> EngineOrNone]
    /\ crossed \subseteq Lives
    /\ slot # NoEngine => rt[slot] = "running"
    /\ \A c \in Callers : call[c].pc = "idle" => call[c] = NoCall

\* No start panics while it holds ENGINE_STATE: the lock stays usable
\* (startEngine: "match instead of expect, so that no panic poisons the
\* global lock").  Two starts at once break it: the second finds the engine
\* of the first in the slot and drops it inside its own future.
NeverPoisoned == ~poisoned

\* An engine that can be used and casts to DLNA has a media server to play
\* from, unless another start or reset was under way during its own start:
\* that one may have used the shared handle to stop the new server
\* (connect_dlna_device, reset_engine).  Others may overlap as they like.
ServerIsUp ==
    slot \notin crossed \cup {NoEngine} /\ kind[slot] = "dlna" /\ ~poisoned => server[slot] = "up"

\* Nobody works with an engine whose runtime is gone.
OwnersKeepRuntime ==
    \A c \in Callers :
        {call[c].outer, call[c].inner, task[c]} \ {NoEngine} \subseteq {e \in Engines : rt[e] = "running"}

\* A command waits inside its own read guard for a writer who waits for it.
SelfLocked == \E c \in Callers : call[c].op = "nested" /\ call[c].pc = "reentering" /\ ~Readable

\* Every call comes to its end, unless a command has locked itself out.
CallsReturn == \A c \in Callers : call[c].pc # "idle" ~> (call[c].pc = "idle" \/ SelfLocked \/ aborted)

\* An engine that has been replaced or reset gives its runtime and its port
\* back once the calls and tasks that use it are over: nothing it runs itself
\* keeps it alive.
OldEnginesEnd ==
    \A e \in Engines :
        (rt[e] = "running" /\ slot # e) ~> ((rt[e] = "dropped" /\ server[e] # "up") \/ SelfLocked \/ aborted)

=============================================================================
