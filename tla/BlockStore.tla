----------------------------- MODULE BlockStore -----------------------------
(***************************************************************************)
(* What the cache of a song's blocks promises, whatever reads are dropped, *)
(* downloads fail and objects are made anew for the same block: it keeps   *)
(* no more blocks than fit, a block that is used stays, with its file, and *)
(* a reading that is told its file is complete can rely on it.  SongCache  *)
(* is shown to implement this.                                             *)
(***************************************************************************)
EXTENDS Integers, FiniteSets

CONSTANTS Keys, NoKey, Readings, Writings, capacity

VARIABLES
    kept,      \* the blocks with a place in the store
    complete,  \* those of them whose file is complete
    reading,   \* the block each reading uses, or NoKey
    writing,   \* the block each writing writes, or NoKey
    told       \* the readings that were told that their file is complete

vars == <<kept, complete, reading, writing, told>>

Used == ({reading[f] : f \in Readings} \cup {writing[w] : w \in Writings}) \ {NoKey}

Init ==
    /\ kept = {} /\ complete = {} /\ told = {}
    /\ reading = [f \in Readings |-> NoKey]
    /\ writing = [w \in Writings |-> NoKey]

\* Blocks go with their files, if nobody uses them any more.
Removes(gone) ==
    /\ gone \subseteq kept
    /\ gone \cap Used' = {}
    /\ kept' = kept \ gone

EndsReading(readings) ==
    reading' = [f \in Readings |-> IF f \in readings THEN NoKey ELSE reading[f]]

\* A block that is kept is shared; a new one needs a free place.
Asks(f, key) ==
    /\ reading[f] = NoKey
    /\ key \in kept \/ Cardinality(kept) < capacity
    /\ kept' = kept \cup {key}
    /\ reading' = [reading EXCEPT ![f] = key]
    /\ UNCHANGED <<complete, writing, told>>

IsTold(f) ==
    /\ reading[f] \in complete
    /\ told' = told \cup {f}
    /\ UNCHANGED <<kept, complete, reading, writing>>

\* Only a reading that was not told so has its block written.
Writes(w, f) ==
    /\ writing[w] = NoKey
    /\ reading[f] # NoKey /\ f \notin told
    /\ writing' = [writing EXCEPT ![w] = reading[f]]
    /\ UNCHANGED <<kept, complete, reading, told>>

\* Readings end, or blocks go although none does.
Ends(readings, gone) ==
    /\ EndsReading(readings)
    /\ told' = told \ readings
    /\ Removes(gone)
    /\ complete' = complete \ gone
    /\ UNCHANGED writing

\* The readings that wait for a writing.
Waiting(w) == {f \in Readings \ told : reading[f] = writing[w]}

IsWritten(w, readings, gone) ==
    /\ writing[w] # NoKey /\ readings \subseteq Waiting(w)
    /\ writing' = [writing EXCEPT ![w] = NoKey]
    /\ told' = told \cup readings
    /\ Removes(gone)
    /\ complete' = (complete \cup {writing[w]}) \ gone
    /\ UNCHANGED reading

\* A failure ends the readings that wait for it, and touches no file.
IsNotWritten(w, readings, gone) ==
    /\ writing[w] # NoKey /\ readings \subseteq Waiting(w)
    /\ writing' = [writing EXCEPT ![w] = NoKey]
    /\ EndsReading(readings)
    /\ Removes(gone)
    /\ complete' = complete \ gone
    /\ UNCHANGED told

Next ==
    \/ \E f \in Readings : IsTold(f) \/ \E key \in Keys : Asks(f, key)
    \/ \E w \in Writings, f \in Readings : Writes(w, f)
    \/ \E readings \in SUBSET Readings, gone \in SUBSET Keys :
          \/ Ends(readings, gone)
          \/ \E w \in Writings :
                IsWritten(w, readings, gone) \/ IsNotWritten(w, readings, gone)

Spec == Init /\ [][Next]_vars
=============================================================================
