---------------------------- MODULE EngineProofs ----------------------------
(***************************************************************************)
(* What MCEngine checks for two starts, a reset and a thread, proved       *)
(* for any number of them, in whatever order they come and however they    *)
(* overlap: nobody uses a runtime that is gone, and an engine whose start  *)
(* met no other one under way has its media server as long as it is used.  *)
(***************************************************************************)
EXTENDS MCEngine, TLAPS

\* A start makes its own engine, in order.
Progress ==
    /\ \A s \in Starts : life[s] \in {"off", "clearing", "stopping", "creating"} => rt[s] = "none"
    /\ \A s \in Starts : life[s] \in {"connecting", "binding", "publishing"} => rt[s] = "starting"

\* A start that met nobody is alone under way, has its server once it has
\* announced it, and nobody who could stop that server is past the point
\* where the engine leaves its slot.
Alone == \A p \in Lives \ crossed : life[p] \notin Over => \A q \in Lives \ {p} : life[q] \in Over
Announced ==
    \A s \in Starts \ crossed : life[s] = "publishing" /\ kind[s] = "dlna" => server[s] = "up"
Settled ==
    slot \notin crossed \cup {NoEngine} /\ ~poisoned => \A p \in Lives : life[p] \in Over \cup {"clearing"}

EngineInv ==
    TypeOK /\ Progress /\ Alone /\ Announced /\ Settled /\ ServerIsUp /\ OwnersKeepRuntime

\* The engines somebody other than the slot refers to.
Held(calls, tasks, e) == \E c \in Callers : e \in {calls[c].outer, calls[c].inner, tasks[c]}

-----------------------------------------------------------------------------

LEMMA InitHolds == Init => EngineInv
<1> SUFFICES ASSUME Init PROVE EngineInv
    OBVIOUS
<1> USE EngineAssumption DEF Init
<1>1. TypeOK
  <2>1. /\ slot \in EngineOrNone /\ notify \in EngineOrNone /\ NoCall \in Call
        /\ {poisoned, aborted} \subseteq BOOLEAN
    BY DEF EngineOrNone, NoCall, Call, Ops
  <2> QED
      BY <2>1 DEF TypeOK, EngineOrNone, Over
<1>2. OwnersKeepRuntime
  BY DEF OwnersKeepRuntime, NoCall
<1>3. Alone /\ Announced /\ Settled /\ ServerIsUp
  BY DEF Alone, Announced, Settled, ServerIsUp, Over, Lives
<1>4. Progress
  BY DEF Progress, Lives, Engines
<1> QED
  BY <1>1, <1>2, <1>3, <1>4 DEF EngineInv

\* The last owner takes a running engine along; everything else stays.
LEMMA CollectsTheUnowned ==
    ASSUME TypeOK, NEW newSlot, NEW newCall, NEW newTask, Collects(newSlot, newCall, newTask)
    PROVE  /\ rt' \in [Engines -> {"none", "starting", "running", "dropped"}]
           /\ server' \in [Engines -> {"none", "up", "down"}]
           /\ \A e \in Engines :
                 \/ rt'[e] = rt[e] /\ server'[e] = server[e]
                 \/ rt[e] = "running" /\ newSlot # e /\ ~Held(newCall, newTask, e)
BY DEF TypeOK, Collects, Unowned, Held

\* So a step of this kind, which adds no reference but to the engine in the
\* slot, keeps what is said of engines.
LEMMA CollectingIsSafe ==
    ASSUME EngineInv,
           Collects(slot', call', task'), slot' \in {slot, NoEngine},
           \A e \in Engines : Held(call', task', e) => Held(call, task, e) \/ e = slot,
           call' \in [Callers -> Call], task' \in [Callers -> EngineOrNone],
           UNCHANGED <<kind, crossed, poisoned>>
    PROVE  /\ slot' # NoEngine => rt'[slot'] = "running"
           /\ ServerIsUp' /\ OwnersKeepRuntime'
           /\ \A e \in Engines : rt[e] # "running" => rt'[e] = rt[e] /\ server'[e] = server[e]
<1>1. TypeOK
  BY DEF EngineInv
<1>2. \A e \in Engines : \/ rt'[e] = rt[e] /\ server'[e] = server[e]
                         \/ rt[e] = "running" /\ slot' # e /\ ~Held(call', task', e)
  BY <1>1, CollectsTheUnowned
<1>3. slot' # NoEngine => slot' \in Engines /\ slot' = slot /\ rt[slot] = "running"
  BY <1>1 DEF TypeOK, EngineOrNone
<1>4. \A e \in Engines : Held(call, task, e) => rt[e] = "running"
  BY EngineAssumption DEF EngineInv, OwnersKeepRuntime, Held, Engines
<1>5. \A e \in Engines : Held(call', task', e) => rt'[e] = "running"
  BY <1>1, <1>2, <1>4, EngineAssumption DEF TypeOK, Engines
<1>6. ServerIsUp'
  BY <1>2, <1>3 DEF EngineInv, ServerIsUp
<1>7. OwnersKeepRuntime'
  BY <1>5 DEF OwnersKeepRuntime, Held, Call, EngineOrNone
<1> QED
  BY <1>2, <1>3, <1>6, <1>7

-----------------------------------------------------------------------------
(* Starts and resets.                                                      *)

PCs == {"clearing", "stopping", "creating", "connecting", "binding", "publishing"}

\* A step that touches neither the engines nor the references.
LEMMA PlainStep ==
    ASSUME EngineInv, UNCHANGED <<slot, poisoned, aborted, kind, rt, server, notify, task, crossed>>,
           call' \in [Callers -> Call],
           \A c \in Callers : call'[c].pc = "idle" => call'[c] = NoCall,
           \A c \in Callers : {call'[c].outer, call'[c].inner} \subseteq {call[c].outer, call[c].inner, slot, NoEngine},
           life' = life
    PROVE  EngineInv'
<1>1. TypeOK'
  BY DEF EngineInv, TypeOK
<1>2. OwnersKeepRuntime'
  <2>1. slot # NoEngine => slot \in Engines /\ rt[slot] = "running"
    BY DEF EngineInv, TypeOK, EngineOrNone
  <2> QED
    BY <2>1 DEF EngineInv, OwnersKeepRuntime
<1> QED
  BY <1>1, <1>2 DEF EngineInv, Progress, Alone, Announced, Settled, ServerIsUp

\* A start or reset under way goes on to another place.
LEMMA LifeStep ==
    ASSUME EngineInv, NEW p \in Lives, NEW pc \in PCs \cup Over, Moves(p, pc),
           life[p] \notin Over, crossed' = crossed
    PROVE  /\ life' \in [Lives -> PCs \cup Over] /\ life'[p] = pc
           /\ \A q \in Lives \ {p} : life'[q] = life[q]
           /\ Alone'
BY DEF EngineInv, TypeOK, Alone, Moves, PCs

LEMMA BeginsHolds ==
    ASSUME EngineInv, NEW p \in Lives, Begins(p), aborted' = aborted
    PROVE  EngineInv'
<1>0. TypeOK
  BY DEF EngineInv
<1>1. /\ life[p] = "off" /\ life' \in [Lives -> PCs \cup Over] /\ life'[p] = "clearing"
      /\ \A q \in Lives \ {p} : life'[q] = life[q]
  BY <1>0 DEF Begins, Moves, TypeOK, PCs
<1>2. /\ crossed' \subseteq Lives /\ crossed \subseteq crossed'
      /\ UnderWay # {} => UnderWay \cup {p} \subseteq crossed'
  BY <1>0 DEF Begins, Crosses, UnderWay, TypeOK
<1>3. UNCHANGED <<slot, poisoned, aborted, kind, rt, server, notify, call, task>>
  BY DEF Begins
<1>4. TypeOK'
  BY <1>0, <1>1, <1>2, <1>3 DEF TypeOK, PCs
<1>5. Progress' /\ Announced'
  BY <1>1, <1>2, <1>3 DEF EngineInv, Progress, Announced, Lives
<1>6. Alone'
  <2>1. \A q \in Lives : life[q] \notin Over => q \in UnderWay
    BY DEF UnderWay
  <2> QED
    BY <1>1, <1>2, <2>1 DEF Alone
<1>7. Settled' /\ ServerIsUp'
  BY <1>1, <1>2, <1>3 DEF EngineInv, Settled, ServerIsUp
<1>8. OwnersKeepRuntime'
  BY <1>3 DEF EngineInv, OwnersKeepRuntime
<1> QED
  BY <1>4, <1>5, <1>6, <1>7, <1>8 DEF EngineInv

\* Where the lock is poisoned or empty, nothing is said of the slot.
LEMMA SlotIsOut ==
    ASSUME poisoned \/ slot = NoEngine
    PROVE  Settled /\ ServerIsUp
BY DEF Settled, ServerIsUp

LEMMA ClearsHolds ==
    ASSUME EngineInv, NEW p \in Lives, ClearsSlot(p), aborted' = aborted, crossed' = crossed
    PROVE  EngineInv'
<1>0. TypeOK
  BY DEF EngineInv
<1>1. /\ life[p] = "clearing" /\ Moves(p, "stopping")
      /\ UNCHANGED <<poisoned, aborted, kind, notify, call, task, crossed>>
  BY DEF ClearsSlot
<1>2. /\ life' \in [Lives -> PCs \cup Over] /\ life'[p] = "stopping"
      /\ \A q \in Lives \ {p} : life'[q] = life[q]
      /\ Alone'
  BY <1>1, LifeStep DEF PCs, Over
<1>3. /\ slot' \in {slot, NoEngine} /\ (poisoned' \/ slot' = NoEngine)
      /\ rt' \in [Engines -> {"none", "starting", "running", "dropped"}]
      /\ server' \in [Engines -> {"none", "up", "down"}]
      /\ OwnersKeepRuntime'
      /\ slot' # NoEngine => rt'[slot'] = "running"
      /\ \A e \in Engines : rt[e] # "running" => rt'[e] = rt[e] /\ server'[e] = server[e]
  <2>1. CASE poisoned
    BY <1>0, <1>1, <2>1 DEF ClearsSlot, EngineInv, OwnersKeepRuntime, TypeOK
  <2>2. CASE ~poisoned
    <3>1. slot' = NoEngine /\ Collects(slot', call', task')
      BY <1>1, <2>2 DEF ClearsSlot
    <3>2. call' \in [Callers -> Call] /\ task' \in [Callers -> EngineOrNone]
          /\ \A e \in Engines : Held(call', task', e) => Held(call, task, e)
      BY <1>0, <1>1 DEF TypeOK, Held
    <3> QED
      BY <1>0, <1>1, <3>1, <3>2, CollectingIsSafe, CollectsTheUnowned
  <2> QED
    BY <2>1, <2>2
<1>5. TypeOK'
  BY <1>0, <1>1, <1>2, <1>3 DEF TypeOK, PCs, EngineOrNone
<1>6. Progress' /\ Announced'
  BY <1>1, <1>2, <1>3 DEF EngineInv, Progress, Announced, Lives, Engines
<1>7. Settled' /\ ServerIsUp'
  BY <1>3 DEF Settled, ServerIsUp
<1> QED
  BY <1>2, <1>3, <1>5, <1>6, <1>7 DEF EngineInv

\* Stopping a media server: whoever does it is past the point where the slot
\* was emptied, and a start that has announced its server is not alone then.
LEMMA StopsHolds ==
    ASSUME EngineInv, NEW p \in Lives, aborted' = aborted, crossed' = crossed,
           StopsServer(p) \/ (p \in Starts /\ Connects(p))
    PROVE  EngineInv'
<1> DEFINE pc == IF life[p] = "connecting" THEN "binding" ELSE IF p \in Resets THEN "done" ELSE "creating"
<1>0. TypeOK
  BY DEF EngineInv
<1>1. /\ life[p] \in {"stopping", "connecting"} /\ Moves(p, pc)
      /\ life[p] = "connecting" => p \in Starts
      /\ server' = [e \in Engines |-> IF e = notify THEN "down" ELSE server[e]]
      /\ notify' = NoEngine
      /\ UNCHANGED <<slot, poisoned, aborted, kind, rt, call, task, crossed>>
  BY DEF StopsServer, Connects
<1>2. pc \in PCs \cup Over /\ (pc = "binding" <=> life[p] = "connecting") /\ pc \in {"binding", "done", "creating"}
  BY DEF PCs, Over
<1> HIDE DEF pc
<1>3. /\ life' \in [Lives -> PCs \cup Over] /\ life'[p] = pc
      /\ \A q \in Lives \ {p} : life'[q] = life[q]
      /\ Alone'
  BY <1>1, <1>2, LifeStep DEF Over
<1>4. slot \in crossed \cup {NoEngine} \/ poisoned
  BY <1>1 DEF EngineInv, Settled, Over
<1>5. TypeOK'
  BY <1>0, <1>1, <1>3 DEF TypeOK, PCs, EngineOrNone
<1>6. Progress'
  BY <1>1, <1>2, <1>3 DEF EngineInv, Progress, Over, Lives
<1>7. Announced'
  <2> SUFFICES ASSUME NEW s \in Starts \ crossed', life'[s] = "publishing", kind'[s] = "dlna"
               PROVE  server'[s] = "up"
    BY DEF Announced
  <2>1. s # p /\ life[s] = "publishing" /\ s \in Lives
    BY <1>2, <1>3 DEF Lives
  <2>2. life[p] \in Over
    BY <1>1, <2>1 DEF EngineInv, Alone, Over
  <2> QED
    BY <1>1, <2>2 DEF Over
<1>8. Settled' /\ ServerIsUp'
  BY <1>1, <1>4 DEF Settled, ServerIsUp
<1>9. OwnersKeepRuntime'
  BY <1>1 DEF EngineInv, OwnersKeepRuntime
<1> QED
  BY <1>3, <1>5, <1>6, <1>7, <1>8, <1>9 DEF EngineInv

LEMMA CoreClearsHolds ==
    ASSUME EngineInv, NEW s \in Starts, CoreClears(s), aborted' = aborted, crossed' = crossed
    PROVE  EngineInv'
<1>0. TypeOK /\ s \in Lives /\ life[s] = "creating" /\ rt[s] = "none" /\ s \in Engines
  BY DEF EngineInv, CoreClears, Lives, Progress, Engines
<1>1. UNCHANGED <<aborted, kind, notify, call, task, crossed>>
  BY DEF CoreClears
<1>2. slot # s
  BY <1>0, EngineAssumption DEF TypeOK
<1>3. \A e \in Engines : Held(call, task, e) => rt[e] = "running"
  BY EngineAssumption DEF EngineInv, OwnersKeepRuntime, Held, Engines
<1>4. CASE DropsLast(NoEngine) /\ ~poisoned
  <2>1. /\ slot \in Engines /\ ~Held(call, task, slot) /\ rt[slot] = "running"
    BY <1>0, <1>4 DEF DropsLast, Unowned, Held, TypeOK, EngineOrNone
  <2>2. /\ poisoned' = TRUE /\ slot' = NoEngine /\ Moves(s, "failed")
        /\ rt' = [rt EXCEPT ![slot] = "dropped", ![s] = "dropped"]
        /\ server' = [server EXCEPT ![slot] = "down"]
    BY <1>4 DEF CoreClears
  <2>3. /\ life' \in [Lives -> PCs \cup Over] /\ life'[s] = "failed"
        /\ \A q \in Lives \ {s} : life'[q] = life[q]
        /\ Alone'
    BY <1>0, <1>1, <2>2, LifeStep DEF PCs, Over
  <2>4. /\ rt' \in [Engines -> {"none", "starting", "running", "dropped"}]
        /\ server' \in [Engines -> {"none", "up", "down"}]
        /\ \A e \in Engines \ {s, slot} : rt'[e] = rt[e] /\ server'[e] = server[e]
    BY <1>0, <2>1, <2>2 DEF TypeOK
  <2>5. TypeOK'
    BY <1>0, <1>1, <2>2, <2>3, <2>4 DEF TypeOK, PCs, EngineOrNone
  <2>6. Progress' /\ Announced'
    BY <1>1, <2>1, <2>3, <2>4 DEF EngineInv, Progress, Announced, Lives, Engines
  <2>7. OwnersKeepRuntime'
    BY <1>0, <1>1, <1>3, <2>1, <2>4 DEF EngineInv, OwnersKeepRuntime, Held, TypeOK
  <2> QED
    BY <2>2, <2>3, <2>5, <2>6, <2>7 DEF EngineInv, Settled, ServerIsUp
<1>5. CASE ~(DropsLast(NoEngine) /\ ~poisoned)
  <2> DEFINE pc == IF kind[s] = "dlna" THEN "connecting" ELSE "publishing"
  <2>1. /\ slot' = IF poisoned THEN slot ELSE NoEngine
        /\ Moves(s, pc) /\ rt' = [rt EXCEPT ![s] = "starting"] /\ UNCHANGED <<poisoned, server>>
    BY <1>5 DEF CoreClears
  <2>2. pc \in {"connecting", "publishing"} /\ (pc = "publishing" => kind[s] # "dlna")
    OBVIOUS
  <2> HIDE DEF pc
  <2>3. /\ life' \in [Lives -> PCs \cup Over] /\ life'[s] = pc
        /\ \A q \in Lives \ {s} : life'[q] = life[q]
        /\ Alone'
    BY <1>0, <1>1, <2>1, <2>2, LifeStep DEF PCs, Over
  <2>4. rt' \in [Engines -> {"none", "starting", "running", "dropped"}]
        /\ rt'[s] = "starting" /\ \A e \in Engines \ {s} : rt'[e] = rt[e]
    BY <1>0, <2>1 DEF TypeOK
  <2>5. TypeOK'
    BY <1>0, <1>1, <1>2, <2>1, <2>2, <2>3, <2>4 DEF TypeOK, PCs, EngineOrNone
  <2>6. Progress' /\ Announced'
    BY <1>1, <2>1, <2>2, <2>3, <2>4 DEF EngineInv, Progress, Announced, Lives, Engines
  <2>7. OwnersKeepRuntime'
    BY <1>0, <1>1, <1>3, <2>4 DEF EngineInv, OwnersKeepRuntime, Held, TypeOK
  <2>8. Settled' /\ ServerIsUp'
    BY <2>1 DEF Settled, ServerIsUp
  <2> QED
    BY <2>3, <2>5, <2>6, <2>7, <2>8 DEF EngineInv
<1> QED
  BY <1>4, <1>5

\* A start whose future ends early gives up its own runtime, which nobody has
\* seen yet.
LEMMA FailsHolds ==
    ASSUME EngineInv, NEW s \in Starts, Fails(s), life[s] \in {"connecting", "binding", "publishing"},
           UNCHANGED <<slot, poisoned, aborted, kind, notify, call, task, crossed>>
    PROVE  EngineInv'
<1>0. TypeOK /\ s \in Lives /\ s \in Engines /\ rt[s] = "starting" /\ slot # s
  BY EngineAssumption DEF EngineInv, Lives, Engines, Progress, TypeOK
<1>2. /\ Moves(s, "failed") /\ rt' = [rt EXCEPT ![s] = "dropped"]
      /\ server' = [server EXCEPT ![s] = IF server[s] = "up" THEN "down" ELSE server[s]]
  BY DEF Fails
<1>3. /\ life' \in [Lives -> PCs \cup Over] /\ life'[s] = "failed"
      /\ \A q \in Lives \ {s} : life'[q] = life[q]
      /\ Alone'
  BY <1>0, <1>2, LifeStep DEF PCs, Over
<1>4. /\ rt' \in [Engines -> {"none", "starting", "running", "dropped"}]
      /\ server' \in [Engines -> {"none", "up", "down"}]
      /\ \A e \in Engines \ {s} : rt'[e] = rt[e] /\ server'[e] = server[e]
  BY <1>0, <1>2 DEF TypeOK
<1>5. TypeOK'
  BY <1>0, <1>3, <1>4 DEF TypeOK, PCs, EngineOrNone
<1>6. Progress' /\ Announced'
  BY <1>3, <1>4 DEF EngineInv, Progress, Announced, Lives, Engines
<1>7. OwnersKeepRuntime'
  BY <1>0, <1>4 DEF EngineInv, OwnersKeepRuntime
<1>8. Settled' /\ ServerIsUp'
  BY <1>0, <1>3, <1>4 DEF EngineInv, Settled, ServerIsUp, Over, TypeOK, EngineOrNone
<1> QED
  BY <1>3, <1>5, <1>6, <1>7, <1>8 DEF EngineInv

LEMMA BindsHolds ==
    ASSUME EngineInv, NEW s \in Starts, Binds(s), aborted' = aborted, crossed' = crossed
    PROVE  EngineInv'
<1>0. TypeOK /\ s \in Lives /\ s \in Engines /\ life[s] = "binding"
  BY DEF EngineInv, Binds, Lives, Engines
<1>1. rt[s] = "starting" /\ slot # s
  BY <1>0, EngineAssumption DEF EngineInv, Progress, TypeOK
<1>2. /\ Moves(s, "publishing") /\ server' = [server EXCEPT ![s] = "up"] /\ notify' = s
      /\ UNCHANGED <<slot, poisoned, aborted, kind, rt, call, task, crossed>>
  BY DEF Binds
<1>3. /\ life' \in [Lives -> PCs \cup Over] /\ life'[s] = "publishing"
      /\ \A q \in Lives \ {s} : life'[q] = life[q]
      /\ Alone'
  BY <1>0, <1>2, LifeStep DEF PCs, Over
<1>4. /\ server' \in [Engines -> {"none", "up", "down"}] /\ server'[s] = "up"
      /\ \A e \in Engines \ {s} : server'[e] = server[e]
  BY <1>0, <1>2 DEF TypeOK
<1>5. TypeOK'
  BY <1>0, <1>2, <1>3, <1>4 DEF TypeOK, PCs, EngineOrNone, Engines
<1>6. Progress' /\ Announced'
  BY <1>0, <1>1, <1>2, <1>3, <1>4 DEF EngineInv, Progress, Announced, Lives, Engines
<1>7. Settled' /\ ServerIsUp'
  BY <1>0, <1>2 DEF EngineInv, Settled, ServerIsUp, Over
<1>8. OwnersKeepRuntime'
  BY <1>2 DEF EngineInv, OwnersKeepRuntime
<1> QED
  BY <1>3, <1>5, <1>6, <1>7, <1>8 DEF EngineInv

LEMMA PublishesHolds ==
    ASSUME EngineInv, NEW s \in Starts, Publishes(s), aborted' = aborted, crossed' = crossed
    PROVE  EngineInv'
<1>0. TypeOK /\ s \in Lives /\ s \in Engines /\ life[s] = "publishing"
  BY DEF EngineInv, Publishes, Lives, Engines
<1>1. UNCHANGED <<aborted, kind, notify, call, task, crossed>>
  BY DEF Publishes
<1>2. CASE poisoned
  <2>1. Fails(s) /\ UNCHANGED <<slot, poisoned>>
    BY <1>2 DEF Publishes
  <2> QED
    BY <1>0, <1>1, <2>1, FailsHolds
<1>3. CASE ~poisoned
  <2> DEFINE pc == IF DropsLast(s) THEN "failed" ELSE "done"
  <2>1. rt[s] = "starting" /\ slot # s /\ s # NoEngine
    BY <1>0, EngineAssumption DEF EngineInv, Progress, TypeOK, Engines
  <2>2. /\ Moves(s, pc) /\ slot' = s /\ poisoned' = DropsLast(s)
        /\ rt' = [e \in Engines |-> IF e = s THEN "running"
                                    ELSE IF e = slot /\ DropsLast(s) THEN "dropped" ELSE rt[e]]
        /\ server' = [e \in Engines |-> IF e = slot /\ DropsLast(s) THEN "down" ELSE server[e]]
    BY <1>3 DEF Publishes
  <2>3. pc \in {"failed", "done"} /\ DropsLast(s) \in BOOLEAN
    BY DEF DropsLast, Unowned
  <2> HIDE DEF pc
  <2>4. /\ life' \in [Lives -> PCs \cup Over] /\ life'[s] \in {"failed", "done"}
        /\ \A q \in Lives \ {s} : life'[q] = life[q]
        /\ Alone'
    BY <1>0, <1>1, <2>2, <2>3, LifeStep DEF PCs, Over
  <2>5. /\ rt' \in [Engines -> {"none", "starting", "running", "dropped"}] /\ rt'[s] = "running"
        /\ \A e \in Engines \ {s} : rt'[e] = rt[e] \/ (e = slot /\ DropsLast(s))
        /\ server' \in [Engines -> {"none", "up", "down"}]
        /\ \A e \in Engines : server'[e] = server[e] \/ (e = slot /\ DropsLast(s))
    BY <1>0, <2>2 DEF TypeOK
  <2>6. DropsLast(s) => slot \in Engines /\ rt[slot] = "running" /\ ~Held(call, task, slot)
    BY <1>0 DEF DropsLast, Unowned, Held, TypeOK, EngineOrNone
  <2>7. TypeOK'
    BY <1>0, <1>1, <2>2, <2>3, <2>4, <2>5 DEF TypeOK, PCs, EngineOrNone, Engines
  <2>8. Progress'
    <3>1. \A q \in Starts \ {s} : rt[q] # "running" => rt'[q] = rt[q]
      BY <2>5, <2>6 DEF Engines
    <3>2. \A q \in Starts \ {s} : life'[q] = life[q]
      BY <2>4 DEF Lives
    <3> QED
      BY <2>4, <3>1, <3>2 DEF EngineInv, Progress
  <2>9. Announced'
    BY <1>1, <2>4, <2>5, <2>6 DEF EngineInv, Progress, Announced, Lives, Engines, Over
  <2>10. OwnersKeepRuntime'
    <3>1. \A e \in Engines : Held(call, task, e) => rt'[e] = "running"
      BY <2>5, <2>6, EngineAssumption DEF EngineInv, OwnersKeepRuntime, Held, Engines
    <3> QED
      BY <1>0, <1>1, <3>1 DEF OwnersKeepRuntime, Held, TypeOK, Call, EngineOrNone
  <2>11. Settled' /\ ServerIsUp'
    <3> SUFFICES ASSUME s \notin crossed, ~DropsLast(s)
                 PROVE  /\ \A p \in Lives : life'[p] \in Over
                        /\ kind[s] = "dlna" => server'[s] = "up"
      BY <1>1, <2>2 DEF Settled, ServerIsUp
    <3>1. \A q \in Lives \ {s} : life[q] \in Over
      BY <1>0 DEF EngineInv, Alone, Over
    <3>2. kind[s] = "dlna" => server[s] = "up"
      BY <1>0 DEF EngineInv, Announced
    <3> QED
      BY <1>0, <2>4, <2>5, <3>1, <3>2 DEF Over
  <2> QED
    BY <2>4, <2>7, <2>8, <2>9, <2>10, <2>11 DEF EngineInv
<1> QED
  BY <1>2, <1>3

-----------------------------------------------------------------------------
(* Calls.                                                                  *)

LEMMA BecomesShape ==
    ASSUME TypeOK, NEW c \in Callers, NEW new \in Call, Becomes(c, new), new.pc = "idle" => new = NoCall
    PROVE  /\ call' \in [Callers -> Call] /\ call'[c] = new
           /\ \A d \in Callers \ {c} : call'[d] = call[d]
           /\ \A d \in Callers : call'[d].pc = "idle" => call'[d] = NoCall
BY DEF TypeOK, Becomes

LEMMA NoCallIsCall == NoCall \in Call /\ NoCall.outer = NoEngine /\ NoCall.inner = NoEngine
BY DEF NoCall, Call, Ops, EngineOrNone

\* The steps that only take references to the engine in the slot, or give up
\* what refers to none.
LEMMA TakingHolds ==
    ASSUME EngineInv, NEW c \in Callers, aborted' = aborted, crossed' = crossed,
           CallBegins(c) \/ FindsNothing(c) \/ Enters(c) \/ EntersAgain(c)
    PROVE  EngineInv'
<1>0. TypeOK /\ call[c] \in Call /\ slot \in EngineOrNone /\ NoEngine \in EngineOrNone
  BY DEF EngineInv, TypeOK, EngineOrNone
<1>1. /\ UNCHANGED <<slot, poisoned, aborted, kind, rt, server, notify, task, crossed>>
      /\ life' = life
  BY DEF CallBegins, FindsNothing, Enters, EntersAgain
<1>2. ASSUME NEW new \in Call, Becomes(c, new), new.pc = "idle" => new = NoCall,
             {new.outer, new.inner} \subseteq {call[c].outer, call[c].inner, slot, NoEngine}
      PROVE  EngineInv'
  <2>1. /\ call' \in [Callers -> Call] /\ call'[c] = new
        /\ \A d \in Callers \ {c} : call'[d] = call[d]
        /\ \A d \in Callers : call'[d].pc = "idle" => call'[d] = NoCall
    BY <1>0, <1>2, BecomesShape
  <2>2. \A d \in Callers : {call'[d].outer, call'[d].inner} \subseteq {call[d].outer, call[d].inner, slot, NoEngine}
    BY <1>2, <2>1
  <2> QED
    BY <1>1, <2>1, <2>2, PlainStep
<1>3. CASE CallBegins(c)
  <2>1. PICK op \in Ops : Becomes(c, [NoCall EXCEPT !.pc = "entering", !.op = op])
    BY <1>3 DEF CallBegins
  <2> DEFINE new == [NoCall EXCEPT !.pc = "entering", !.op = op]
  <2>2. new \in Call /\ new.pc # "idle" /\ new.outer = NoEngine /\ new.inner = NoEngine
    BY NoCallIsCall DEF Call, NoCall
  <2> HIDE DEF new
  <2> QED
    BY <1>2, <2>1, <2>2 DEF new
<1>4. CASE FindsNothing(c)
  BY <1>2, <1>4, NoCallIsCall DEF FindsNothing
<1>5. CASE Enters(c)
  <2> DEFINE pc == IF call[c].op \in {"nested", "poll"} THEN "reentering" ELSE "working"
             outer == IF call[c].op \in {"poll", "recast"} THEN slot ELSE NoEngine
             new == [call[c] EXCEPT !.pc = pc, !.outer = outer]
  <2>1. Becomes(c, new)
    BY <1>5 DEF Enters
  <2>2. pc \in {"reentering", "working"} /\ outer \in {slot, NoEngine}
    OBVIOUS
  <2> HIDE DEF pc, outer
  <2>3. new \in Call /\ new.pc = pc /\ new.outer = outer /\ new.inner = call[c].inner
    BY <1>0, <2>2 DEF Call
  <2> HIDE DEF new
  <2> QED
    BY <1>2, <2>1, <2>2, <2>3
<1>6. CASE EntersAgain(c)
  <2> DEFINE inner == IF poisoned THEN NoEngine ELSE slot
             new == [call[c] EXCEPT !.pc = "working", !.inner = inner]
  <2>1. Becomes(c, new)
    BY <1>6 DEF EntersAgain
  <2>2. inner \in {slot, NoEngine}
    OBVIOUS
  <2> HIDE DEF inner
  <2>3. new \in Call /\ new.pc = "working" /\ new.outer = call[c].outer /\ new.inner = inner
    BY <1>0, <2>2 DEF Call
  <2> HIDE DEF new
  <2> QED
    BY <1>2, <2>1, <2>2, <2>3
<1> QED
  BY <1>3, <1>4, <1>5, <1>6

LEMMA TriggersHolds ==
    ASSUME EngineInv, NEW c \in Callers, Triggers(c), aborted' = aborted, crossed' = crossed
    PROVE  EngineInv'
<1>0. TypeOK /\ slot \in Engines /\ rt[slot] = "running"
  BY DEF EngineInv, TypeOK, Triggers, EngineOrNone
<1>1. /\ Becomes(c, NoCall) /\ task' = [task EXCEPT ![c] = slot]
      /\ UNCHANGED <<slot, poisoned, aborted, life, kind, rt, server, notify, crossed>>
  BY DEF Triggers
<1>2. /\ call' \in [Callers -> Call] /\ call'[c] = NoCall
      /\ \A d \in Callers \ {c} : call'[d] = call[d]
      /\ \A d \in Callers : call'[d].pc = "idle" => call'[d] = NoCall
  BY <1>0, <1>1, NoCallIsCall, BecomesShape
<1>3. task' \in [Callers -> EngineOrNone] /\ \A d \in Callers : task'[d] \in {task[d], slot}
  BY <1>0, <1>1 DEF TypeOK, EngineOrNone
<1>4. TypeOK'
  BY <1>0, <1>1, <1>2, <1>3 DEF TypeOK
<1>5. OwnersKeepRuntime'
  <2> SUFFICES ASSUME NEW d \in Callers
               PROVE  {call'[d].outer, call'[d].inner, task'[d]} \ {NoEngine} \subseteq {e \in Engines : rt[e] = "running"}
    BY <1>1 DEF OwnersKeepRuntime
  <2> QED
    BY <1>0, <1>2, <1>3, NoCallIsCall DEF EngineInv, OwnersKeepRuntime
<1> QED
  BY <1>1, <1>4, <1>5 DEF EngineInv, Progress, Alone, Announced, Settled, ServerIsUp

\* The steps that give references up.
LEMMA GivingUpHolds ==
    ASSUME EngineInv, NEW c \in Callers, crossed' = crossed,
           CoreEnds(c) \/ (aborted' = aborted /\ (Returns(c) \/ TaskEnds(c)))
    PROVE  EngineInv'
<1>0. TypeOK /\ call[c] \in Call
  BY DEF EngineInv, TypeOK
<1>1. UNCHANGED <<slot, poisoned, life, kind, notify, crossed>> /\ Collects(slot', call', task')
  BY DEF CoreEnds, Returns, TaskEnds
<1>2. aborted' \in BOOLEAN
  <2>1. CASE CoreEnds(c)
    BY <2>1 DEF CoreEnds, Unowned
  <2>2. CASE aborted' = aborted
    BY <1>0, <2>2 DEF TypeOK
  <2> QED
    BY <2>1, <2>2
<1>3. /\ call' \in [Callers -> Call] /\ task' \in [Callers -> EngineOrNone]
      /\ \A d \in Callers : call'[d].pc = "idle" => call'[d] = NoCall
      /\ \A d \in Callers : {call'[d].outer, call'[d].inner, task'[d]}
                              \subseteq {call[d].outer, call[d].inner, task[d], NoEngine}
  <2>1. CASE CoreEnds(c)
    <3> DEFINE new == [call[c] EXCEPT !.inner = NoEngine]
    <3>1. /\ new \in Call /\ new.pc = call[c].pc /\ new.outer = call[c].outer /\ new.inner = NoEngine
      BY <1>0 DEF Call, EngineOrNone
    <3>2. call' = [call EXCEPT ![c] = new] /\ task' = task /\ call[c].pc = "working"
      BY <2>1 DEF CoreEnds
    <3> HIDE DEF new
    <3>3. call' \in [Callers -> Call] /\ call'[c] = new /\ \A d \in Callers \ {c} : call'[d] = call[d]
      BY <1>0, <3>1, <3>2 DEF TypeOK
    <3> QED
      BY <1>0, <3>1, <3>2, <3>3 DEF TypeOK
  <2>2. CASE Returns(c)
    <3>1. /\ call' \in [Callers -> Call] /\ call'[c] = NoCall
          /\ \A d \in Callers \ {c} : call'[d] = call[d]
          /\ \A d \in Callers : call'[d].pc = "idle" => call'[d] = NoCall
      BY <1>0, <2>2, NoCallIsCall, BecomesShape DEF Returns
    <3> QED
      BY <1>0, <2>2, <3>1, NoCallIsCall DEF Returns, TypeOK
  <2>3. CASE TaskEnds(c)
    <3>1. call' = call /\ task' = [task EXCEPT ![c] = NoEngine] /\ NoEngine \in EngineOrNone
      BY <2>3 DEF TaskEnds, EngineOrNone
    <3> QED
      BY <1>0, <3>1 DEF TypeOK
  <2> QED
    BY <2>1, <2>2, <2>3
<1>4. \A e \in Engines : Held(call', task', e) => Held(call, task, e)
  BY <1>3, EngineAssumption DEF Held, Engines
<1>5. /\ slot' # NoEngine => rt'[slot'] = "running"
      /\ ServerIsUp' /\ OwnersKeepRuntime'
      /\ \A e \in Engines : rt[e] # "running" => rt'[e] = rt[e] /\ server'[e] = server[e]
  BY <1>1, <1>3, <1>4, CollectingIsSafe
<1>6. /\ rt' \in [Engines -> {"none", "starting", "running", "dropped"}]
      /\ server' \in [Engines -> {"none", "up", "down"}]
  BY <1>0, <1>1, CollectsTheUnowned
<1>7. TypeOK'
  BY <1>0, <1>1, <1>2, <1>3, <1>5, <1>6 DEF TypeOK
<1>8. Progress' /\ Announced'
  BY <1>1, <1>5 DEF EngineInv, Progress, Announced, Engines
<1>9. Alone' /\ Settled'
  BY <1>1 DEF EngineInv, Alone, Settled
<1> QED
  BY <1>5, <1>7, <1>8, <1>9 DEF EngineInv

-----------------------------------------------------------------------------

LEMMA NextHolds == EngineInv /\ [Next]_vars => EngineInv'
<1> SUFFICES ASSUME EngineInv, [Next]_vars PROVE EngineInv'
    OBVIOUS
<1>1. CASE LifeSteps
  <2>1. aborted' = aborted
    BY <1>1 DEF LifeSteps
  <2>2. CASE \E p \in Lives : Begins(p)
    BY <2>1, <2>2, BeginsHolds
  <2>3. ASSUME crossed' = crossed, NEW p \in Lives, ClearsSlot(p) \/ StopsServer(p) PROVE EngineInv'
    BY <2>1, <2>3, ClearsHolds, StopsHolds
  <2>4. ASSUME crossed' = crossed, NEW s \in Starts,
               CoreClears(s) \/ Connects(s) \/ ConnectFails(s) \/ Binds(s) \/ Publishes(s)
        PROVE  EngineInv'
    <3>1. s \in Lives
      BY DEF Lives
    <3>2. CASE ConnectFails(s)
      BY <2>1, <2>4, <3>2, FailsHolds DEF ConnectFails
    <3> QED
      BY <2>1, <2>4, <3>1, <3>2, CoreClearsHolds, StopsHolds, BindsHolds, PublishesHolds
  <2> QED
    BY <1>1, <2>2, <2>3, <2>4 DEF LifeSteps
<1>2. CASE CallSteps
  BY <1>2, TakingHolds, TriggersHolds, GivingUpHolds DEF CallSteps
<1>3. CASE UNCHANGED vars
  <2>1. TypeOK'
    BY <1>3 DEF EngineInv, TypeOK, vars
  <2> QED
    BY <1>3, <2>1 DEF EngineInv, Progress, Alone, Announced, Settled, ServerIsUp, OwnersKeepRuntime, vars
<1> QED
  BY <1>1, <1>2, <1>3 DEF Next

LEMMA EngineInvariant == Spec => []EngineInv
BY InitHolds, NextHolds, PTL DEF Spec

\* A DLNA engine that can be used, and whose start met no other start or
\* reset under way, has its media server, however many others overlap before
\* and after it.
THEOREM ServerStaysUp == Spec => []ServerIsUp
BY EngineInvariant, PTL DEF EngineInv

\* Nobody works with an engine whose runtime is gone, overlapping starts and
\* a poisoned lock included.
THEOREM RuntimeOutlivesOwners == Spec => []OwnersKeepRuntime
BY EngineInvariant, PTL DEF EngineInv
=============================================================================
