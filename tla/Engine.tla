------------------------------- MODULE Engine -------------------------------
(***************************************************************************)
(* The life of the engine behind ENGINE_STATE (lib.rs) and the JNI calls   *)
(* that use it (android.rs): starts, resets and commands come from threads *)
(* of their own, and nothing puts them in order.                           *)
(*                                                                         *)
(* ENGINE_STATE is a std RwLock around an Option<Arc<EngineContext>>: a    *)
(* reader is held up by a writer that waits, and a panic under the write   *)
(* guard poisons the lock for good.  The context owns a tokio Runtime,     *)
(* which may be dropped by an ordinary thread only: dropped by a future,   *)
(* it panics.  Every start makes one engine, named after the start.        *)
(***************************************************************************)
EXTENDS FiniteSets

CONSTANTS
    Starts,     \* calls of startEngine and startBilibiliEngine
    Resets,     \* calls of resetEngine
    Callers,    \* threads that command or poll the engine
    NoEngine

ASSUME EngineAssumption ==
    /\ Starts \cap Resets = {}
    /\ NoEngine \notin Starts

VARIABLES
    slot,      \* the engine in ENGINE_STATE
    poisoned,  \* ENGINE_STATE is poisoned
    aborted,   \* a panic left an extern "C" function: the process is gone
    life,      \* what each start and each reset is at
    kind,      \* the kind of caster of each start
    rt,        \* each engine's runtime
    server,    \* each engine's media server
    notify,    \* MEDIA_SERVER_SHUTDOWN: the engine whose server it stops
    call,      \* what each caller is at
    task,      \* trigger_next_song's task of each caller: the engine it holds
    crossed    \* history: the starts and resets that met another one under way

vars == <<slot, poisoned, aborted, life, kind, rt, server, notify, call, task, crossed>>

Engines == Starts
EngineOrNone == Engines \cup {NoEngine}
Lives == Starts \cup Resets

\* nested: togglePause, setVolume and the other commands, which hold the read
\* guard while their core reads ENGINE_STATE again; brief: the title and the
\* counts, which hold it and do not; poll: an Arc is cloned, and another by
\* the core (also the song's id and its parts); recast: an Arc is cloned;
\* trigger: nextSong and prevSong, one task per caller at a time.
Ops == {"nested", "brief", "poll", "recast", "trigger"}

NoCall == [pc |-> "idle", op |-> "brief", outer |-> NoEngine, inner |-> NoEngine]
Call == [pc : {"idle", "entering", "reentering", "working"}, op : Ops,
         outer : EngineOrNone, inner : EngineOrNone]

Init ==
    /\ slot = NoEngine
    /\ poisoned = FALSE
    /\ aborted = FALSE
    /\ life = [p \in Lives |-> "off"]
    /\ kind \in [Starts -> {"dlna", "bilibili"}]
    /\ rt = [e \in Engines |-> "none"]
    /\ server = [e \in Engines |-> "none"]
    /\ notify = NoEngine
    /\ call = [c \in Callers |-> NoCall]
    /\ task = [c \in Callers |-> NoEngine]
    /\ crossed = {}

-----------------------------------------------------------------------------
\* The lock and the references.

Over == {"off", "done", "failed"}
WantsWrite == {p \in Lives : life[p] \in {"clearing", "creating", "publishing"}}
Guards(c) == call[c].op \in {"nested", "brief"} /\ call[c].pc \in {"reentering", "working"}

Readable == WantsWrite = {}
Writable == \A c \in Callers : ~Guards(c)

\* The engine has no owner left, given the new owners.
Unowned(e, newSlot, newCall, newTask) ==
    /\ newSlot # e
    /\ \A c \in Callers : e \notin {newCall[c].outer, newCall[c].inner, newTask[c]}

\* The runtimes and media servers after a step: the last owner takes both
\* along.
Collects(newSlot, newCall, newTask) ==
    LET gone == {e \in Engines : rt[e] = "running" /\ Unowned(e, newSlot, newCall, newTask)}
    IN /\ rt' = [e \in Engines |-> IF e \in gone THEN "dropped" ELSE rt[e]]
       /\ server' = [e \in Engines |-> IF e \in gone THEN "down" ELSE server[e]]

\* Writing v would drop the engine in the slot, the writer being its last
\* owner.
DropsLast(v) == slot \notin {v, NoEngine} /\ Unowned(slot, v, call, task)

Moves(p, pc) == life' = [life EXCEPT ![p] = pc]

UnderWay == {p \in Lives : life[p] \notin Over}
Crosses(p) == crossed' = IF UnderWay = {} THEN crossed ELSE crossed \cup UnderWay \cup {p}

\* The future of start p ends early and takes its runtime along.
Fails(p) ==
    /\ Moves(p, "failed")
    /\ rt' = [rt EXCEPT ![p] = "dropped"]
    /\ server' = [server EXCEPT ![p] = IF @ = "up" THEN "down" ELSE @]

-----------------------------------------------------------------------------
\* Starts and resets.

\* startEngine's or startBilibiliEngine's thread, or resetEngine.
Begins(p) ==
    /\ life[p] = "off"
    /\ Moves(p, "clearing")
    /\ Crosses(p)
    /\ UNCHANGED <<slot, poisoned, kind, rt, server, notify, call, task>>

\* Faulty: the runtime is shut down with the reset, whoever still uses it.
ClearsAndShutsDown(p) ==
    /\ life[p] = "clearing"
    /\ Writable
    /\ Moves(p, "stopping")
    /\ slot' = NoEngine
    /\ rt' = [e \in Engines |-> IF e = slot THEN "dropped" ELSE rt[e]]
    /\ UNCHANGED <<poisoned, kind, server, notify, call, task>>

\* reset_engine, on an ordinary thread: ENGINE_STATE is emptied.
ClearsSlot(p) ==
    /\ life[p] = "clearing"
    /\ Writable
    /\ Moves(p, "stopping")
    /\ IF poisoned THEN UNCHANGED <<slot, rt, server>>
       ELSE slot' = NoEngine /\ Collects(NoEngine, call, task)
    /\ UNCHANGED <<poisoned, kind, notify, call, task>>

\* reset_engine: the media server is told to stop.
StopsServer(p) ==
    /\ life[p] = "stopping"
    /\ Moves(p, IF p \in Resets THEN "done" ELSE "creating")
    /\ server' = [e \in Engines |-> IF e = notify THEN "down" ELSE server[e]]
    /\ notify' = NoEngine
    /\ UNCHANGED <<slot, poisoned, kind, rt, call, task>>

\* start_engine_core, start_bilibili_engine_core: inside a future now, an
\* engine still in the slot is dropped.
CoreClears(s) ==
    /\ life[s] = "creating"
    /\ Writable
    /\ IF DropsLast(NoEngine) /\ ~poisoned
       THEN /\ poisoned' = TRUE
            /\ slot' = NoEngine
            /\ Moves(s, "failed")
            /\ rt' = [rt EXCEPT ![slot] = "dropped", ![s] = "dropped"]
            /\ server' = [server EXCEPT ![slot] = "down"]
       ELSE /\ slot' = IF poisoned THEN slot ELSE NoEngine
            /\ Moves(s, IF kind[s] = "dlna" THEN "connecting" ELSE "publishing")
            /\ rt' = [rt EXCEPT ![s] = "starting"]
            /\ UNCHANGED <<poisoned, server>>
    /\ UNCHANGED <<kind, notify, call, task>>

\* connect_dlna_device: the device answers, and the old server is stopped.
Connects(s) ==
    /\ life[s] = "connecting"
    /\ Moves(s, "binding")
    /\ server' = [e \in Engines |-> IF e = notify THEN "down" ELSE server[e]]
    /\ notify' = NoEngine
    /\ UNCHANGED <<slot, poisoned, kind, rt, call, task>>

\* The device does not answer, or no port is free.
ConnectFails(s) ==
    /\ life[s] \in {"connecting", "binding"}
    /\ Fails(s)
    /\ UNCHANGED <<slot, poisoned, kind, notify, call, task>>

\* Faulty: the old server is stopped after the new one has been announced.
BindsThenStops(s) ==
    /\ life[s] = "binding"
    /\ Moves(s, "publishing")
    /\ server' = [server EXCEPT ![s] = "down"]
    /\ notify' = NoEngine
    /\ UNCHANGED <<slot, poisoned, kind, rt, call, task>>

\* connect_dlna_device: the new server listens and can be stopped.
Binds(s) ==
    /\ life[s] = "binding"
    /\ Moves(s, "publishing")
    /\ server' = [server EXCEPT ![s] = "up"]
    /\ notify' = s
    /\ UNCHANGED <<slot, poisoned, kind, rt, call, task>>

\* connect_room: the context goes into ENGINE_STATE; what was there goes.
Publishes(s) ==
    /\ life[s] = "publishing"
    /\ Writable
    /\ IF poisoned
       THEN Fails(s) /\ UNCHANGED <<slot, poisoned>>
       ELSE /\ slot' = s
            /\ poisoned' = DropsLast(s)
            /\ Moves(s, IF DropsLast(s) THEN "failed" ELSE "done")
            /\ rt' = [e \in Engines |-> IF e = s THEN "running"
                                        ELSE IF e = slot /\ DropsLast(s) THEN "dropped" ELSE rt[e]]
            /\ server' = [e \in Engines |-> IF e = slot /\ DropsLast(s) THEN "down" ELSE server[e]]
    /\ UNCHANGED <<kind, notify, call, task>>

-----------------------------------------------------------------------------
\* Calls.

Becomes(c, new) == call' = [call EXCEPT ![c] = new]

CallBegins(c) ==
    /\ call[c].pc = "idle"
    /\ \E op \in Ops :
          /\ op = "trigger" => task[c] = NoEngine
          /\ Becomes(c, [NoCall EXCEPT !.pc = "entering", !.op = op])
    /\ UNCHANGED <<slot, poisoned, life, kind, rt, server, notify, task>>

\* The lock is poisoned or there is no engine: the call returns at once.
FindsNothing(c) ==
    /\ call[c].pc = "entering"
    /\ Readable
    /\ poisoned \/ slot = NoEngine
    /\ Becomes(c, NoCall)
    /\ UNCHANGED <<slot, poisoned, life, kind, rt, server, notify, task>>

\* Faulty: the title and the counts go through the cores, which read again.
EntersTwice(c) ==
    /\ call[c].pc = "entering"
    /\ Readable /\ ~poisoned /\ slot # NoEngine
    /\ call[c].op # "trigger"
    /\ Becomes(c, [call[c] EXCEPT !.pc = "reentering",
                                  !.outer = IF call[c].op = "brief" THEN NoEngine ELSE slot])
    /\ UNCHANGED <<slot, poisoned, life, kind, rt, server, notify, task>>

\* The first read of ENGINE_STATE by a JNI function.
Enters(c) ==
    /\ call[c].pc = "entering"
    /\ Readable /\ ~poisoned /\ slot # NoEngine
    /\ call[c].op # "trigger"
    /\ Becomes(c, [call[c] EXCEPT !.pc = IF call[c].op \in {"nested", "poll"} THEN "reentering" ELSE "working",
                                  !.outer = IF call[c].op \in {"poll", "recast"} THEN slot ELSE NoEngine])
    /\ UNCHANGED <<slot, poisoned, life, kind, rt, server, notify, task>>

\* nextSong, prevSong: a task on the engine's runtime takes an Arc along.
Triggers(c) ==
    /\ call[c].pc = "entering" /\ call[c].op = "trigger"
    /\ Readable /\ ~poisoned /\ slot # NoEngine
    /\ task' = [task EXCEPT ![c] = slot]
    /\ Becomes(c, NoCall)
    /\ UNCHANGED <<slot, poisoned, life, kind, rt, server, notify>>

\* The read by the core, inside block_on.
EntersAgain(c) ==
    /\ call[c].pc = "reentering"
    /\ Readable
    /\ Becomes(c, [call[c] EXCEPT !.pc = "working", !.inner = IF poisoned THEN NoEngine ELSE slot])
    /\ UNCHANGED <<slot, poisoned, life, kind, rt, server, notify, task>>

\* The core has the device's answer, or its deadline: its Arc is dropped
\* inside block_on.
CoreEnds(c) ==
    /\ call[c].pc = "working" /\ call[c].inner # NoEngine
    /\ LET new == [call EXCEPT ![c].inner = NoEngine] IN
       /\ call' = new
       /\ Collects(slot, new, task)
       /\ aborted' = Unowned(call[c].inner, slot, new, task)
    /\ UNCHANGED <<slot, poisoned, life, kind, notify, task>>

\* Faulty: the Arc of a call is forgotten.
Leaks(c) ==
    /\ call[c].pc = "working" /\ call[c].inner = NoEngine
    /\ Becomes(c, [call[c] EXCEPT !.pc = "idle"])
    /\ UNCHANGED <<slot, poisoned, life, kind, rt, server, notify, task>>

\* The call returns, its guard or its Arc is dropped on its own thread.
Returns(c) ==
    /\ call[c].pc = "working" /\ call[c].inner = NoEngine
    /\ Becomes(c, NoCall)
    /\ Collects(slot, call', task)
    /\ UNCHANGED <<slot, poisoned, life, kind, notify, task>>

\* trigger_next_song's task ends on a worker thread; a panic stays in tokio.
TaskEnds(c) ==
    /\ task[c] # NoEngine
    /\ task' = [task EXCEPT ![c] = NoEngine]
    /\ Collects(slot, call, task')
    /\ UNCHANGED <<slot, poisoned, life, kind, notify, call>>

-----------------------------------------------------------------------------

LifeSteps ==
    /\ aborted' = aborted
    /\ \/ \E p \in Lives : Begins(p)
       \/ /\ crossed' = crossed
          /\ \/ \E p \in Lives : ClearsSlot(p) \/ StopsServer(p)
             \/ \E s \in Starts : CoreClears(s) \/ Connects(s) \/ ConnectFails(s) \/ Binds(s) \/ Publishes(s)

CallSteps ==
    /\ crossed' = crossed
    /\ \E c \in Callers :
          \/ CoreEnds(c)
          \/ /\ aborted' = aborted
             /\ \/ CallBegins(c) \/ FindsNothing(c) \/ Enters(c) \/ Triggers(c)
                \/ EntersAgain(c) \/ Returns(c) \/ TaskEnds(c)

Next == ~aborted /\ (LifeSteps \/ CallSteps)

Spec == Init /\ [][Next]_vars

\* Threads run, devices answer or run into a timeout; nobody has to call.
LifeGoesOn(p) ==
    /\ ~aborted /\ UNCHANGED <<aborted, crossed>>
    /\ \/ ClearsSlot(p) \/ StopsServer(p)
       \/ p \in Starts /\ (CoreClears(p) \/ Connects(p) \/ ConnectFails(p) \/ Binds(p) \/ Publishes(p))
CallGoesOn(c) ==
    /\ ~aborted /\ crossed' = crossed
    /\ \/ CoreEnds(c)
       \/ aborted' = aborted /\ (FindsNothing(c) \/ Enters(c) \/ Triggers(c) \/ EntersAgain(c) \/ Returns(c))

TaskGoesOn(c) == ~aborted /\ UNCHANGED <<aborted, crossed>> /\ TaskEnds(c)

FairSpec ==
    /\ Spec
    /\ WF_vars(\E p \in Lives : LifeGoesOn(p))
    /\ \A c \in Callers : WF_vars(CallGoesOn(c)) /\ WF_vars(TaskGoesOn(c))
=============================================================================
