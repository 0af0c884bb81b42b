------------------------------ MODULE Commands ------------------------------
(***************************************************************************)
(* The commands of lib.rs (pause, seek, volume, danmaku, the play of the   *)
(* callback) down to the device, for both casters.                         *)
(*                                                                         *)
(* The Bilibili caster sends one request to the cloud and simulates the    *)
(* progress with a clock of its own (LocalProgressTracker).  The DLNA      *)
(* caster plays a song with three actions (Stop, SetAVTransportURI, Play)  *)
(* and sets the volume with two, and tries one endpoint after the other    *)
(* for each until one answers (avtransport_action_compat).  A request may  *)
(* be refused, be carried out with its answer lost, or run into its        *)
(* timeout.  How a DLNA renderer is sought is in DlnaCaster.               *)
(***************************************************************************)
EXTENDS Integers, Sequences, FiniteSets

CONSTANTS
    Callers,     \* threads of the UI, and the one that plays songs
    Duties,      \* the commands each of them gives
    Kinds,       \* the casters to look at
    Candidates,  \* control paths tried after the published one
    MaxSecs,     \* bound: positions, and the time a command is under way
    MaxCommands  \* bound: commands of each caller

ASSUME CommandsAssumption ==
    /\ IsFiniteSet(Callers)
    /\ Kinds \subseteq {"dlna", "bilibili"}
    /\ MaxCommands \in [Callers -> Nat]
    /\ Duties \in [Callers -> SUBSET {"play", "toggle", "seek", "louder", "danmaku"}]
    /\ {Candidates, MaxSecs} \subseteq Nat

\* In half seconds (lib.rs, dlna_controller.rs, retry_cast_request).
SOAP_TIMEOUT == 6
SOAP_TIMEOUT_COMPAT == 3
API_TIMEOUT == 6
RETRY_PAUSE == 2
ANR_DEADLINE == 10

VARIABLES
    kind,        \* the engine's caster
    is_playing,  \* EngineContext::is_playing
    clock,       \* LocalProgressTracker
    danmaku,     \* BilibiliCaster::danmaku, 0 or 1
    device,      \* the TV or renderer
    transport,   \* DlnaCaster::transport: who holds it
    call,        \* the command of each caller
    calm,        \* history: what no failure and no overlap has disturbed; that
                 \* no song was played over a pause with is_playing left as it was
    drift,       \* history: how far the clock may be ahead or behind
    volumes,     \* history: volume commands begun and acknowledged
    given        \* commands each caller has given

vars == <<kind, is_playing, clock, danmaku, device, transport, call, calm, drift, volumes, given>>

None == -1
Nobody == "nobody"

\* pc; the command and its argument; which of its actions, endpoint and attempt;
\* whether the device carried out this attempt, or any; no other command
\* interfered; the ticks it has been under way; the half seconds its caller has
\* waited, up to the deadline and one more.
NoCall == [pc |-> "idle", op |-> "louder", arg |-> 0, step |-> 1, form |-> 1, attempt |-> 0,
           done |-> FALSE, ran |-> FALSE, alone |-> TRUE, waited |-> 0, spent |-> 0]

Init ==
    /\ kind \in Kinds
    /\ is_playing = TRUE
    /\ clock = [running |-> 0, started |-> FALSE, paused_at |-> None]
    /\ danmaku = 0
    /\ device = [playing |-> FALSE, pos |-> 0, danmaku |-> 0, volume |-> 0]
    /\ transport = Nobody
    /\ call = [c \in Callers |-> NoCall]
    /\ calm = [clock |-> FALSE, playing |-> FALSE, stored |-> FALSE, danmaku |-> FALSE, volume |-> TRUE]
    /\ drift = [ahead |-> 0, behind |-> 0]
    /\ volumes = [begun |-> 0, ok |-> 0]
    /\ given = [c \in Callers |-> 0]

ClockOps == {"play", "seek", "pause", "resume"}

Active(c) == call[c].pc # "idle"

-----------------------------------------------------------------------------
\* LocalProgressTracker: start_offset and started_at are kept as their sum,
\* running_secs, which runs on while the clock is paused.

Shown == IF clock.paused_at = None THEN clock.running ELSE clock.paused_at

RunsFrom(pos) == [running |-> pos, started |-> TRUE, paused_at |-> None]

\* Faulty: the clock goes on as if it had not been paused.
ResumedUnaware == [clock EXCEPT !.paused_at = None]

Resumed == IF clock.paused_at = None THEN clock ELSE RunsFrom(clock.paused_at)

\* The clock before the request is sent.
ClockBefore(op, arg) ==
    CASE op = "pause"  -> [clock EXCEPT !.paused_at = clock.running]
      [] op = "resume" -> Resumed
      [] op = "seek"   -> RunsFrom(arg)
      [] OTHER         -> clock

-----------------------------------------------------------------------------
\* Requests.

\* The actions of a command: Stop, SetAVTransportURI and Play of reload_song_at,
\* get_volume and set_volume; one request else.
Steps(op) ==
    CASE kind = "dlna" /\ op = "play"   -> 3
      [] kind = "dlna" /\ op = "louder" -> 2
      [] OTHER                          -> 1

\* A Stop that fails does not matter.
MayFail(op, step) == kind = "dlna" /\ op = "play" /\ step = 1

\* The endpoints of an action, those of a play but not of its Stop being asked
\* again after a timeout when again is FALSE: send_cmd; the native action for
\* the volume; else the published endpoint, the native action and the candidates
\* of avtransport_action_compat.
RequestsOf(op, step, again) ==
    LET shared(t) == [timeout |-> t, retries |-> again \/ (op = "play" /\ ~MayFail(op, step))]
        native == [timeout |-> SOAP_TIMEOUT, retries |-> FALSE]
    IN IF kind = "bilibili" THEN <<shared(API_TIMEOUT)>>
       ELSE IF op = "louder" THEN <<native>>
       ELSE <<shared(SOAP_TIMEOUT), native>> \o [i \in 1 .. Candidates |-> shared(SOAP_TIMEOUT_COMPAT)]

\* Faulty: every command is sent again.
RequestsAgain(op, step) == RequestsOf(op, step, TRUE)

Requests(op, step) == RequestsOf(op, step, FALSE)

Request(c) == Requests(call[c].op, call[c].step)[call[c].form]

\* One caller waits t half seconds more, and so do those who wait for its
\* transport lock; a play has time.
Waits(t, c) ==
    [d \in Callers |->
        IF call[d].op # "play" /\ (d = c \/ (transport = c /\ call[d].pc = "begun" /\ call[d].op # "louder"))
        THEN [call[d] EXCEPT !.spent = IF @ + t > ANR_DEADLINE THEN ANR_DEADLINE + 1 ELSE @ + t]
        ELSE call[d]]

\* The device after it has carried out a caller's request; a new URI alone
\* does not make it play.
Carried(op, arg, step) ==
    CASE op = "play" /\ step = Steps(op) -> [device EXCEPT !.playing = TRUE, !.pos = 0, !.danmaku = arg]
      [] op = "play" /\ step # Steps(op) -> [device EXCEPT !.playing = @ /\ step # 1]
      [] op = "seek"    -> [device EXCEPT !.pos = arg]
      [] op = "pause"   -> [device EXCEPT !.playing = FALSE]
      [] op = "resume"  -> [device EXCEPT !.playing = TRUE]
      [] op = "danmaku" -> [device EXCEPT !.danmaku = arg]
      [] op = "louder"  -> IF kind = "bilibili" THEN [device EXCEPT !.volume = @ + 1]
                           ELSE IF step = 1 THEN device ELSE [device EXCEPT !.volume = arg + 1]

-----------------------------------------------------------------------------
\* A command begins.

\* Two commands that write the same clock or setting.
Conflict(p, q) == {p, q} \subseteq ClockOps \/ {p, q} \subseteq {"play", "danmaku"} \/ {p, q} = {"louder"}

\* is_playing stays as it is until a command is known to be carried out.
Begins(c, op, arg) ==
    LET others == {d \in Callers : Active(d) /\ Conflict(call[d].op, op)} IN
    /\ ~Active(c) /\ given[c] < MaxCommands[c]
    /\ given' = [given EXCEPT ![c] = @ + 1]
    /\ call' = [d \in Callers |->
                   IF d = c THEN [NoCall EXCEPT !.pc = "begun", !.op = op, !.arg = arg, !.alone = others = {}]
                   ELSE IF d \in others THEN [call[d] EXCEPT !.alone = FALSE] ELSE call[d]]
    /\ UNCHANGED <<kind, clock, danmaku, device, transport, calm, drift>>

\* Faulty: the new state is stored before it is reached.
TogglesEarly(c) ==
    /\ "toggle" \in Duties[c]
    /\ Begins(c, IF is_playing THEN "pause" ELSE "resume", 0)
    /\ is_playing' = ~is_playing
    /\ UNCHANGED volumes

\* toggle_pause_core reads is_playing and lets go of it.
Toggles(c) ==
    /\ "toggle" \in Duties[c]
    /\ Begins(c, IF is_playing THEN "pause" ELSE "resume", 0)
    /\ UNCHANGED <<is_playing, volumes>>

\* The callback or a recast: one song at a time (playback_lock).
PlayBegins(c) ==
    /\ "play" \in Duties[c]
    /\ \A d \in Callers : ~(Active(d) /\ call[d].op = "play")
    /\ Begins(c, "play", 0)
    /\ UNCHANGED <<is_playing, volumes>>

jump_to_secs(c) ==
    /\ "seek" \in Duties[c]
    /\ kind = "bilibili"
    /\ \E secs \in 0 .. 1 : Begins(c, "seek", secs)
    /\ UNCHANGED <<is_playing, volumes>>

set_danmaku(c) ==
    /\ "danmaku" \in Duties[c]
    /\ kind = "bilibili"
    /\ \E on \in 0 .. 1 : Begins(c, "danmaku", on)
    /\ UNCHANGED <<is_playing, volumes>>

volume_up(c) ==
    /\ "louder" \in Duties[c]
    /\ Begins(c, "louder", 0)
    /\ volumes' = [volumes EXCEPT !.begun = @ + 1]
    /\ UNCHANGED is_playing

\* Faulty: every song starts with the default.
DefaultExtra(c) == IF call[c].op = "play" THEN 0 ELSE call[c].arg

\* What goes along with the request: a play takes the setting as it is now.
Extra(c) == IF call[c].op = "play" THEN danmaku ELSE call[c].arg

\* The clock is changed, or the transport lock taken, and the request sent.
\* What a TV that is paused makes of a seek is not known.
Sends(c) ==
    LET op == call[c].op
        locks == kind = "dlna" /\ op # "louder"
        unclear == op = "seek" /\ ~device.playing
    IN /\ call[c].pc = "begun"
       /\ locks => transport = Nobody
       /\ transport' = IF locks THEN c ELSE transport
       /\ clock' = IF kind = "bilibili" THEN ClockBefore(op, call[c].arg) ELSE clock
       /\ call' = [call EXCEPT ![c].pc = "sent", ![c].arg = Extra(c),
                               ![c].alone = @ /\ ~unclear]
       /\ UNCHANGED <<kind, is_playing, danmaku, device, calm, drift, volumes, given>>

-----------------------------------------------------------------------------
\* The device and the network.

CarriesOut(c) ==
    /\ call[c].pc = "sent" /\ ~call[c].done
    /\ device' = Carried(call[c].op, call[c].arg, call[c].step)
    /\ call' = [call EXCEPT ![c].done = TRUE, ![c].ran = TRUE]
    /\ UNCHANGED <<kind, is_playing, clock, danmaku, transport, calm, drift, volumes, given>>

Tick ==
    /\ kind = "bilibili"
    /\ clock.started \/ device.playing
    /\ {clock.running, device.pos} \cup {call[c].waited : c \in Callers} \subseteq 0 .. MaxSecs - 1
    /\ clock' = [clock EXCEPT !.running = IF clock.started THEN @ + 1 ELSE @]
    /\ device' = [device EXCEPT !.pos = IF device.playing THEN @ + 1 ELSE @]
    /\ call' = [c \in Callers |->
                   IF call[c].pc \in {"sent", "resend"} THEN [call[c] EXCEPT !.waited = @ + 1] ELSE call[c]]
    /\ UNCHANGED <<kind, is_playing, danmaku, transport, calm, drift, volumes, given>>

-----------------------------------------------------------------------------
\* A command goes on, or ends.

Leaves(c, calls) ==
    /\ call' = [calls EXCEPT ![c] = NoCall]
    /\ transport' = IF transport = c THEN Nobody ELSE transport

\* What the history keeps of a command that failed.
Disturbs(c) ==
    LET op == call[c].op IN
    calm' = [clock   |-> calm.clock /\ op \notin ClockOps,
             playing |-> calm.playing /\ ~(op \in ClockOps /\ (call[c].ran \/ ~call[c].alone)),
             stored  |-> calm.stored,
             danmaku |-> calm.danmaku /\ op \notin {"danmaku", "play"},
             volume  |-> calm.volume /\ (op = "louder" => call[c].alone)]

NextForm(calls, c) == [calls EXCEPT ![c].form = @ + 1, ![c].attempt = 0, ![c].done = FALSE]

NextStep(calls, c, arg) ==
    [calls EXCEPT ![c].step = @ + 1, ![c].form = 1, ![c].attempt = 0, ![c].done = FALSE, ![c].arg = arg]

\* The request failed: the next endpoint, the next action, or the command fails.
FormFails(c, calls) ==
    LET op == call[c].op
        step == call[c].step
    IN IF call[c].form < Len(Requests(op, step))
       THEN call' = NextForm(calls, c) /\ UNCHANGED <<transport, calm>>
       ELSE IF MayFail(op, step)
       THEN call' = NextStep(calls, c, call[c].arg) /\ UNCHANGED <<transport, calm>>
       ELSE Leaves(c, calls) /\ Disturbs(c)

\* A song cannot be prepared, or another one takes its place before the
\* next action.
GivesUp(c) ==
    /\ kind = "dlna" /\ call[c].op = "play"
    /\ \/ call[c].pc = "begun"
       \/ /\ call[c].pc = "sent" /\ call[c].step > 1
          /\ call[c].form = 1 /\ call[c].attempt = 0 /\ ~call[c].done
    /\ Leaves(c, call) /\ Disturbs(c)
    /\ UNCHANGED <<kind, is_playing, clock, danmaku, device, drift, volumes, given>>

\* An error code, or headers without a readable body: no timeout.
IsRefused(c) ==
    /\ call[c].pc = "sent"
    /\ FormFails(c, call)
    /\ UNCHANGED <<kind, is_playing, clock, danmaku, device, drift, volumes, given>>

\* No answer in time: retry_cast_request makes three attempts.
TimesOut(c) ==
    LET calls == Waits(Request(c).timeout, c) IN
    /\ call[c].pc = "sent"
    /\ IF Request(c).retries /\ call[c].attempt < 2
       THEN /\ call' = [calls EXCEPT ![c].pc = "resend", ![c].attempt = @ + 1]
            /\ UNCHANGED <<transport, calm>>
       ELSE FormFails(c, calls)
    /\ UNCHANGED <<kind, is_playing, clock, danmaku, device, drift, volumes, given>>

\* A second later.
Resends(c) ==
    /\ call[c].pc = "resend"
    /\ call' = [Waits(RETRY_PAUSE, c) EXCEPT ![c].pc = "sent", ![c].done = FALSE]
    /\ UNCHANGED <<kind, is_playing, clock, danmaku, device, transport, calm, drift, volumes, given>>

\* An action has its answer, and the next is sent: set_volume with the level
\* that get_volume returned.
StepAnswered(c) ==
    /\ call[c].pc = "sent" /\ call[c].done
    /\ call[c].step < Steps(call[c].op)
    /\ call' = NextStep(call, c, IF call[c].op = "louder" THEN device.volume ELSE call[c].arg)
    /\ UNCHANGED <<kind, is_playing, clock, danmaku, device, transport, calm, drift, volumes, given>>

\* What the history keeps of a command that was acknowledged.
Records(c) ==
    LET op == call[c].op
        alone == call[c].alone
        waited == call[c].waited
    IN /\ calm' = [clock   |-> IF op \in ClockOps THEN alone /\ (calm.clock \/ op \in {"play", "seek"}) ELSE calm.clock,
                   playing |-> IF op \in ClockOps THEN alone /\ (calm.playing \/ op # "seek") ELSE calm.playing,
                   stored  |-> CASE op = "play" -> is_playing'
                                 [] op \in {"pause", "resume"} -> TRUE
                                 [] OTHER -> calm.stored,
                   danmaku |-> IF op \in {"play", "danmaku"} THEN alone ELSE calm.danmaku,
                   volume  |-> calm.volume /\ (op = "louder" => alone)]
       /\ drift' = CASE op = "play"   -> [ahead |-> 0, behind |-> waited]
                     [] op = "seek"   -> [ahead |-> waited, behind |-> 0]
                     [] op = "pause"  -> [drift EXCEPT !.behind = @ + waited]
                     [] op = "resume" -> [drift EXCEPT !.ahead = @ + waited]
                     [] OTHER         -> drift
       /\ volumes' = [volumes EXCEPT !.ok = IF op = "louder" THEN @ + 1 ELSE @]

\* The command was acknowledged: only now does a play start the clock, a
\* toggle store its state and a setting count as set.  A recast stores TRUE,
\* the callback that plays the next song nothing.
Succeeds(c) ==
    LET op == call[c].op IN
    /\ call[c].pc = "sent" /\ call[c].done
    /\ call[c].step = Steps(op)
    /\ clock' = IF op = "play" /\ kind = "bilibili" THEN RunsFrom(0) ELSE clock
    /\ is_playing' \in CASE op = "play"   -> {is_playing, TRUE}
                         [] op = "pause"  -> {FALSE}
                         [] op = "resume" -> {TRUE}
                         [] OTHER         -> {is_playing}
    /\ danmaku' = IF op = "danmaku" THEN call[c].arg ELSE danmaku
    /\ Records(c)
    /\ Leaves(c, call)
    /\ UNCHANGED <<kind, device, given>>

-----------------------------------------------------------------------------

GoesOn(c) ==
    IsRefused(c) \/ TimesOut(c) \/ Resends(c) \/ GivesUp(c) \/ StepAnswered(c) \/ Succeeds(c)

Next ==
    \/ Tick
    \/ \E c \in Callers :
          \/ Toggles(c) \/ PlayBegins(c) \/ jump_to_secs(c) \/ set_danmaku(c) \/ volume_up(c)
          \/ Sends(c) \/ CarriesOut(c) \/ GoesOn(c)

Spec == Init /\ [][Next]_vars
=============================================================================
