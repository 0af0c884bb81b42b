--------------------------- MODULE CommandsProofs ---------------------------
(***************************************************************************)
(* What the run of Commands checks for two threads of two commands each,   *)
(* proved for any number of threads, commands, control paths and for any   *)
(* length of time.                                                         *)
(***************************************************************************)
EXTENDS MCCommands, FiniteSetTheorems, TLAPS

-----------------------------------------------------------------------------
(* The invariants.                                                         *)

Ops == {"play", "seek", "pause", "resume", "danmaku", "louder"}
Call == [pc : {"idle", "begun", "sent", "resend"}, op : Ops, arg : Nat, step : Nat, form : Nat,
         attempt : Nat, done : BOOLEAN, ran : BOOLEAN, alone : BOOLEAN, waited : Nat, spent : Nat]

CalmTypes ==
    [clock : BOOLEAN, playing : BOOLEAN, stored : BOOLEAN, danmaku : BOOLEAN, volume : BOOLEAN]

Types ==
    /\ kind \in {"dlna", "bilibili"}
    /\ is_playing \in BOOLEAN
    /\ clock \in [running : Nat, started : BOOLEAN, paused_at : Nat \cup {None}]
    /\ danmaku \in Nat
    /\ device \in [playing : BOOLEAN, pos : Nat, danmaku : Nat, volume : Nat]
    /\ transport \in Callers \cup {Nobody}
    /\ call \in [Callers -> Call]
    /\ calm \in CalmTypes
    /\ drift \in [ahead : Nat, behind : Nat]
    /\ volumes \in [begun : Nat, ok : Nat]
    /\ given \in [Callers -> Nat]

\* A command under way, of one of these kinds.
Busy(c, ops) == call[c].pc # "idle" /\ call[c].op \in ops
Sent(c) == call[c].pc \in {"sent", "resend"}

\* The endpoints of the action a command is at.
Endpoints(c) == Len(Requests(call[c].op, call[c].step))

\* The last action of a command was carried out.
Reached(c) == call[c].done /\ call[c].step = Steps(call[c].op)

\* What a command has done fits how far it is.
Stages ==
    \A c \in Callers :
        /\ call[c].pc \in {"idle", "begun"} => ~call[c].done /\ ~call[c].ran /\ call[c].waited = 0
        /\ Active(c) => call[c].step \in 1 .. Steps(call[c].op) /\ call[c].form \in 1 .. Endpoints(c)
        /\ call[c].done => call[c].ran
        /\ Busy(c, {"louder"}) => call[c].pc # "resend"

\* Two commands under way that write the same know of each other.
Overlaps ==
    \A c, d \in Callers :
        c # d /\ Active(c) /\ Active(d) /\ Conflict(call[c].op, call[d].op) => ~call[c].alone

\* Nothing under way has made the device play or stop, and nothing may have.
Untouched == \A c \in Callers : Busy(c, ClockOps) => call[c].alone /\ (call[c].ran => call[c].op = "seek")

\* is_playing and the device, but for a play that left is_playing as it was.
Agree == /\ is_playing => device.playing
         /\ device.playing /\ calm.stored => is_playing

PlayingInv ==
    /\ calm.playing /\ Untouched => Agree
    /\ \A c \in Callers : call[c].alone /\ Busy(c, {"play", "resume"}) /\ Reached(c) => device.playing
    /\ \A c \in Callers : call[c].alone /\ Busy(c, {"pause"}) /\ call[c].done => ~device.playing
    /\ \A c \in Callers : call[c].alone /\ Busy(c, {"seek"}) /\ Sent(c) => device.playing

Switches == {"play", "danmaku"}

SettingInv ==
    /\ calm.danmaku /\ (\A c \in Callers : ~Busy(c, Switches)) => device.danmaku = danmaku
    /\ \A c \in Callers : call[c].alone /\ Busy(c, Switches) =>
          /\ Reached(c) => device.danmaku = call[c].arg
          /\ call[c].op = "play" /\ Sent(c) => call[c].arg = danmaku

\* Volume commands that have raised the volume, and those that may yet.
Raised == {c \in Callers : Busy(c, {"louder"}) /\ Reached(c)}
Raising == {c \in Callers : Busy(c, {"louder"}) /\ ~Reached(c)}

\* An answer to get_volume is never beyond what the commands begun allow, and
\* while no two overlap it is the volume.
VolumeInv ==
    /\ device.volume + Cardinality(Raising) =< volumes.begun
    /\ kind = "bilibili" => volumes.ok + Cardinality(Raised) =< device.volume
    /\ kind = "dlna" /\ calm.volume => volumes.ok =< device.volume
    /\ \A c \in Callers : Busy(c, {"louder"}) /\ call[c].step = 2 =>
          /\ c \in Raising => call[c].arg + Cardinality(Raising) =< volumes.begun
          /\ calm.volume => volumes.ok =< call[c].arg
          /\ call[c].alone /\ c \in Raised => device.volume = call[c].arg + 1

\* How far the clock is off the device, and no more.
Off(ahead, behind) == Shown - device.pos =< ahead /\ device.pos - Shown =< behind

Resting == \A c \in Callers : Busy(c, ClockOps) => call[c].alone /\ call[c].pc = "begun"

\* While no clock command has been sent the clock is off by what the history
\* keeps; a command that was sent has moved one of the two, and the other follows when
\* the device has carried it out.
ClockInv ==
    /\ calm.clock => clock.started
    /\ calm.clock /\ Resting =>
          /\ Off(drift.ahead, drift.behind)
          /\ device.playing = (clock.paused_at = None)
          /\ is_playing => clock.paused_at = None
    /\ \A c \in Callers : call[c].alone /\ Busy(c, ClockOps) =>
          /\ call[c].op = "pause" /\ calm.clock =>
                IF Sent(c) THEN /\ clock.paused_at # None
                                /\ Off(drift.ahead, drift.behind + call[c].waited)
                                /\ call[c].ran => ~device.playing
                           ELSE clock.paused_at = None
          /\ call[c].op = "resume" /\ calm.clock /\ Sent(c) =>
                /\ clock.paused_at = None
                /\ Off(drift.ahead + call[c].waited, drift.behind)
                /\ call[c].ran => device.playing
          /\ call[c].op = "seek" /\ Sent(c) =>
                /\ clock.started /\ clock.paused_at = None
                /\ clock.running = call[c].arg + call[c].waited
                /\ call[c].ran => call[c].arg =< device.pos /\ device.pos =< clock.running
          /\ call[c].op = "play" /\ call[c].ran => device.playing /\ device.pos =< call[c].waited

Inv ==
    /\ Types /\ Stages /\ Overlaps /\ PlayingInv /\ SettingInv /\ VolumeInv
    /\ kind = "bilibili" => ClockInv

-----------------------------------------------------------------------------
(* What the actions do, field by field.                                    *)

Like(d) ==
    /\ call'[d].pc = call[d].pc /\ call'[d].op = call[d].op /\ call'[d].arg = call[d].arg
    /\ call'[d].step = call[d].step /\ call'[d].form = call[d].form /\ call'[d].done = call[d].done
    /\ call'[d].ran = call[d].ran /\ call'[d].waited = call[d].waited

Same(d) == Like(d) /\ call'[d].alone = call[d].alone

OthersSame(c) == \A d \in Callers : d # c => Same(d)

\* A caller's own command, but for its stage, its endpoint and what was done.
Own(c) ==
    /\ call'[c].op = call[c].op /\ call'[c].alone = call[c].alone /\ call'[c].waited = call[c].waited

Starts(c, op, arg) ==
    /\ call[c].pc = "idle"
    /\ call'[c].pc = "begun" /\ call'[c].op = op /\ call'[c].arg = arg
    /\ call'[c].step = 1 /\ call'[c].form = 1
    /\ ~call'[c].done /\ ~call'[c].ran /\ call'[c].waited = 0
    /\ \A d \in Callers : d # c =>
          /\ Like(d)
          /\ call'[d].alone => call[d].alone
          /\ Active(d) /\ Conflict(call[d].op, op) => ~call'[d].alone /\ ~call'[c].alone
    /\ UNCHANGED <<kind, clock, danmaku, device, calm, drift>>

\* A request is given up, or an action is answered.
Moves(c) ==
    /\ OthersSame(c) /\ Own(c)
    /\ call'[c].ran = call[c].ran
    /\ UNCHANGED <<kind, is_playing, clock, danmaku, device, calm, drift, volumes>>

Repeats(c) ==
    /\ Moves(c) /\ call'[c].arg = call[c].arg
    /\ call'[c].step = call[c].step /\ call'[c].form = call[c].form
    /\ \/ /\ call[c].pc = "sent" /\ call'[c].pc = "resend" /\ call'[c].done = call[c].done
          /\ call[c].op # "louder"
       \/ /\ call[c].pc = "resend" /\ call'[c].pc = "sent" /\ ~call'[c].done

\* The next endpoint, or the next action of a play.
GoesOver(c) ==
    /\ Moves(c) /\ call'[c].arg = call[c].arg
    /\ call[c].pc = "sent" /\ call'[c].pc = "sent" /\ ~call'[c].done
    /\ call[c].op # "louder" /\ call'[c].step \in 1 .. Steps(call[c].op)
    /\ call'[c].form \in 1 .. Len(Requests(call[c].op, call'[c].step))

TakesLevel(c) ==
    /\ Moves(c) /\ call'[c].arg = device.volume
    /\ call[c].pc = "sent" /\ call'[c].pc = "sent" /\ call[c].done /\ ~call'[c].done
    /\ call[c].op = "louder" /\ kind = "dlna"
    /\ call[c].step = 1 /\ call'[c].step = 2 /\ call'[c].form = 1

Ends(c) ==
    /\ OthersSame(c)
    /\ call[c].pc # "idle"
    /\ call'[c].pc = "idle" /\ ~call'[c].done /\ ~call'[c].ran /\ call'[c].waited = 0

Fails(c) ==
    /\ Ends(c) /\ Disturbs(c)
    /\ UNCHANGED <<kind, is_playing, clock, danmaku, device, drift, volumes>>

Wins(c) ==
    /\ Ends(c) /\ Records(c)
    /\ call[c].pc = "sent" /\ Reached(c)
    /\ clock' = IF call[c].op = "play" /\ kind = "bilibili" THEN RunsFrom(0) ELSE clock
    /\ call[c].op = "pause" => ~is_playing'
    /\ call[c].op = "resume" => is_playing'
    /\ call[c].op \in {"seek", "danmaku", "louder"} => is_playing' = is_playing
    /\ is_playing' \in BOOLEAN
    /\ danmaku' = IF call[c].op = "danmaku" THEN call[c].arg ELSE danmaku
    /\ UNCHANGED <<kind, device>>

IsSent(c) ==
    /\ OthersSame(c)
    /\ call[c].pc = "begun" /\ call'[c].pc = "sent" /\ call'[c].op = call[c].op /\ call'[c].arg = Extra(c)
    /\ call'[c].step = call[c].step /\ call'[c].form = call[c].form
    /\ call'[c].done = call[c].done /\ call'[c].ran = call[c].ran /\ call'[c].waited = call[c].waited
    /\ call'[c].alone => call[c].alone /\ (call[c].op = "seek" => device.playing)
    /\ clock' = IF kind = "bilibili" THEN ClockBefore(call[c].op, call[c].arg) ELSE clock
    /\ UNCHANGED <<kind, is_playing, danmaku, device, calm, drift, volumes>>

Runs(c) ==
    /\ OthersSame(c) /\ Own(c)
    /\ call[c].pc = "sent" /\ call'[c].pc = "sent" /\ call'[c].arg = call[c].arg
    /\ call'[c].step = call[c].step /\ call'[c].form = call[c].form
    /\ ~call[c].done /\ call'[c].done /\ call'[c].ran
    /\ device' = Carried(call[c].op, call[c].arg, call[c].step)
    /\ UNCHANGED <<kind, is_playing, clock, danmaku, calm, drift, volumes>>

Ticks ==
    /\ kind = "bilibili"
    /\ \A d \in Callers :
          /\ call'[d].pc = call[d].pc /\ call'[d].op = call[d].op /\ call'[d].arg = call[d].arg
          /\ call'[d].step = call[d].step /\ call'[d].form = call[d].form /\ call'[d].done = call[d].done
          /\ call'[d].ran = call[d].ran /\ call'[d].alone = call[d].alone
          /\ call'[d].waited = IF Sent(d) THEN call[d].waited + 1 ELSE call[d].waited
    /\ clock'.started = clock.started /\ clock'.paused_at = clock.paused_at
    /\ clock'.running = IF clock.started THEN clock.running + 1 ELSE clock.running
    /\ device'.playing = device.playing /\ device'.danmaku = device.danmaku /\ device'.volume = device.volume
    /\ device'.pos = IF device.playing THEN device.pos + 1 ELSE device.pos
    /\ UNCHANGED <<kind, is_playing, danmaku, calm, drift, volumes>>

\* What a step comes to.
StartsOne(c) ==
  /\ is_playing' = is_playing
  /\ \/ Starts(c, "louder", 0) /\ volumes' = [volumes EXCEPT !.begun = @ + 1]
     \/ UNCHANGED volumes /\ \E op \in Ops \ {"louder"} : \E arg \in Nat :
           Starts(c, op, arg) /\ (op = "pause" => is_playing)

Effect ==
    \/ Ticks
    \/ \E c \in Callers :
          \/ StartsOne(c) \/ IsSent(c) \/ Runs(c) \/ Repeats(c) \/ GoesOver(c) \/ TakesLevel(c)
          \/ Fails(c) \/ Wins(c)

-----------------------------------------------------------------------------
(* Every action has one of these effects, and keeps the types.             *)

LEMMA BeginsEffect ==
    ASSUME Types, NEW c \in Callers, NEW op \in Ops, NEW arg \in Nat, Begins(c, op, arg)
    PROVE  Starts(c, op, arg) /\ call' \in [Callers -> Call] /\ given' \in [Callers -> Nat]
<1> DEFINE others == {d \in Callers : Active(d) /\ Conflict(call[d].op, op)}
<1>1. call \in [Callers -> Call] /\ given \in [Callers -> Nat]
  BY DEF Types
<1>2. call[c].pc = "idle" /\ c \notin others
  BY DEF Begins, Active
<1>3. call' = [d \in Callers |->
                  IF d = c THEN [NoCall EXCEPT !.pc = "begun", !.op = op, !.arg = arg, !.alone = others = {}]
                  ELSE IF d \in others THEN [call[d] EXCEPT !.alone = FALSE] ELSE call[d]]
  BY DEF Begins
<1>4. NoCall \in Call
  BY DEF NoCall, Call, Ops
<1>5. \A d \in Callers : d # c => call'[d] = IF d \in others THEN [call[d] EXCEPT !.alone = FALSE] ELSE call[d]
  BY <1>3
<1>6. call'[c] = [NoCall EXCEPT !.pc = "begun", !.op = op, !.arg = arg, !.alone = others = {}]
  BY <1>3
<1> HIDE DEF others
<1>7. ASSUME NEW d \in Callers, d # c
      PROVE  call'[d] \in Call /\ Like(d) /\ (call'[d].alone => call[d].alone) /\ (d \in others => ~call'[d].alone)
  <2>1. CASE d \in others
    BY <1>1, <1>5, <1>7, <2>1 DEF Call, Like
  <2>2. CASE d \notin others
    BY <1>1, <1>5, <1>7, <2>2 DEF Call, Like
  <2> QED
    BY <2>1, <2>2
<1>8. /\ call'[c] \in Call
      /\ call'[c].pc = "begun" /\ call'[c].op = op /\ call'[c].arg = arg
      /\ call'[c].step = 1 /\ call'[c].form = 1
      /\ ~call'[c].done /\ ~call'[c].ran /\ call'[c].waited = 0
  BY ZenonT(60), <1>4, <1>6 DEF NoCall, Call
<1>9. \A d \in Callers : d \in others => ~call'[c].alone
  BY <1>6 DEF NoCall
<1>10. \A d \in Callers : call'[d] \in Call
  BY <1>7, <1>8
<1>11. call' \in [Callers -> Call]
  BY <1>3, <1>10
<1>12. given' = [given EXCEPT ![c] = @ + 1]
  BY DEF Begins
<1>13. given' \in [Callers -> Nat]
  BY <1>1, <1>12
<1> QED
  BY <1>2, <1>7, <1>8, <1>9, <1>11, <1>13 DEF Starts, Begins, others

LEMMA SendsEffect ==
    ASSUME Types, NEW c \in Callers, Sends(c)
    PROVE  IsSent(c) /\ call' \in [Callers -> Call] /\ transport' \in Callers \cup {Nobody}
<1>1. call \in [Callers -> Call] /\ transport \in Callers \cup {Nobody} /\ danmaku \in Nat
  BY DEF Types
<1>2. Extra(c) \in Nat
  BY <1>1 DEF Extra, Call
<1> DEFINE alone == call[c].alone /\ ~(call[c].op = "seek" /\ ~device.playing)
<1>3. call' = [call EXCEPT ![c].pc = "sent", ![c].arg = Extra(c), ![c].alone = alone]
  BY <1>1 DEF Sends
<1>4. \A d \in Callers : d # c => call'[d] = call[d]
  BY <1>1, <1>3
<1>5. call'[c] = [call[c] EXCEPT !.pc = "sent", !.arg = Extra(c), !.alone = alone]
  BY <1>1, <1>3
<1>6. call[c] \in Call /\ alone \in BOOLEAN
  BY <1>1 DEF Call
<1> HIDE DEF alone
<1>7. /\ call'[c] \in Call /\ call'[c].pc = "sent" /\ call'[c].op = call[c].op /\ call'[c].arg = Extra(c)
      /\ call'[c].step = call[c].step /\ call'[c].form = call[c].form
      /\ call'[c].done = call[c].done /\ call'[c].ran = call[c].ran
      /\ call'[c].waited = call[c].waited /\ call'[c].alone = alone
  BY <1>2, <1>5, <1>6 DEF Call
<1>8. call' \in [Callers -> Call]
  BY <1>1, <1>3, <1>4, <1>7
<1>9. OthersSame(c)
  BY <1>4 DEF OthersSame, Same, Like
<1> QED
  BY <1>1, <1>7, <1>8, <1>9 DEF IsSent, Sends, alone

LEMMA CarriesOutEffect ==
    ASSUME Types, NEW c \in Callers, CarriesOut(c)
    PROVE  Runs(c) /\ call' \in [Callers -> Call]
<1>1. call \in [Callers -> Call]
  BY DEF Types
<1>2. call' = [call EXCEPT ![c].done = TRUE, ![c].ran = TRUE]
  BY DEF CarriesOut
<1>3. \A d \in Callers : d # c => call'[d] = call[d]
  BY <1>1, <1>2
<1>4. call'[c] = [call[c] EXCEPT !.done = TRUE, !.ran = TRUE]
  BY <1>1, <1>2
<1>5. /\ call'[c] \in Call /\ Own(c) /\ call'[c].pc = call[c].pc /\ call'[c].arg = call[c].arg
      /\ call'[c].step = call[c].step /\ call'[c].form = call[c].form /\ call'[c].done /\ call'[c].ran
  BY ZenonT(60), <1>1, <1>4 DEF Call, Own
<1>6. call' \in [Callers -> Call]
  BY <1>1, <1>2, <1>3, <1>5
<1> QED
  BY <1>3, <1>5, <1>6 DEF Runs, OthersSame, Same, Like, CarriesOut

LEMMA TickEffect ==
    ASSUME Types, Tick
    PROVE  /\ Ticks
           /\ call' \in [Callers -> Call]
           /\ clock' \in [running : Nat, started : BOOLEAN, paused_at : Nat \cup {None}]
           /\ device' \in [playing : BOOLEAN, pos : Nat, danmaku : Nat, volume : Nat]
<1>1. call \in [Callers -> Call]
  BY DEF Types
<1>2. call' = [d \in Callers |->
                  IF call[d].pc \in {"sent", "resend"} THEN [call[d] EXCEPT !.waited = @ + 1] ELSE call[d]]
  BY DEF Tick
<1>3. ASSUME NEW d \in Callers
      PROVE  /\ call'[d] \in Call
             /\ call'[d].pc = call[d].pc /\ call'[d].op = call[d].op /\ call'[d].arg = call[d].arg
             /\ call'[d].step = call[d].step /\ call'[d].form = call[d].form /\ call'[d].done = call[d].done
             /\ call'[d].ran = call[d].ran /\ call'[d].alone = call[d].alone
             /\ call'[d].waited = IF Sent(d) THEN call[d].waited + 1 ELSE call[d].waited
  <2>1. call'[d] = IF call[d].pc \in {"sent", "resend"} THEN [call[d] EXCEPT !.waited = @ + 1] ELSE call[d]
    BY <1>2
  <2> QED
    BY <1>1, <2>1 DEF Call, Sent
<1>4. call' \in [Callers -> Call]
  BY <1>2, <1>3
<1>5. /\ clock'.started = clock.started /\ clock'.paused_at = clock.paused_at
      /\ clock'.running = IF clock.started THEN clock.running + 1 ELSE clock.running
      /\ clock' \in [running : Nat, started : BOOLEAN, paused_at : Nat \cup {None}]
  BY DEF Types, Tick
<1>6. /\ device'.playing = device.playing /\ device'.danmaku = device.danmaku /\ device'.volume = device.volume
      /\ device'.pos = IF device.playing THEN device.pos + 1 ELSE device.pos
      /\ device' \in [playing : BOOLEAN, pos : Nat, danmaku : Nat, volume : Nat]
  BY DEF Types, Tick
<1> QED
  BY <1>3, <1>4, <1>5, <1>6 DEF Ticks, Tick

LEMMA WaitsEffect ==
    ASSUME Types, NEW c \in Callers, NEW t \in Nat
    PROVE  /\ Waits(t, c) \in [Callers -> Call]
           /\ \A d \in Callers : \E s \in Nat : Waits(t, c)[d] = [call[d] EXCEPT !.spent = s]
<1>1. \A d \in Callers : call[d] \in Call
  BY DEF Types
<1>2. ASSUME NEW d \in Callers
      PROVE  \E s \in Nat : Waits(t, c)[d] = [call[d] EXCEPT !.spent = s] /\ Waits(t, c)[d] \in Call
  <2>1. CASE call[d].op # "play" /\ (d = c \/ (transport = c /\ call[d].pc = "begun" /\ call[d].op # "louder"))
    <3> DEFINE s == IF call[d].spent + t > ANR_DEADLINE THEN ANR_DEADLINE + 1 ELSE call[d].spent + t
    <3>1. s \in Nat
      BY <1>1 DEF Call, ANR_DEADLINE
    <3>2. Waits(t, c)[d] = [call[d] EXCEPT !.spent = s]
      BY <2>1 DEF Waits
    <3> QED
      BY <1>1, <3>1, <3>2 DEF Call
  <2>2. CASE ~(call[d].op # "play" /\ (d = c \/ (transport = c /\ call[d].pc = "begun" /\ call[d].op # "louder")))
    <3>1. Waits(t, c)[d] = call[d]
      BY <2>2 DEF Waits
    <3>2. call[d].spent \in Nat /\ call[d] = [call[d] EXCEPT !.spent = call[d].spent]
      BY <1>1 DEF Call
    <3> QED
      BY <1>1, <3>1, <3>2
  <2> QED
    BY <2>1, <2>2
<1> QED
  BY <1>2 DEF Waits

\* What FormFails and the like do to calls, which are the calls with some time waited.
Waited(calls) ==
    /\ calls \in [Callers -> Call]
    /\ \A d \in Callers : \E s \in Nat : calls[d] = [call[d] EXCEPT !.spent = s]

LEMMA WaitedFields ==
    ASSUME Types, NEW calls, Waited(calls), NEW d \in Callers
    PROVE  /\ calls[d] \in Call
           /\ calls[d].pc = call[d].pc /\ calls[d].op = call[d].op /\ calls[d].arg = call[d].arg
           /\ calls[d].step = call[d].step /\ calls[d].form = call[d].form /\ calls[d].done = call[d].done
           /\ calls[d].attempt = call[d].attempt
           /\ calls[d].ran = call[d].ran /\ calls[d].alone = call[d].alone /\ calls[d].waited = call[d].waited
<1>1. PICK s \in Nat : calls[d] = [call[d] EXCEPT !.spent = s]
  BY DEF Waited
<1>2. call[d] \in Call /\ calls[d] \in Call
  BY DEF Types, Waited
<1> QED
  BY <1>1, <1>2 DEF Call

LEMMA CallWaited ==
    ASSUME Types
    PROVE  Waited(call)
<1>1. call \in [Callers -> Call]
  BY DEF Types
<1>2. ASSUME NEW d \in Callers
      PROVE  \E s \in Nat : call[d] = [call[d] EXCEPT !.spent = s]
  <2>1. call[d].spent \in Nat /\ call[d] = [call[d] EXCEPT !.spent = call[d].spent]
    BY <1>1 DEF Call
  <2> QED
    BY <2>1
<1> QED
  BY <1>1, <1>2 DEF Waited

LEMMA LeavesEffect ==
    ASSUME Types, NEW c \in Callers, NEW calls, Waited(calls), call[c].pc # "idle", Leaves(c, calls)
    PROVE  Ends(c) /\ call' \in [Callers -> Call] /\ transport' \in Callers \cup {Nobody}
<1>1. calls \in [Callers -> Call] /\ call' = [calls EXCEPT ![c] = NoCall] /\ NoCall \in Call
  BY DEF Waited, Leaves, NoCall, Call, Ops
<1>2. call' \in [Callers -> Call] /\ call'[c] = NoCall /\ \A d \in Callers : d # c => call'[d] = calls[d]
  BY <1>1
<1>3. OthersSame(c)
  BY <1>2, WaitedFields DEF OthersSame, Same, Like
<1>4. call'[c].pc = "idle" /\ ~call'[c].done /\ ~call'[c].ran /\ call'[c].waited = 0
  BY <1>2 DEF NoCall
<1>5. transport' \in Callers \cup {Nobody}
  BY DEF Types, Leaves
<1> QED
  BY <1>2, <1>3, <1>4, <1>5 DEF Ends

\* What can be sent for a command.
LEMMA RequestsShape ==
    ASSUME Types, NEW op \in Ops, NEW step
    PROVE  /\ Requests(op, step) \in Seq([timeout : Nat, retries : BOOLEAN])
           /\ Len(Requests(op, step)) \in Nat \ {0}
           /\ op = "louder" => /\ \A i \in 1 .. Len(Requests(op, step)) : ~Requests(op, step)[i].retries
                               /\ Len(Requests(op, step)) = 1
<1> DEFINE R == [timeout : Nat, retries : BOOLEAN]
           again == FALSE \/ (op = "play" /\ ~MayFail(op, step))
           shared(t) == [timeout |-> t, retries |-> again]
           native == [timeout |-> SOAP_TIMEOUT, retries |-> FALSE]
<1>1. \A t \in Nat : shared(t) \in R
  OBVIOUS
<1>2. native \in R
  BY DEF SOAP_TIMEOUT
<1>3. {SOAP_TIMEOUT, SOAP_TIMEOUT_COMPAT, API_TIMEOUT} \subseteq Nat
  BY DEF SOAP_TIMEOUT, SOAP_TIMEOUT_COMPAT, API_TIMEOUT
<1>4. CASE kind = "bilibili"
  <2>1. Requests(op, step) = <<shared(API_TIMEOUT)>>
    BY <1>4 DEF Requests, RequestsOf
  <2>2. op = "louder" => ~shared(API_TIMEOUT).retries
    OBVIOUS
  <2>3. shared(API_TIMEOUT) \in R
    BY <1>1, <1>3
  <2> HIDE DEF R, shared
  <2>4. Requests(op, step) \in Seq(R) /\ Len(Requests(op, step)) = 1 /\ Requests(op, step)[1] = shared(API_TIMEOUT)
    BY <2>1, <2>3
  <2> QED
    BY <1>4, <2>2, <2>4 DEF R
<1>5. CASE kind = "dlna" /\ op = "louder"
  <2>1. Requests(op, step) = <<native>>
    BY <1>5 DEF Requests, RequestsOf
  <2>2. ~native.retries
    OBVIOUS
  <2> HIDE DEF R, native
  <2>3. Requests(op, step) \in Seq(R) /\ Len(Requests(op, step)) = 1 /\ Requests(op, step)[1] = native
    BY <1>2, <2>1
  <2> QED
    BY <1>5, <2>2, <2>3 DEF R
<1>6. CASE kind = "dlna" /\ op # "louder"
  <2> DEFINE a == shared(SOAP_TIMEOUT)
             b == [i \in 1 .. Candidates |-> shared(SOAP_TIMEOUT_COMPAT)]
  <2>1. Requests(op, step) = <<a, native>> \o b
    BY <1>6 DEF Requests, RequestsOf
  <2>2. a \in R /\ shared(SOAP_TIMEOUT_COMPAT) \in R
    BY <1>1, <1>3
  <2>3. Candidates \in Nat
    BY CommandsAssumption DEF CommandsAssumption
  <2> HIDE DEF R, native, shared, a
  <2>4. b \in Seq(R)
    BY <2>2, <2>3
  <2>5. <<a, native>> \in Seq(R) /\ Len(<<a, native>>) = 2
    BY <1>2, <2>2
  <2> HIDE DEF b
  <2>6. Requests(op, step) \in Seq(R) /\ Len(Requests(op, step)) = 2 + Len(b) /\ Len(b) \in Nat
    BY <2>1, <2>4, <2>5
  <2> QED
    BY <1>6, <2>6 DEF R
<1> QED
  BY <1>4, <1>5, <1>6 DEF Types

\* A call with some fields of its own replaced.
LEMMA NextFormEffect ==
    ASSUME Types, Stages, NEW c \in Callers, NEW calls, Waited(calls), call[c].pc = "sent",
           call[c].form < Len(Requests(call[c].op, call[c].step)), call' = NextForm(calls, c),
           UNCHANGED <<kind, is_playing, clock, danmaku, device, calm, drift, volumes>>
    PROVE  GoesOver(c) /\ call' \in [Callers -> Call]
<1>1. calls \in [Callers -> Call]
  BY DEF Waited
<1>2. call'[c] = [calls[c] EXCEPT !.form = @ + 1, !.attempt = 0, !.done = FALSE]
  BY <1>1 DEF NextForm
<1>3. \A d \in Callers : d # c => call'[d] = calls[d]
  BY <1>1 DEF NextForm
<1>4. /\ call'[c] \in Call /\ ~call'[c].done /\ call'[c].step = calls[c].step
      /\ call'[c].form = calls[c].form + 1
      /\ call'[c].pc = calls[c].pc /\ call'[c].op = calls[c].op /\ call'[c].arg = calls[c].arg
      /\ call'[c].ran = calls[c].ran /\ call'[c].alone = calls[c].alone /\ call'[c].waited = calls[c].waited
  <2> DEFINE n == calls[c].form + 1
             r == [calls[c] EXCEPT !.form = n, !.attempt = 0]
  <2>1. calls[c] \in Call /\ n \in Nat
    BY <1>1 DEF Call
  <2> HIDE DEF n
  <2>2. /\ r \in Call /\ r.form = n /\ r.step = calls[c].step
        /\ r.pc = calls[c].pc /\ r.op = calls[c].op /\ r.arg = calls[c].arg
        /\ r.ran = calls[c].ran /\ r.alone = calls[c].alone /\ r.waited = calls[c].waited
    BY <2>1 DEF Call
  <2>3. call'[c] = [r EXCEPT !.done = FALSE]
    BY <1>2, <2>1 DEF n, Call
  <2> HIDE DEF r
  <2>4. call'[c] \in Call /\ call'[c].form = n
    BY <2>2, <2>3 DEF Call
  <2> QED
    BY <2>2, <2>3, <2>4 DEF Call, n
<1>5. call' \in [Callers -> Call]
  BY <1>1, <1>3, <1>4 DEF NextForm
<1>6. OthersSame(c)
  BY <1>3, WaitedFields DEF OthersSame, Same, Like
<1>7. call[c].op \in Ops /\ call[c].form \in Nat /\ Len(Requests(call[c].op, call[c].step)) \in Nat
  BY RequestsShape DEF Types, Call
<1>8. Active(c)
  BY DEF Active
<1>9. call[c].op # "louder" /\ call[c].step \in 1 .. Steps(call[c].op)
  <2>1. call[c].form \in 1 .. Len(Requests(call[c].op, call[c].step)) /\ call[c].step \in 1 .. Steps(call[c].op)
    BY <1>8 DEF Stages, Endpoints
  <2>2. call[c].op = "louder" => Len(Requests(call[c].op, call[c].step)) = 1
    BY <1>7, RequestsShape
  <2> DEFINE n == Len(Requests(call[c].op, call[c].step))
  <2>3. call[c].form \in 1 .. n /\ call[c].form < n /\ (call[c].op = "louder" => n = 1)
    BY <2>1, <2>2
  <2> HIDE DEF n
  <2>4. call[c].op # "louder"
    BY <2>3
  <2> QED
    BY <2>1, <2>4
<1>10. call'[c].form \in 1 .. Len(Requests(call[c].op, call[c].step)) /\ call'[c].step = call[c].step
  BY <1>4, <1>7, WaitedFields
<1> QED
  BY <1>4, <1>5, <1>6, <1>9, <1>10, WaitedFields DEF GoesOver, Moves, Own

\* What the next action does to a call, whatever its argument.
LEMMA NextStepEffect ==
    ASSUME Types, NEW c \in Callers, NEW calls, Waited(calls), NEW arg \in Nat, call' = NextStep(calls, c, arg)
    PROVE  /\ call' \in [Callers -> Call] /\ OthersSame(c) /\ Own(c)
           /\ call'[c].pc = call[c].pc /\ call'[c].arg = arg /\ ~call'[c].done /\ call'[c].ran = call[c].ran
           /\ call'[c].step = call[c].step + 1 /\ call'[c].form = 1
<1>1. calls \in [Callers -> Call]
  BY DEF Waited
<1>2. call'[c] = [calls[c] EXCEPT !.step = @ + 1, !.form = 1, !.attempt = 0, !.done = FALSE, !.arg = arg]
  BY <1>1 DEF NextStep
<1>3. \A d \in Callers : d # c => call'[d] = calls[d]
  BY <1>1 DEF NextStep
<1>4. /\ call'[c] \in Call /\ ~call'[c].done /\ call'[c].step = calls[c].step + 1
      /\ call'[c].form = 1 /\ call'[c].arg = arg
      /\ call'[c].pc = calls[c].pc /\ call'[c].op = calls[c].op
      /\ call'[c].ran = calls[c].ran /\ call'[c].alone = calls[c].alone /\ call'[c].waited = calls[c].waited
  <2> DEFINE n == calls[c].step + 1
             r == [calls[c] EXCEPT !.step = n, !.form = 1, !.attempt = 0, !.arg = arg]
  <2>1. calls[c] \in Call /\ n \in Nat
    BY <1>1 DEF Call
  <2> HIDE DEF n
  <2>2. /\ r \in Call /\ r.form = 1 /\ r.step = n /\ r.arg = arg
        /\ r.pc = calls[c].pc /\ r.op = calls[c].op
        /\ r.ran = calls[c].ran /\ r.alone = calls[c].alone /\ r.waited = calls[c].waited
    BY <2>1 DEF Call
  <2>3. call'[c] = [r EXCEPT !.done = FALSE]
    BY <1>2, <2>1 DEF n, Call
  <2> HIDE DEF r
  <2>4. call'[c] \in Call /\ call'[c].step = n
    BY <2>2, <2>3 DEF Call
  <2> QED
    BY <2>2, <2>3, <2>4 DEF Call, n
<1>5. call' \in [Callers -> Call]
  BY <1>1, <1>3, <1>4 DEF NextStep
<1>6. OthersSame(c)
  BY <1>3, WaitedFields DEF OthersSame, Same, Like
<1> QED
  BY <1>4, <1>5, <1>6, WaitedFields DEF Own

LEMMA FormFailsEffect ==
    ASSUME Types, Stages, NEW c \in Callers, NEW calls, Waited(calls), call[c].pc = "sent", FormFails(c, calls),
           UNCHANGED <<kind, is_playing, clock, danmaku, device, drift, volumes>>
    PROVE  /\ Fails(c) \/ GoesOver(c)
           /\ call' \in [Callers -> Call] /\ transport' \in Callers \cup {Nobody}
           /\ calm' \in CalmTypes
<1> DEFINE op == call[c].op
           step == call[c].step
<1>1. CASE call[c].form < Len(Requests(op, step))
  <2>1. call' = NextForm(calls, c) /\ UNCHANGED <<transport, calm>>
    BY <1>1 DEF FormFails
  <2>2. GoesOver(c) /\ call' \in [Callers -> Call]
    BY <1>1, <2>1, NextFormEffect
  <2> QED
    BY <2>1, <2>2 DEF Types
<1>2. CASE ~(call[c].form < Len(Requests(op, step))) /\ MayFail(op, step)
  <2>1. call' = NextStep(calls, c, call[c].arg) /\ UNCHANGED <<transport, calm>>
    BY <1>2 DEF FormFails
  <2>2. call[c].arg \in Nat
    BY DEF Types, Call
  <2>3. /\ call' \in [Callers -> Call] /\ OthersSame(c) /\ Own(c)
        /\ call'[c].pc = call[c].pc /\ call'[c].arg = call[c].arg /\ ~call'[c].done
        /\ call'[c].ran = call[c].ran /\ call'[c].step = step + 1 /\ call'[c].form = 1
    BY <2>1, <2>2, NextStepEffect
  <2>4. op = "play" /\ step = 1 /\ Steps(op) = 3
    BY <1>2 DEF MayFail, Steps
  <2>5. Len(Requests(op, 2)) \in Nat \ {0}
    BY <2>4, RequestsShape DEF Ops
  <2>6. GoesOver(c)
    BY <2>1, <2>3, <2>4, <2>5 DEF GoesOver, Moves
  <2> QED
    BY <2>1, <2>3, <2>6 DEF Types
<1>3. CASE ~(call[c].form < Len(Requests(op, step))) /\ ~MayFail(op, step)
  <2>1. Leaves(c, calls) /\ Disturbs(c)
    BY <1>3 DEF FormFails
  <2>2. Ends(c) /\ call' \in [Callers -> Call] /\ transport' \in Callers \cup {Nobody}
    BY <2>1, LeavesEffect
  <2>3. calm' \in CalmTypes
    BY <2>1 DEF Disturbs, Types, CalmTypes
  <2> QED
    BY <2>1, <2>2, <2>3 DEF Fails
<1> QED
  BY <1>1, <1>2, <1>3

LEMMA IsRefusedEffect ==
    ASSUME Types, Stages, NEW c \in Callers, IsRefused(c)
    PROVE  /\ Fails(c) \/ GoesOver(c)
           /\ call' \in [Callers -> Call] /\ transport' \in Callers \cup {Nobody}
           /\ calm' \in CalmTypes
BY CallWaited, FormFailsEffect DEF IsRefused

LEMMA GivesUpEffect ==
    ASSUME Types, NEW c \in Callers, GivesUp(c)
    PROVE  /\ Fails(c)
           /\ call' \in [Callers -> Call] /\ transport' \in Callers \cup {Nobody}
           /\ calm' \in CalmTypes
<1>1. Leaves(c, call) /\ Disturbs(c) /\ call[c].pc # "idle"
      /\ UNCHANGED <<kind, is_playing, clock, danmaku, device, drift, volumes>>
  BY DEF GivesUp
<1>2. calm' \in CalmTypes
  BY <1>1 DEF Disturbs, Types, CalmTypes
<1> QED
  BY <1>1, <1>2, CallWaited, LeavesEffect DEF Fails

LEMMA RequestShape ==
    ASSUME Types, Stages, NEW c \in Callers, Active(c)
    PROVE  Request(c).timeout \in Nat /\ (call[c].op = "louder" => ~Request(c).retries)
<1>1. call[c].op \in Ops
  BY DEF Types, Call
<1>2. call[c].form \in 1 .. Len(Requests(call[c].op, call[c].step))
  BY DEF Stages, Endpoints
<1>3. Requests(call[c].op, call[c].step)[call[c].form] \in [timeout : Nat, retries : BOOLEAN]
  <2> DEFINE r == Requests(call[c].op, call[c].step)
             R == [timeout : Nat, retries : BOOLEAN]
  <2>1. r \in Seq(R)
    BY <1>1, RequestsShape
  <2> HIDE DEF r, R
  <2>2. call[c].form \in 1 .. Len(r) => r[call[c].form] \in R
    BY <2>1
  <2> QED
    BY <1>2, <2>2 DEF r, R
<1> QED
  BY <1>1, <1>2, <1>3, RequestsShape DEF Request

LEMMA TimesOutEffect ==
    ASSUME Types, Stages, NEW c \in Callers, TimesOut(c)
    PROVE  /\ Fails(c) \/ GoesOver(c) \/ Repeats(c)
           /\ call' \in [Callers -> Call] /\ transport' \in Callers \cup {Nobody}
           /\ calm' \in CalmTypes
<1> DEFINE calls == Waits(Request(c).timeout, c)
<1>1. call[c].pc = "sent" /\ UNCHANGED <<kind, is_playing, clock, danmaku, device, drift, volumes>>
  BY DEF TimesOut
<1>2. Request(c).timeout \in Nat /\ (call[c].op = "louder" => ~Request(c).retries)
  BY <1>1, RequestShape DEF Active
<1>3. Waited(calls)
  BY <1>2, WaitsEffect DEF Waited
<1> HIDE DEF calls
<1>4. CASE Request(c).retries /\ call[c].attempt < 2
  <2>1. call' = [calls EXCEPT ![c].pc = "resend", ![c].attempt = @ + 1] /\ UNCHANGED <<transport, calm>>
    BY <1>4 DEF TimesOut, calls
  <2>2. calls \in [Callers -> Call]
    BY <1>3 DEF Waited
  <2>3. call'[c] = [calls[c] EXCEPT !.pc = "resend", !.attempt = @ + 1]
    BY <2>1, <2>2
  <2>4. \A d \in Callers : d # c => call'[d] = calls[d]
    BY <2>1, <2>2
  <2>5. /\ call'[c] \in Call /\ call'[c].pc = "resend"
        /\ call'[c].step = calls[c].step /\ call'[c].form = calls[c].form
        /\ call'[c].op = calls[c].op /\ call'[c].arg = calls[c].arg /\ call'[c].done = calls[c].done
        /\ call'[c].ran = calls[c].ran /\ call'[c].alone = calls[c].alone /\ call'[c].waited = calls[c].waited
    <3>1. calls[c] \in Call
      BY <2>2
    <3>2. calls[c].form + 1 \in Nat /\ calls[c].attempt + 1 \in Nat
      BY <3>1 DEF Call
    <3> QED
      BY <2>3, <3>1, <3>2 DEF Call
  <2>6. call' \in [Callers -> Call]
    BY <2>1, <2>2, <2>4, <2>5
  <2>7. OthersSame(c)
    BY <1>3, <2>4, WaitedFields DEF OthersSame, Same, Like
  <2>8. Repeats(c)
    BY <1>1, <1>2, <1>3, <1>4, <2>1, <2>5, <2>7, WaitedFields DEF Repeats, Moves, Own
  <2> QED
    BY <2>1, <2>6, <2>8 DEF Types
<1>5. CASE ~(Request(c).retries /\ call[c].attempt < 2)
  <2>1. FormFails(c, calls)
    BY <1>5 DEF TimesOut, calls
  <2> QED
    BY <1>1, <1>3, <2>1, FormFailsEffect
<1> QED
  BY <1>4, <1>5

LEMMA ResendsEffect ==
    ASSUME Types, NEW c \in Callers, Resends(c)
    PROVE  Repeats(c) /\ call' \in [Callers -> Call]
<1> DEFINE calls == Waits(RETRY_PAUSE, c)
<1>1. Waited(calls)
  <2>1. RETRY_PAUSE \in Nat
    BY DEF RETRY_PAUSE
  <2> QED
    BY <2>1, WaitsEffect DEF Waited
<1>2. call' = [calls EXCEPT ![c].pc = "sent", ![c].done = FALSE] /\ call[c].pc = "resend"
  BY DEF Resends
<1> HIDE DEF calls
<1>3. calls \in [Callers -> Call]
  BY <1>1 DEF Waited
<1>4. call'[c] = [calls[c] EXCEPT !.pc = "sent", !.done = FALSE]
  BY <1>2, <1>3
<1>5. \A d \in Callers : d # c => call'[d] = calls[d]
  BY <1>2, <1>3
<1>6. /\ call'[c] \in Call /\ call'[c].pc = "sent"
      /\ call'[c].step = calls[c].step /\ call'[c].form = calls[c].form
      /\ call'[c].op = calls[c].op /\ call'[c].arg = calls[c].arg /\ ~call'[c].done
      /\ call'[c].ran = calls[c].ran /\ call'[c].alone = calls[c].alone /\ call'[c].waited = calls[c].waited
  BY ZenonT(60), <1>3, <1>4 DEF Call
<1>7. call' \in [Callers -> Call]
  BY <1>2, <1>3, <1>5, <1>6
<1>8. OthersSame(c)
  BY <1>1, <1>5, WaitedFields DEF OthersSame, Same, Like
<1> QED
  BY <1>1, <1>2, <1>6, <1>7, <1>8, WaitedFields DEF Repeats, Moves, Own, Resends

LEMMA StepAnsweredEffect ==
    ASSUME Types, Stages, NEW c \in Callers, StepAnswered(c)
    PROVE  (TakesLevel(c) \/ GoesOver(c)) /\ call' \in [Callers -> Call]
<1> DEFINE arg == IF call[c].op = "louder" THEN device.volume ELSE call[c].arg
<1>1. call[c].pc = "sent" /\ call[c].done /\ call[c].step < Steps(call[c].op) /\ call' = NextStep(call, c, arg)
      /\ UNCHANGED <<kind, is_playing, clock, danmaku, device, calm, drift, volumes>>
  BY DEF StepAnswered
<1>2. arg \in Nat /\ call[c].op \in Ops
  BY DEF Types, Call
<1>3. call[c].step \in 1 .. Steps(call[c].op)
  BY <1>1 DEF Stages, Active
<1> HIDE DEF arg
<1>4. /\ call' \in [Callers -> Call] /\ OthersSame(c) /\ Own(c)
      /\ call'[c].pc = call[c].pc /\ call'[c].arg = arg /\ ~call'[c].done /\ call'[c].ran = call[c].ran
      /\ call'[c].step = call[c].step + 1 /\ call'[c].form = 1
  BY <1>1, <1>2, CallWaited, NextStepEffect
<1>5. kind = "dlna" /\ (\/ call[c].op = "louder" /\ Steps(call[c].op) = 2
                        \/ call[c].op = "play" /\ Steps(call[c].op) = 3)
  BY <1>1, <1>3 DEF Steps
<1>6. CASE call[c].op = "louder"
  BY <1>1, <1>3, <1>4, <1>5, <1>6 DEF TakesLevel, Moves, arg
<1>7. CASE call[c].op = "play"
  <2>1. call'[c].step \in 1 .. Steps(call[c].op)
    BY <1>1, <1>3, <1>4, <1>5, <1>7
  <2>2. Len(Requests(call[c].op, call'[c].step)) \in Nat \ {0}
    BY <1>2, RequestsShape
  <2>3. call'[c].form \in 1 .. Len(Requests(call[c].op, call'[c].step)) /\ call'[c].arg = call[c].arg
    BY <1>4, <1>7, <2>2 DEF arg
  <2> QED
    BY <1>1, <1>4, <1>7, <2>1, <2>3 DEF GoesOver, Moves
<1> QED
  BY <1>4, <1>5, <1>6, <1>7

LEMMA SucceedsEffect ==
    ASSUME Types, NEW c \in Callers, Succeeds(c)
    PROVE  /\ Wins(c)
           /\ call' \in [Callers -> Call] /\ transport' \in Callers \cup {Nobody}
           /\ clock' \in [running : Nat, started : BOOLEAN, paused_at : Nat \cup {None}]
           /\ danmaku' \in Nat
           /\ calm' \in CalmTypes
           /\ drift' \in [ahead : Nat, behind : Nat]
           /\ volumes' \in [begun : Nat, ok : Nat]
<1>1. call[c].pc = "sent" /\ Leaves(c, call) /\ Records(c)
  BY DEF Succeeds
<1>2. Ends(c) /\ call' \in [Callers -> Call] /\ transport' \in Callers \cup {Nobody}
  BY <1>1, CallWaited, LeavesEffect
<1>3. call[c] \in Call
  BY DEF Types
<1>4. is_playing' \in BOOLEAN
  BY DEF Succeeds, Types
<1>5. /\ call[c].op = "pause" => ~is_playing'
      /\ call[c].op = "resume" => is_playing'
      /\ call[c].op \in {"seek", "danmaku", "louder"} => is_playing' = is_playing
  BY DEF Succeeds
<1>6. clock' \in [running : Nat, started : BOOLEAN, paused_at : Nat \cup {None}] /\ danmaku' \in Nat
  BY <1>3 DEF Succeeds, Types, RunsFrom, Call
<1>7. calm' \in CalmTypes
  BY <1>1, <1>3, <1>4 DEF Records, Types, CalmTypes, Call
<1>8. drift' \in [ahead : Nat, behind : Nat]
  BY <1>1, <1>3 DEF Records, Types, Call
<1>9. volumes' \in [begun : Nat, ok : Nat]
  BY <1>1 DEF Records, Types
<1> QED
  BY <1>2, <1>4, <1>5, <1>6, <1>7, <1>8, <1>9 DEF Wins, Succeeds, Reached

\* A step has one of the effects, and keeps the types.
LEMMA StepEffect ==
    ASSUME Types, Stages, Next
    PROVE  Types' /\ Effect
<1>1. CASE Tick
  <2>1. UNCHANGED <<kind, is_playing, danmaku, transport, calm, drift, volumes, given>>
    BY <1>1 DEF Tick
  <2> QED
    BY <1>1, <2>1, TickEffect DEF Types, Effect
<1>2. ASSUME NEW c \in Callers, NEW op \in Ops, NEW arg \in Nat, Begins(c, op, arg), UNCHANGED is_playing,
             \/ UNCHANGED volumes /\ op # "louder" /\ (op = "pause" => is_playing)
             \/ op = "louder" /\ arg = 0 /\ volumes' = [volumes EXCEPT !.begun = @ + 1]
      PROVE  Types' /\ Effect
  <2>1. Starts(c, op, arg) /\ call' \in [Callers -> Call] /\ given' \in [Callers -> Nat]
    BY <1>2, BeginsEffect
  <2>2. UNCHANGED <<kind, clock, danmaku, device, transport, calm, drift>>
    BY <1>2 DEF Begins
  <2>3. volumes' \in [begun : Nat, ok : Nat]
    BY <1>2 DEF Types
  <2>4. StartsOne(c)
    BY <1>2, <2>1 DEF StartsOne
  <2> QED
    BY <1>2, <2>1, <2>2, <2>3, <2>4 DEF Types, Effect
<1>3. ASSUME NEW c \in Callers, Toggles(c) \/ PlayBegins(c) \/ jump_to_secs(c) \/ set_danmaku(c) \/ volume_up(c)
      PROVE  Types' /\ Effect
  <2>1. CASE Toggles(c)
    BY <1>2, <2>1 DEF Toggles, Ops
  <2>2. CASE PlayBegins(c)
    BY <1>2, <2>2 DEF PlayBegins, Ops
  <2>3. CASE jump_to_secs(c)
    BY <1>2, <2>3 DEF jump_to_secs, Ops
  <2>4. CASE set_danmaku(c)
    BY <1>2, <2>4 DEF set_danmaku, Ops
  <2>5. CASE volume_up(c)
    BY <1>2, <2>5 DEF volume_up, Ops
  <2> QED
    BY <1>3, <2>1, <2>2, <2>3, <2>4, <2>5
<1>4. ASSUME NEW c \in Callers, Sends(c)
      PROVE  Types' /\ Effect
  <2>1. UNCHANGED <<kind, is_playing, danmaku, device, calm, drift, volumes, given>>
    BY <1>4 DEF Sends
  <2>2. clock' \in [running : Nat, started : BOOLEAN, paused_at : Nat \cup {None}]
    BY <1>4 DEF Sends, Types, Call, ClockBefore, Resumed, RunsFrom
  <2> QED
    BY <1>4, <2>1, <2>2, SendsEffect DEF Types, Effect
<1>5. ASSUME NEW c \in Callers, CarriesOut(c)
      PROVE  Types' /\ Effect
  <2>1. UNCHANGED <<kind, is_playing, clock, danmaku, transport, calm, drift, volumes, given>>
    BY <1>5 DEF CarriesOut
  <2>2. call[c].op \in Ops /\ call[c].arg \in Nat
    BY DEF Types, Call
  <2>3. device' \in [playing : BOOLEAN, pos : Nat, danmaku : Nat, volume : Nat]
    <3>1. device \in [playing : BOOLEAN, pos : Nat, danmaku : Nat, volume : Nat]
      BY DEF Types
    <3>2. device.volume + 1 \in Nat /\ call[c].arg + 1 \in Nat
      BY <2>2, <3>1
    <3>3. device' = Carried(call[c].op, call[c].arg, call[c].step)
      BY <1>5 DEF CarriesOut
    <3>4. CASE call[c].op = "louder"
      <4>1. device' \in {device, [device EXCEPT !.volume = device.volume + 1], [device EXCEPT !.volume = call[c].arg + 1]}
        BY <3>1, <3>3, <3>4 DEF Carried
      <4> QED
        BY <3>1, <3>2, <4>1
    <3>5. CASE call[c].op # "louder"
      BY <2>2, <3>1, <3>3, <3>5 DEF Carried, Ops
    <3> QED
      BY <3>4, <3>5
  <2> QED
    BY <1>5, <2>1, <2>3, CarriesOutEffect DEF Types, Effect
<1>6. ASSUME NEW c \in Callers, IsRefused(c) \/ TimesOut(c) \/ GivesUp(c)
      PROVE  Types' /\ Effect
  <2>1. UNCHANGED <<kind, is_playing, clock, danmaku, device, drift, volumes, given>>
    BY <1>6 DEF IsRefused, TimesOut, GivesUp
  <2> QED
    BY <1>6, <2>1, IsRefusedEffect, TimesOutEffect, GivesUpEffect DEF Types, Effect
<1>7. ASSUME NEW c \in Callers, Resends(c) \/ StepAnswered(c)
      PROVE  Types' /\ Effect
  <2>1. UNCHANGED <<kind, is_playing, clock, danmaku, device, transport, calm, drift, volumes, given>>
    BY <1>7 DEF Resends, StepAnswered
  <2> QED
    BY <1>7, <2>1, ResendsEffect, StepAnsweredEffect DEF Types, Effect
<1>8. ASSUME NEW c \in Callers, Succeeds(c)
      PROVE  Types' /\ Effect
  <2>1. UNCHANGED <<kind, device, given>> /\ is_playing' \in BOOLEAN
    BY <1>8, SucceedsEffect DEF Succeeds, Wins
  <2> QED
    BY <1>8, <2>1, SucceedsEffect DEF Types, Effect
<1> QED
  BY <1>1, <1>3, <1>4, <1>5, <1>6, <1>7, <1>8 DEF Next, GoesOn

-----------------------------------------------------------------------------
(* How far a command is, and what it knows of the others.                  *)

LEMMA EndpointsKept ==
    ASSUME UNCHANGED kind, NEW c \in Callers, NEW op, call'[c].op = op
    PROVE  /\ Endpoints(c)' = Len(Requests(op, call'[c].step))
           /\ Steps(op)' = Steps(op)
BY DEF Endpoints, Requests, RequestsOf, Steps, MayFail

LEMMA StagesStep ==
    ASSUME Types, Types', Stages, Effect
    PROVE  Stages'
<1> DEFINE Stage(d) ==
              /\ call[d].pc \in {"idle", "begun"} => ~call[d].done /\ ~call[d].ran /\ call[d].waited = 0
              /\ Active(d) => call[d].step \in 1 .. Steps(call[d].op) /\ call[d].form \in 1 .. Endpoints(d)
              /\ call[d].done => call[d].ran
              /\ Busy(d, {"louder"}) => call[d].pc # "resend"
<1>1. \A d \in Callers : Stage(d)
  BY DEF Stages
<1>2. SUFFICES \A d \in Callers : Stage(d)'
  BY DEF Stages
<1>3. UNCHANGED kind
  BY SMTT(40) DEF Effect, Ticks, StartsOne, Starts, IsSent, Runs, Repeats, GoesOver, TakesLevel, Moves, Fails, Wins
<1>4. ASSUME NEW d \in Callers, call'[d].op = call[d].op, call'[d].step = call[d].step
      PROVE  Endpoints(d)' = Endpoints(d) /\ Steps(call[d].op)' = Steps(call[d].op)
  BY <1>3, <1>4, EndpointsKept DEF Endpoints
<1>5. CASE Ticks
  BY <1>1, <1>4, <1>5 DEF Ticks, Active, Busy, Sent
<1>6. ASSUME NEW d \in Callers, Same(d)
      PROVE  Stage(d)'
  BY <1>1, <1>3, <1>4, <1>6 DEF Same, Like, Active, Busy
<1>7. ASSUME NEW c \in Callers, StartsOne(c), NEW d \in Callers
      PROVE  Stage(d)'
  <2>1. PICK op \in Ops, arg \in Nat : Starts(c, op, arg)
    BY <1>7 DEF StartsOne, Ops
  <2>2. CASE d = c
    <3>1. Endpoints(c)' = Len(Requests(op, 1)) /\ Len(Requests(op, 1)) \in Nat \ {0} /\ Steps(op)' = Steps(op)
      BY <1>3, <2>1, EndpointsKept, RequestsShape DEF Starts
    <3>2. call'[c].form \in 1 .. Endpoints(c)' /\ call'[c].step \in 1 .. Steps(op)'
      BY <2>1, <3>1 DEF Starts, Steps
    <3> QED
      BY <2>1, <2>2, <3>2 DEF Starts, Active, Busy
  <2>3. CASE d # c
    BY <1>1, <1>3, <1>4, <2>1, <2>3 DEF Starts, Like, Active, Busy
  <2> QED
    BY <2>2, <2>3
<1>8. ASSUME NEW c \in Callers, IsSent(c) \/ Runs(c) \/ Repeats(c)
      PROVE  Stage(c)'
  BY <1>1, <1>3, <1>4, <1>8 DEF IsSent, Runs, Repeats, Moves, Own, Active, Busy
<1>9. ASSUME NEW c \in Callers, GoesOver(c)
      PROVE  Stage(c)'
  <2>1. Endpoints(c)' = Len(Requests(call[c].op, call'[c].step)) /\ Steps(call[c].op)' = Steps(call[c].op)
    BY <1>3, <1>9, EndpointsKept DEF GoesOver, Moves, Own
  <2> QED
    BY <1>1, <1>9, <2>1 DEF GoesOver, Moves, Own, Active, Busy
<1>10. ASSUME NEW c \in Callers, TakesLevel(c)
       PROVE  Stage(c)'
  <2>1. Len(Requests("louder", 2)) = 1 /\ Steps("louder") = 2
    BY <1>10, RequestsShape DEF TakesLevel, Ops, Steps
  <2>2. Endpoints(c)' = 1 /\ Steps(call[c].op)' = 2
    BY <1>3, <1>10, <2>1, EndpointsKept DEF TakesLevel, Moves, Own
  <2> QED
    BY <1>1, <1>3, <1>10, <2>2 DEF TakesLevel, Moves, Own, Active, Busy
<1>11. ASSUME NEW c \in Callers, Fails(c) \/ Wins(c)
       PROVE  Stage(c)'
  BY <1>11 DEF Fails, Wins, Ends, Active, Busy
<1>12. ASSUME NEW c \in Callers,
              IsSent(c) \/ Runs(c) \/ Repeats(c) \/ GoesOver(c) \/ TakesLevel(c) \/ Fails(c) \/ Wins(c),
              NEW d \in Callers, d # c
       PROVE  Same(d)
  BY <1>12 DEF OthersSame, IsSent, Runs, Repeats, GoesOver, TakesLevel, Moves, Fails, Wins, Ends
<1> HIDE DEF Stage
<1> QED
  BY <1>5, <1>6, <1>7, <1>8, <1>9, <1>10, <1>11, <1>12 DEF Effect

\* What is under way after a step that begins nothing was under way before.
LEMMA NothingBegins ==
    ASSUME Types, Types', Effect, \A c \in Callers : ~StartsOne(c), NEW d \in Callers, call'[d].pc # "idle"
    PROVE  /\ call[d].pc # "idle" /\ call'[d].op = call[d].op
           /\ call'[d].alone => call[d].alone
<1>1. CASE Ticks
  BY <1>1 DEF Ticks
<1>2. ASSUME NEW c \in Callers,
             IsSent(c) \/ Runs(c) \/ Repeats(c) \/ GoesOver(c) \/ TakesLevel(c) \/ Fails(c) \/ Wins(c)
      PROVE  /\ d # c => Same(d)
             /\ d = c => /\ call[c].pc # "idle"
                         /\ call'[c].pc # "idle" => call'[c].op = call[c].op /\ (call'[c].alone => call[c].alone)
  BY <1>2 DEF OthersSame, IsSent, Runs, Repeats, GoesOver, TakesLevel, Moves, Own, Fails, Wins, Ends
<1> QED
  BY <1>1, <1>2 DEF Effect, Same, Like

LEMMA OverlapsStep ==
    ASSUME Types, Types', Overlaps, Effect
    PROVE  Overlaps'
<1>1. CASE \A c \in Callers : ~StartsOne(c)
  <2>1. SUFFICES ASSUME NEW c \in Callers, NEW d \in Callers, c # d, Active(c)', Active(d)',
                        Conflict(call[c].op, call[d].op)', call'[c].alone
                 PROVE  FALSE
    BY DEF Overlaps
  <2>2. Active(c) /\ Active(d) /\ call[c].alone /\ call'[c].op = call[c].op /\ call'[d].op = call[d].op
    BY <1>1, <2>1, NothingBegins DEF Active
  <2>3. Conflict(call[c].op, call[d].op)
    BY <2>1, <2>2 DEF Conflict
  <2> QED
    BY <2>1, <2>2, <2>3 DEF Overlaps
<1>2. ASSUME NEW a \in Callers, StartsOne(a)
      PROVE  Overlaps'
  <2>1. PICK op \in Ops, arg \in Nat : Starts(a, op, arg)
    BY <1>2 DEF StartsOne, Ops
  <2>2. SUFFICES ASSUME NEW c \in Callers, NEW d \in Callers, c # d, Active(c)', Active(d)',
                        Conflict(call[c].op, call[d].op)', call'[c].alone
                 PROVE  FALSE
    BY DEF Overlaps
  <2>3. CASE c = a
    <3>1. Active(d) /\ Conflict(call[d].op, op)
      BY <2>1, <2>2, <2>3 DEF Starts, Like, Active, Conflict
    <3> QED
      BY <2>1, <2>2, <2>3, <3>1 DEF Starts
  <2>4. CASE d = a
    <3>1. Active(c) /\ Conflict(call[c].op, op)
      BY <2>1, <2>2, <2>4 DEF Starts, Like, Active, Conflict
    <3> QED
      BY <2>1, <2>2, <2>4, <3>1 DEF Starts
  <2>5. CASE c # a /\ d # a
    BY SMTT(60), <2>1, <2>2, <2>5 DEF Starts, Like, Active, Conflict, Overlaps
  <2> QED
    BY <2>3, <2>4, <2>5
<1> QED
  BY <1>1, <1>2

-----------------------------------------------------------------------------
(* is_playing and the device.                                              *)

\* A command that is alone runs against no other of its kind.
LEMMA Alone ==
    ASSUME Overlaps, NEW c \in Callers, NEW d \in Callers, c # d, Active(c), Active(d),
           Conflict(call[c].op, call[d].op)
    PROVE  ~call[c].alone /\ ~call[d].alone
<1>1. Conflict(call[d].op, call[c].op)
  BY DEF Conflict
<1> QED
  BY <1>1 DEF Overlaps

Plays(d) ==
    /\ call[d].alone /\ Busy(d, {"play", "resume"}) /\ Reached(d) => device.playing
    /\ call[d].alone /\ Busy(d, {"pause"}) /\ call[d].done => ~device.playing
Seeks(d) == call[d].alone /\ Busy(d, {"seek"}) /\ Sent(d) => device.playing

\* What is left of a command that no step of its own has touched.
LEMMA ReachedKept ==
    ASSUME UNCHANGED kind, NEW d \in Callers,
           call'[d].op = call[d].op, call'[d].step = call[d].step, call'[d].done = call[d].done
    PROVE  Reached(d)' = Reached(d)
BY DEF Reached, Steps

LEMMA SameReached ==
    ASSUME UNCHANGED kind, NEW d \in Callers, Like(d)
    PROVE  Reached(d)' = Reached(d)
BY ReachedKept DEF Like

LEMMA PlayingTicks ==
    ASSUME PlayingInv, Ticks
    PROVE  PlayingInv'
<1>1. \A d \in Callers : Reached(d)' = Reached(d)
  BY ReachedKept DEF Ticks
<1> QED
  BY <1>1 DEF PlayingInv, Ticks, Untouched, Agree, Busy, Sent

LEMMA PlayingStarts ==
    ASSUME PlayingInv, NEW c \in Callers, StartsOne(c)
    PROVE  PlayingInv'
<1>1. PICK op \in Ops, arg \in Nat : Starts(c, op, arg)
  BY DEF StartsOne, Ops
<1>2. UNCHANGED <<kind, is_playing, device, calm>>
  BY <1>1 DEF Starts, StartsOne
<1>3. Untouched' => Untouched
  BY <1>1 DEF Starts, Like, Untouched, Busy
<1>4. ASSUME NEW d \in Callers
      PROVE  Plays(d)' /\ Seeks(d)'
  <2>1. CASE d = c
    BY <1>1, <1>2, <2>1 DEF Starts, Plays, Seeks, Busy, Sent, Reached
  <2>2. CASE d # c
    <3>1. Reached(d)' = Reached(d)
      BY <1>1, <1>2, <2>2, SameReached DEF Starts
    <3> QED
      BY <1>1, <1>2, <2>2, <3>1 DEF Starts, Like, PlayingInv, Plays, Seeks, Busy, Sent
  <2> QED
    BY <2>1, <2>2
<1> QED
  BY <1>2, <1>3, <1>4 DEF PlayingInv, Plays, Seeks, Agree

LEMMA PlayingSent ==
    ASSUME PlayingInv, NEW c \in Callers, IsSent(c)
    PROVE  PlayingInv'
<1>1. UNCHANGED <<kind, is_playing, device, calm>>
  BY DEF IsSent
<1>2. Untouched' => Untouched
  BY DEF IsSent, OthersSame, Same, Like, Untouched, Busy
<1>3. \A d \in Callers : Reached(d)' = Reached(d)
  BY <1>1, ReachedKept DEF IsSent, OthersSame, Same, Like
<1>4. ASSUME NEW d \in Callers
      PROVE  Plays(d)' /\ Seeks(d)'
  BY <1>1, <1>3 DEF IsSent, OthersSame, Same, Like, PlayingInv, Plays, Seeks, Busy, Sent
<1> QED
  BY <1>1, <1>2, <1>4 DEF PlayingInv, Plays, Seeks, Agree

LEMMA PlayingRuns ==
    ASSUME Types, Stages, Overlaps, PlayingInv, NEW c \in Callers, Runs(c)
    PROVE  PlayingInv'
<1>1. UNCHANGED <<kind, is_playing, calm>> /\ call[c].op \in Ops /\ Active(c) /\ Sent(c)
  BY DEF Runs, Types, Call, Active, Sent
<1>2. ASSUME NEW d \in Callers, d # c
      PROVE  Reached(d)' = Reached(d) /\ Same(d)
  BY <1>1, <1>2, SameReached DEF Runs, OthersSame, Same
<1>3. CASE call[c].op \notin ClockOps \/ call[c].op = "seek"
  <2>1. device'.playing = device.playing
    BY <1>1, <1>3 DEF Runs, Carried, Types, Ops, ClockOps
  <2>2. Untouched' => Untouched
    BY <1>3 DEF Runs, Own, OthersSame, Same, Like, Untouched, Busy
  <2>3. ASSUME NEW d \in Callers
        PROVE  Plays(d)' /\ Seeks(d)'
    <3>1. CASE d = c
      BY <1>1, <1>3, <2>1, <3>1 DEF Runs, Own, PlayingInv, Plays, Seeks, Busy, Sent, ClockOps
    <3>2. CASE d # c
      BY <1>2, <2>1, <3>2 DEF Same, Like, PlayingInv, Plays, Seeks, Busy, Sent
    <3> QED
      BY <3>1, <3>2
  <2> QED
    BY <1>1, <2>1, <2>2, <2>3 DEF PlayingInv, Plays, Seeks, Agree
<1>4. CASE call[c].op \in {"play", "pause", "resume"}
  <2>1. ~Untouched'
    BY <1>4 DEF Runs, Own, Untouched, Busy, ClockOps
  <2>2. ASSUME NEW d \in Callers, d # c
        PROVE  Plays(d)' /\ Seeks(d)'
    <3>1. Active(d) /\ Conflict(call[d].op, call[c].op) => ~call[d].alone
      BY <1>1, <2>2, Alone
    <3>2. Busy(d, {"play", "resume", "pause", "seek"}) => Active(d) /\ Conflict(call[d].op, call[c].op)
      BY <1>4 DEF Busy, Active, Conflict, ClockOps
    <3> QED
      BY <1>2, <2>2, <3>1, <3>2 DEF Same, Like, Plays, Seeks, Busy
  <2>3. Plays(c)' /\ Seeks(c)'
    <3>1. CASE call[c].op = "play"
      <4>1. Steps("play")' = Steps("play")
        BY <1>1 DEF Steps
      <4>2. call[c].step = Steps("play") => device'.playing = TRUE
        BY <3>1 DEF Runs, Carried, Types
      <4> QED
        BY <3>1, <4>1, <4>2 DEF Runs, Own, Plays, Seeks, Busy, Reached
    <3>2. CASE call[c].op \in {"pause", "resume"}
      <4>1. device'.playing = (call[c].op = "resume")
        BY <3>2 DEF Runs, Carried, Types
      <4> QED
        BY <3>2, <4>1 DEF Runs, Own, Plays, Seeks, Busy
    <3> QED
      BY <1>4, <3>1, <3>2
  <2> QED
    BY <2>1, <2>2, <2>3 DEF PlayingInv, Plays, Seeks
<1> QED
  BY <1>3, <1>4 DEF ClockOps

LEMMA PlayingMoves ==
    ASSUME PlayingInv, NEW c \in Callers, Repeats(c) \/ GoesOver(c) \/ TakesLevel(c)
    PROVE  PlayingInv'
<1>1. UNCHANGED <<kind, is_playing, device, calm>> /\ OthersSame(c) /\ Own(c) /\ call'[c].ran = call[c].ran
  BY DEF Repeats, GoesOver, TakesLevel, Moves
<1>2. call[c].pc # "idle" /\ Sent(c) /\ call'[c].pc # "idle"
  BY DEF Repeats, GoesOver, TakesLevel, Sent
<1>3. Untouched' => Untouched
  BY <1>1, <1>2 DEF OthersSame, Same, Like, Own, Untouched, Busy
<1>4. Reached(c)' => Reached(c)
  <2>1. ~call'[c].done \/ (call'[c].done = call[c].done /\ call'[c].step = call[c].step)
    BY DEF Repeats, GoesOver, TakesLevel
  <2> QED
    BY <1>1, <2>1, ReachedKept DEF Own, Reached
<1>5. call'[c].done => call[c].done
  BY DEF Repeats, GoesOver, TakesLevel
<1>6. ASSUME NEW d \in Callers
      PROVE  Plays(d)' /\ Seeks(d)'
  <2>1. CASE d = c
    BY <1>1, <1>2, <1>4, <1>5, <2>1 DEF Own, PlayingInv, Plays, Seeks, Busy, Sent
  <2>2. CASE d # c
    <3>1. Same(d) /\ Reached(d)' = Reached(d)
      BY <1>1, <2>2, SameReached DEF OthersSame, Same
    <3> QED
      BY <1>1, <3>1 DEF Same, Like, PlayingInv, Plays, Seeks, Busy, Sent
  <2> QED
    BY <2>1, <2>2
<1> QED
  BY <1>1, <1>3, <1>6 DEF PlayingInv, Plays, Seeks, Agree

\* A command that ends leaves the others as they were.
LEMMA PlayingEnds ==
    ASSUME PlayingInv, NEW c \in Callers, Ends(c), UNCHANGED <<kind, device>>, NEW d \in Callers
    PROVE  Plays(d)' /\ Seeks(d)'
<1>1. CASE d = c
  BY <1>1 DEF Ends, Plays, Seeks, Busy
<1>2. CASE d # c
  <2>1. Same(d) /\ Reached(d)' = Reached(d)
    BY <1>2, SameReached DEF Ends, OthersSame, Same
  <2> QED
    BY <2>1 DEF Same, Like, PlayingInv, Plays, Seeks, Busy, Sent
<1> QED
  BY <1>1, <1>2

LEMMA PlayingFails ==
    ASSUME Types, PlayingInv, NEW c \in Callers, Fails(c)
    PROVE  PlayingInv'
<1>1. UNCHANGED <<kind, is_playing, device>> /\ Ends(c)
  BY DEF Fails
<1>2. /\ calm'.playing => calm.playing /\ (call[c].op \in ClockOps => ~call[c].ran /\ call[c].alone)
      /\ calm'.stored = calm.stored
  BY DEF Fails, Disturbs, Types, CalmTypes, Call
<1>3. calm'.playing /\ Untouched' => Untouched
  BY <1>1, <1>2 DEF Ends, OthersSame, Same, Like, Untouched, Busy
<1>4. ASSUME NEW d \in Callers
      PROVE  Plays(d)' /\ Seeks(d)'
  BY <1>1, PlayingEnds
<1> QED
  BY <1>1, <1>2, <1>3, <1>4 DEF PlayingInv, Plays, Seeks, Agree

LEMMA PlayingWins ==
    ASSUME Types, Stages, Overlaps, PlayingInv, NEW c \in Callers, Wins(c)
    PROVE  PlayingInv'
<1>1. /\ UNCHANGED <<kind, device>> /\ Ends(c) /\ call[c].op \in Ops /\ call[c].done /\ Reached(c)
      /\ call[c].pc = "sent" /\ is_playing' \in BOOLEAN
  BY DEF Wins, Types, Call, Reached
<1>2. \A d \in Callers : Plays(d)' /\ Seeks(d)'
  BY <1>1, PlayingEnds
<1>3. CASE call[c].op \in {"play", "pause", "resume"}
  <2>1. /\ calm'.playing => call[c].alone
        /\ calm'.stored = IF call[c].op = "play" THEN is_playing' ELSE TRUE
    BY <1>3 DEF Wins, Records, ClockOps
  <2>2. call[c].alone => device.playing = (call[c].op # "pause")
    BY <1>1, <1>3 DEF PlayingInv, Busy, Types
  <2>3. (call[c].op = "pause" => ~is_playing') /\ (call[c].op = "resume" => is_playing')
    BY DEF Wins
  <2>4. calm'.playing => Agree'
    BY <1>1, <1>3, <2>1, <2>2, <2>3 DEF Agree
  <2> QED
    BY <1>2, <2>4 DEF PlayingInv, Plays, Seeks
<1>4. CASE call[c].op \notin {"play", "pause", "resume"}
  <2>1. /\ calm'.playing => calm.playing /\ (call[c].op = "seek" => call[c].alone)
        /\ calm'.stored = calm.stored /\ is_playing' = is_playing
    BY <1>1, <1>4 DEF Wins, Records, Types, CalmTypes, Call, Ops, ClockOps
  <2>2. calm'.playing /\ Untouched' => Untouched
    BY <1>1, <1>4, <2>1 DEF Ends, OthersSame, Same, Like, Untouched, Busy, ClockOps
  <2> QED
    BY <1>1, <1>2, <2>1, <2>2 DEF PlayingInv, Plays, Seeks, Agree
<1> QED
  BY <1>3, <1>4

LEMMA PlayingStep ==
    ASSUME Types, Stages, Overlaps, PlayingInv, Effect
    PROVE  PlayingInv'
BY PlayingTicks, PlayingStarts, PlayingSent, PlayingRuns, PlayingMoves, PlayingFails, PlayingWins DEF Effect

-----------------------------------------------------------------------------
(* The danmaku switch.                                                     *)

Switched(d) ==
    call[d].alone /\ Busy(d, Switches) =>
        /\ Reached(d) => device.danmaku = call[d].arg
        /\ call[d].op = "play" /\ Sent(d) => call[d].arg = danmaku

LEMMA SettingTicks ==
    ASSUME SettingInv, Ticks
    PROVE  SettingInv'
<1>1. \A d \in Callers : Reached(d)' = Reached(d)
  BY ReachedKept DEF Ticks
<1> QED
  BY <1>1 DEF SettingInv, Ticks, Busy, Sent

LEMMA SettingStarts ==
    ASSUME SettingInv, NEW c \in Callers, StartsOne(c)
    PROVE  SettingInv'
<1>1. PICK op \in Ops, arg \in Nat : Starts(c, op, arg)
  BY DEF StartsOne, Ops
<1>2. UNCHANGED <<kind, danmaku, device, calm>>
  BY <1>1 DEF Starts
<1>3. \A d \in Callers : Busy(d, Switches) => Busy(d, Switches)'
  BY <1>1 DEF Starts, Like, Busy, Switches
<1>4. ASSUME NEW d \in Callers
      PROVE  Switched(d)'
  <2>1. CASE d = c
    BY <1>1, <2>1 DEF Starts, Switched, Busy, Sent, Reached
  <2>2. CASE d # c
    <3>1. Reached(d)' = Reached(d)
      BY <1>1, <1>2, <2>2, SameReached DEF Starts
    <3> QED
      BY <1>1, <1>2, <2>2, <3>1 DEF Starts, Like, SettingInv, Switched, Busy, Sent, Switches
  <2> QED
    BY <2>1, <2>2
<1> QED
  BY <1>2, <1>3, <1>4 DEF SettingInv, Switched

LEMMA SettingSent ==
    ASSUME Stages, SettingInv, NEW c \in Callers, IsSent(c)
    PROVE  SettingInv'
<1>1. UNCHANGED <<kind, danmaku, device, calm>>
  BY DEF IsSent
<1>2. \A d \in Callers : Busy(d, Switches) => Busy(d, Switches)'
  BY DEF IsSent, OthersSame, Same, Like, Busy, Switches
<1>3. ASSUME NEW d \in Callers
      PROVE  Switched(d)'
  <2>1. CASE d = c
    BY <1>1, <2>1 DEF IsSent, Stages, Extra, Switched, Reached
  <2>2. CASE d # c
    <3>1. Same(d) /\ Reached(d)' = Reached(d)
      BY <1>1, <2>2, SameReached DEF IsSent, OthersSame, Same
    <3> QED
      BY <1>1, <3>1 DEF Same, Like, SettingInv, Switched, Busy, Sent, Switches
  <2> QED
    BY <2>1, <2>2
<1> QED
  BY <1>1, <1>2, <1>3 DEF SettingInv, Switched

LEMMA SettingRuns ==
    ASSUME Types, Overlaps, SettingInv, NEW c \in Callers, Runs(c)
    PROVE  SettingInv'
<1>1. UNCHANGED <<kind, danmaku, calm>> /\ call[c].op \in Ops /\ Active(c)
  BY DEF Runs, Types, Call, Active
<1>2. \A d \in Callers : Busy(d, Switches) => Busy(d, Switches)'
  BY DEF Runs, Own, OthersSame, Same, Like, Busy, Switches
<1>3. ASSUME NEW d \in Callers, d # c
      PROVE  Same(d) /\ Reached(d)' = Reached(d)
  BY <1>1, <1>3, SameReached DEF Runs, OthersSame, Same
<1>4. CASE call[c].op \notin Switches
  <2>1. device'.danmaku = device.danmaku
    BY <1>1, <1>4 DEF Runs, Carried, Types, Ops, Switches
  <2>2. ASSUME NEW d \in Callers
        PROVE  Switched(d)'
    <3>1. CASE d = c
      BY <1>4, <3>1 DEF Runs, Own, Switched, Busy
    <3>2. CASE d # c
      BY <1>1, <1>3, <2>1, <3>2 DEF Same, Like, SettingInv, Switched, Busy, Sent, Switches
    <3> QED
      BY <3>1, <3>2
  <2> QED
    BY <1>1, <1>2, <2>1, <2>2 DEF SettingInv, Switched
<1>5. CASE call[c].op \in Switches
  <2>1. Busy(c, Switches)'
    BY <1>5 DEF Runs, Own, Busy, Switches
  <2>2. ASSUME NEW d \in Callers, d # c
        PROVE  Switched(d)'
    <3>1. Active(d) /\ Conflict(call[d].op, call[c].op) => ~call[d].alone
      BY <1>1, <2>2, Alone
    <3>2. Busy(d, Switches) => Active(d) /\ Conflict(call[d].op, call[c].op)
      BY <1>5 DEF Busy, Active, Conflict, Switches
    <3> QED
      BY <1>3, <2>2, <3>1, <3>2 DEF Same, Like, Switched, Busy
  <2>3. call[c].step = Steps(call[c].op) => device'.danmaku = call[c].arg
    BY <1>5 DEF Runs, Carried, Types, Switches
  <2>4. Steps(call[c].op)' = Steps(call[c].op)
    BY <1>1 DEF Runs, Own, Steps
  <2>5. Switched(c)'
    BY <1>1, <2>3, <2>4 DEF Runs, Own, SettingInv, Switched, Busy, Sent, Switches, Reached
  <2> QED
    BY <2>1, <2>2, <2>5 DEF SettingInv, Switched
<1> QED
  BY <1>4, <1>5

LEMMA SettingMoves ==
    ASSUME SettingInv, NEW c \in Callers, Repeats(c) \/ GoesOver(c) \/ TakesLevel(c)
    PROVE  SettingInv'
<1>1. UNCHANGED <<kind, danmaku, device, calm>> /\ OthersSame(c) /\ Own(c) /\ call'[c].ran = call[c].ran
  BY DEF Repeats, GoesOver, TakesLevel, Moves
<1>2. call[c].pc # "idle" /\ Sent(c) /\ call'[c].pc # "idle"
  BY DEF Repeats, GoesOver, TakesLevel, Sent
<1>3. call'[c].arg = call[c].arg \/ call[c].op = "louder"
  BY DEF Repeats, GoesOver, TakesLevel
<1>4. \A d \in Callers : Busy(d, Switches) => Busy(d, Switches)'
  BY <1>1, <1>2 DEF Own, OthersSame, Same, Like, Busy, Switches
<1>5. ASSUME NEW d \in Callers
      PROVE  Switched(d)'
  <2>1. CASE d = c
    <3>1. ~call'[c].done \/ (call'[c].done = call[c].done /\ call'[c].step = call[c].step)
      BY DEF Repeats, GoesOver, TakesLevel
    <3>2. Reached(c)' => Reached(c)
      BY <1>1, <3>1, ReachedKept DEF Own, Reached
    <3> QED
      BY <1>1, <1>2, <1>3, <2>1, <3>2 DEF Own, SettingInv, Switched, Busy, Sent, Switches
  <2>2. CASE d # c
    <3>1. Same(d) /\ Reached(d)' = Reached(d)
      BY <1>1, <2>2, SameReached DEF OthersSame, Same
    <3> QED
      BY <1>1, <3>1 DEF Same, Like, SettingInv, Switched, Busy, Sent, Switches
  <2> QED
    BY <2>1, <2>2
<1> QED
  BY <1>1, <1>4, <1>5 DEF SettingInv, Switched

LEMMA SettingFails ==
    ASSUME Types, SettingInv, NEW c \in Callers, Fails(c)
    PROVE  SettingInv'
<1>1. UNCHANGED <<kind, danmaku, device>> /\ Ends(c)
  BY DEF Fails
<1>2. calm'.danmaku => calm.danmaku /\ call[c].op \notin Switches
  BY DEF Fails, Disturbs, Types, Switches
<1>3. \A d \in Callers : Busy(d, Switches) => Busy(d, Switches)' \/ (d = c /\ call[c].op \in Switches)
  BY DEF Fails, Ends, OthersSame, Same, Like, Busy, Switches
<1>4. ASSUME NEW d \in Callers
      PROVE  Switched(d)'
  <2>1. CASE d = c
    BY <1>1, <2>1 DEF Ends, Switched, Busy
  <2>2. CASE d # c
    <3>1. Same(d) /\ Reached(d)' = Reached(d)
      BY <1>1, <2>2, SameReached DEF Ends, OthersSame, Same
    <3> QED
      BY <1>1, <3>1 DEF Same, Like, SettingInv, Switched, Busy, Sent, Switches
  <2> QED
    BY <2>1, <2>2
<1> QED
  BY <1>1, <1>2, <1>3, <1>4 DEF SettingInv, Switched

LEMMA SettingWins ==
    ASSUME Types, Stages, Overlaps, SettingInv, NEW c \in Callers, Wins(c)
    PROVE  SettingInv'
<1>1. UNCHANGED <<kind, device>> /\ call[c].op \in Ops /\ Reached(c) /\ call[c].pc = "sent" /\ Active(c)
  BY DEF Wins, Types, Call, Ends, Active
<1>2. \A d \in Callers : Busy(d, Switches) => Busy(d, Switches)' \/ d = c
  BY DEF Wins, Ends, OthersSame, Same, Like, Busy, Switches
<1>3. CASE call[c].op \in Switches
  <2>1. calm'.danmaku => call[c].alone
    BY <1>3 DEF Wins, Records, Switches
  <2>2. call[c].alone => device.danmaku = danmaku'
    BY <1>1, <1>3 DEF Wins, SettingInv, Busy, Sent, Switches
  <2>3. ASSUME NEW d \in Callers
        PROVE  Switched(d)'
    BY <1>1, <1>3, Alone DEF Wins, Ends, OthersSame, Same, Like, Switched, Busy, Sent, Switches, Conflict, Active
  <2> QED
    BY <1>1, <2>1, <2>2, <2>3 DEF SettingInv, Switched
<1>4. CASE call[c].op \notin Switches
  <2>1. calm'.danmaku = calm.danmaku /\ danmaku' = danmaku
    BY <1>4 DEF Wins, Records, Switches
  <2>2. ~Busy(c, Switches)
    BY <1>4 DEF Busy
  <2>3. ASSUME NEW d \in Callers
        PROVE  Switched(d)'
    <3>1. CASE d = c
      BY <3>1 DEF Wins, Ends, Switched, Busy
    <3>2. CASE d # c
      <4>1. Same(d) /\ Reached(d)' = Reached(d)
        BY <1>1, <3>2, SameReached DEF Wins, Ends, OthersSame, Same
      <4> QED
        BY <1>1, <2>1, <4>1 DEF Same, Like, SettingInv, Switched, Busy, Sent, Switches
    <3> QED
      BY <3>1, <3>2
  <2> QED
    BY <1>1, <1>2, <2>1, <2>2, <2>3 DEF SettingInv, Switched
<1> QED
  BY <1>3, <1>4

LEMMA SettingStep ==
    ASSUME Types, Stages, Overlaps, SettingInv, Effect
    PROVE  SettingInv'
BY SettingTicks, SettingStarts, SettingSent, SettingRuns, SettingMoves, SettingFails, SettingWins DEF Effect

-----------------------------------------------------------------------------
(* The volume.                                                             *)

\* What the answer to get_volume is good for.
Levelled(d) ==
    Busy(d, {"louder"}) /\ call[d].step = 2 =>
        /\ d \in Raising => call[d].arg + Cardinality(Raising) =< volumes.begun
        /\ calm.volume => volumes.ok =< call[d].arg
        /\ call[d].alone /\ d \in Raised => device.volume = call[d].arg + 1

LEMMA VolumeSets ==
    ASSUME CommandsAssumption
    PROVE  /\ IsFiniteSet(Raised) /\ IsFiniteSet(Raising)
           /\ Cardinality(Raised) \in Nat /\ Cardinality(Raising) \in Nat
BY FS_Subset, FS_CardinalityType DEF CommandsAssumption, Raised, Raising

\* No volume command moves.
LEMMA VolumeRests ==
    ASSUME VolumeInv, Types, Types', UNCHANGED <<kind, volumes>>,
           device'.volume = device.volume, calm'.volume => calm.volume,
           \A d \in Callers : Busy(d, {"louder"})' \/ Busy(d, {"louder"}) =>
              /\ Busy(d, {"louder"})' /\ Busy(d, {"louder"})
              /\ call'[d].step = call[d].step /\ call'[d].done = call[d].done
              /\ call'[d].arg = call[d].arg /\ (call'[d].alone => call[d].alone)
    PROVE  VolumeInv'
<1>0. ASSUME NEW d \in Callers, Busy(d, {"louder"})' \/ Busy(d, {"louder"})
      PROVE  Busy(d, {"louder"})' /\ Busy(d, {"louder"}) /\ Reached(d)' = Reached(d)
  <2>1. Busy(d, {"louder"})' /\ Busy(d, {"louder"})
    BY <1>0
  <2>2. call'[d].op = call[d].op /\ call'[d].step = call[d].step /\ call'[d].done = call[d].done
    BY <1>0, <2>1 DEF Busy
  <2> QED
    BY <2>1, <2>2, ReachedKept
<1>1. Raised' = Raised /\ Raising' = Raising
  BY <1>0 DEF Raised, Raising
<1>2. \A d \in Callers : Levelled(d)'
  BY <1>1 DEF VolumeInv, Levelled
<1> QED
  BY <1>1, <1>2 DEF VolumeInv, Levelled

LEMMA VolumeStarts ==
    ASSUME CommandsAssumption, Types, Types', VolumeInv, NEW c \in Callers, StartsOne(c)
    PROVE  VolumeInv'
<1>1. CASE UNCHANGED volumes /\ \E op \in Ops \ {"louder"} : \E arg \in Nat : Starts(c, op, arg)
  BY <1>1, VolumeRests DEF Starts, Like, Busy
<1>2. CASE Starts(c, "louder", 0) /\ volumes' = [volumes EXCEPT !.begun = @ + 1]
  <2>1. UNCHANGED <<kind, device, calm>> /\ volumes'.begun = volumes.begun + 1 /\ volumes'.ok = volumes.ok
    BY <1>2 DEF Starts, Types
  <2>2. Raised' = Raised /\ Raising' = Raising \cup {c} /\ c \notin Raising /\ c \notin Raised
    BY <1>2 DEF Starts, Like, Raised, Raising, Reached, Steps, Busy
  <2>3. Cardinality(Raising') = Cardinality(Raising) + 1 /\ Cardinality(Raising) \in Nat
    BY <2>2, VolumeSets, FS_AddElement
  <2>4. ASSUME NEW d \in Callers
        PROVE  Levelled(d)'
    <3>1. CASE d = c
      BY <1>2, <3>1 DEF Starts, Levelled
    <3>2. CASE d # c
      <4>1. Levelled(d) /\ call[d].arg \in Nat
        BY DEF VolumeInv, Levelled, Types, Call
      <4>2. /\ Busy(d, {"louder"})' <=> Busy(d, {"louder"})
            /\ call'[d].step = call[d].step /\ call'[d].arg = call[d].arg /\ (call'[d].alone => call[d].alone)
        BY <1>2, <3>2 DEF Starts, Like, Busy
      <4>3. volumes.begun \in Nat
        BY DEF Types
      <4> QED
        BY <2>1, <2>2, <2>3, <3>2, <4>1, <4>2, <4>3 DEF Levelled
    <3> QED
      BY <3>1, <3>2
  <2>5. device.volume + Cardinality(Raising)' =< volumes'.begun
    BY <2>1, <2>2, <2>3 DEF VolumeInv, Types
  <2> QED
    BY <2>1, <2>2, <2>4, <2>5 DEF VolumeInv, Levelled
<1> QED
  BY <1>1, <1>2 DEF StartsOne

LEMMA VolumeRuns ==
    ASSUME CommandsAssumption, Types, Types', Stages, Overlaps, VolumeInv, NEW c \in Callers, Runs(c)
    PROVE  VolumeInv'
<1>1. /\ UNCHANGED <<kind, calm, volumes>> /\ call[c].op \in Ops /\ Active(c) /\ call[c].arg \in Nat
      /\ kind \in {"dlna", "bilibili"} /\ device.volume \in Nat /\ volumes.begun \in Nat /\ volumes.ok \in Nat
  BY DEF Runs, Types, Call, Active
<1>2. CASE call[c].op # "louder"
  <2>1. device'.volume = device.volume
    BY <1>1, <1>2 DEF Runs, Carried, Types, Ops
  <2> QED
    BY <1>1, <1>2, <2>1, VolumeRests DEF Runs, Own, OthersSame, Same, Like, Busy
<1>3. CASE call[c].op = "louder" /\ kind = "dlna" /\ call[c].step = 1
  <2>1. device' = device
    BY <1>3 DEF Runs, Carried
  <2>2. Raised' = Raised /\ Raising' = Raising
    BY <1>3 DEF Runs, Own, OthersSame, Same, Like, Raised, Raising, Reached, Steps, Busy
  <2>3. ASSUME NEW d \in Callers
        PROVE  Levelled(d)'
    BY <1>1, <1>3, <2>1, <2>2 DEF Runs, Own, OthersSame, Same, Like, VolumeInv, Levelled, Busy
  <2> QED
    BY <1>1, <2>1, <2>2, <2>3 DEF VolumeInv, Levelled
<1>4. CASE call[c].op = "louder" /\ (kind = "bilibili" \/ call[c].step = 2)
  <2>1. c \in Raising /\ c \notin Raised /\ Raising' = Raising \ {c} /\ Raised' = Raised \cup {c}
    <3>1. Steps("louder") = (IF kind = "dlna" THEN 2 ELSE 1) /\ Steps("louder")' = Steps("louder")
      BY <1>1 DEF Steps
    <3>2. call[c].step \in 1 .. Steps("louder")
      BY <1>1, <1>4 DEF Stages
    <3>3. call[c].step = Steps("louder")
      BY <1>1, <1>4, <3>1, <3>2
    <3>4. Busy(c, {"louder"}) /\ Busy(c, {"louder"})' /\ ~Reached(c) /\ Reached(c)'
      BY <1>4, <3>1, <3>3 DEF Runs, Own, Busy, Reached
    <3>5. ASSUME NEW d \in Callers, d # c
          PROVE  Reached(d)' = Reached(d) /\ (Busy(d, {"louder"})' <=> Busy(d, {"louder"}))
      BY <1>1, <3>5, SameReached DEF Runs, OthersSame, Same, Like, Busy
    <3> QED
      BY <3>4, <3>5 DEF Raised, Raising
  <2>2. /\ Cardinality(Raising') = Cardinality(Raising) - 1 /\ Cardinality(Raising) \in Nat
        /\ Cardinality(Raised') = Cardinality(Raised) + 1 /\ Cardinality(Raised) \in Nat
    BY <2>1, VolumeSets, FS_AddElement, FS_RemoveElement
  <2>3. device'.volume = IF kind = "bilibili" THEN device.volume + 1 ELSE call[c].arg + 1
    BY <1>4 DEF Runs, Carried, Types
  <2>4. kind = "dlna" => /\ call[c].arg + Cardinality(Raising) =< volumes.begun
                         /\ calm.volume => volumes.ok =< call[c].arg
    BY <1>4, <2>1 DEF VolumeInv, Busy, Raising
  <2>5. device'.volume + Cardinality(Raising') =< volumes.begun
    BY <1>1, <2>2, <2>3, <2>4 DEF VolumeInv
  <2>6. kind = "bilibili" => volumes.ok + Cardinality(Raised') =< device'.volume
    BY <1>1, <2>2, <2>3 DEF VolumeInv
  <2>7. kind = "dlna" /\ calm.volume => volumes.ok =< device'.volume
    BY <1>1, <2>3, <2>4
  <2>8. Levelled(c)'
    <3>1. Busy(c, {"louder"}) /\ (call[c].step = 2 => kind = "dlna")
      BY <1>1, <1>4 DEF Busy, Active, Stages, Steps
    <3>2. call'[c].step = call[c].step /\ call'[c].arg = call[c].arg /\ c \notin Raising'
      BY <2>1 DEF Runs, Own
    <3> QED
      BY <1>1, <2>3, <2>4, <3>1, <3>2 DEF Levelled
  <2>9. ASSUME NEW d \in Callers, d # c
        PROVE  Levelled(d)'
    <3>1. Levelled(d) /\ call[d].arg \in Nat
      BY DEF VolumeInv, Levelled, Types, Call
    <3>2. /\ Busy(d, {"louder"})' <=> Busy(d, {"louder"})
          /\ call'[d].step = call[d].step /\ call'[d].arg = call[d].arg /\ call'[d].alone = call[d].alone
      BY <2>9 DEF Runs, OthersSame, Same, Like, Busy
    <3>3. Busy(d, {"louder"}) => ~call[d].alone
      BY <1>1, <1>4, <2>9, Alone DEF Busy, Active, Conflict
    <3> QED
      BY <1>1, <2>1, <2>2, <2>9, <3>1, <3>2, <3>3 DEF Levelled
  <2> QED
    BY <1>1, <2>5, <2>6, <2>7, <2>8, <2>9 DEF VolumeInv, Levelled
<1> QED
  <2>1. call[c].op = "louder" => call[c].step \in 1 .. (IF kind = "dlna" THEN 2 ELSE 1)
    BY <1>1 DEF Stages, Steps
  <2> QED
    BY <1>1, <1>2, <1>3, <1>4, <2>1

LEMMA VolumeTakesLevel ==
    ASSUME CommandsAssumption, Types, Types', VolumeInv, NEW c \in Callers, TakesLevel(c)
    PROVE  VolumeInv'
<1>1. UNCHANGED <<kind, device, calm, volumes>>
  BY DEF TakesLevel, Moves
<1>2. Raised' = Raised /\ Raising' = Raising /\ c \notin Raised
  BY DEF TakesLevel, Moves, Own, OthersSame, Same, Like, Raised, Raising, Reached, Steps, Busy
<1>3. Levelled(c)'
  BY <1>1, <1>2 DEF TakesLevel, VolumeInv, Levelled
<1>4. ASSUME NEW d \in Callers, d # c
      PROVE  Levelled(d)'
  BY <1>1, <1>2, <1>4 DEF TakesLevel, Moves, OthersSame, Same, Like, VolumeInv, Levelled, Busy
<1> QED
  BY <1>1, <1>2, <1>3, <1>4 DEF VolumeInv, Levelled

LEMMA VolumeEnds ==
    ASSUME CommandsAssumption, Types, Types', Stages, Overlaps, VolumeInv, NEW c \in Callers,
           Fails(c) \/ Wins(c)
    PROVE  VolumeInv'
<1>1. /\ UNCHANGED <<kind, device>> /\ Ends(c) /\ call[c].op \in Ops /\ Active(c)
      /\ volumes.begun \in Nat /\ volumes.ok \in Nat /\ volumes'.begun = volumes.begun
      /\ volumes'.ok = volumes.ok \/ (Wins(c) /\ volumes'.ok = volumes.ok + 1)
  BY DEF Fails, Wins, Records, Ends, Types, Call, Active
<1>2. calm'.volume => calm.volume /\ (call[c].op = "louder" => call[c].alone)
  <2>1. calm.volume \in BOOLEAN /\ call[c].alone \in BOOLEAN
    BY DEF Types, CalmTypes, Call
  <2>2. CASE Fails(c)
    BY <2>1, <2>2 DEF Fails, Disturbs
  <2>3. CASE Wins(c)
    BY <2>1, <2>3 DEF Wins, Records
  <2> QED
    BY <2>2, <2>3
<1>3. CASE call[c].op # "louder"
  <2>1. volumes'.ok = volumes.ok
    BY <1>1, <1>3 DEF Fails, Wins, Records, Types
  <2>2. UNCHANGED volumes
    BY <1>1, <2>1 DEF Types
  <2> QED
    BY <1>1, <1>2, <1>3, <2>2, VolumeRests DEF Ends, OthersSame, Same, Like, Busy
<1>4. CASE call[c].op = "louder"
  <2>1. Raising' = Raising \ {c} /\ Raised' = Raised \ {c} /\ (Wins(c) => c \in Raised)
    BY <1>1, <1>4 DEF Ends, OthersSame, Same, Like, Raised, Raising, Reached, Steps, Busy, Active, Wins
  <2>2. /\ Cardinality(Raising') =< Cardinality(Raising) /\ Cardinality(Raising) \in Nat
        /\ Cardinality(Raising') \in Nat
        /\ Cardinality(Raised') =< Cardinality(Raised) /\ Cardinality(Raised) \in Nat
        /\ c \in Raised => Cardinality(Raised') = Cardinality(Raised) - 1
        /\ Cardinality(Raised') \in Nat
    <3>1. /\ IsFiniteSet(Raising) /\ IsFiniteSet(Raising \ {c})
          /\ IsFiniteSet(Raised) /\ IsFiniteSet(Raised \ {c})
      BY VolumeSets, FS_RemoveElement
    <3>2. /\ Cardinality(Raising) \in Nat /\ Cardinality(Raising \ {c}) \in Nat
          /\ Cardinality(Raised) \in Nat /\ Cardinality(Raised \ {c}) \in Nat
      BY <3>1, FS_CardinalityType
    <3>3. /\ Cardinality(Raising \ {c}) = IF c \in Raising THEN Cardinality(Raising) - 1 ELSE Cardinality(Raising)
          /\ Cardinality(Raised \ {c}) = IF c \in Raised THEN Cardinality(Raised) - 1 ELSE Cardinality(Raised)
      BY <3>1, FS_RemoveElement
    <3> QED
      BY <2>1, <3>2, <3>3
  <2>3. device.volume + Cardinality(Raising') =< volumes'.begun
    BY <1>1, <2>2 DEF VolumeInv, Types
  <2>4. kind = "bilibili" => volumes'.ok + Cardinality(Raised') =< device.volume
    BY <1>1, <2>1, <2>2 DEF VolumeInv, Types
  <2>5. kind = "dlna" /\ calm'.volume => volumes'.ok =< device.volume
    <3>1. CASE volumes'.ok = volumes.ok
      BY <1>2, <3>1 DEF VolumeInv
    <3>2. CASE Wins(c) /\ volumes'.ok = volumes.ok + 1
      <4>1. kind = "dlna" => call[c].step = 2 /\ Busy(c, {"louder"})
        BY <1>1, <1>4, <3>2 DEF Wins, Busy, Active, Reached, Steps
      <4>2. call[c].arg \in Nat
        BY DEF Types, Call
      <4> QED
        BY <1>1, <1>2, <1>4, <2>1, <3>2, <4>1, <4>2 DEF VolumeInv
    <3> QED
      BY <1>1, <3>1, <3>2
  <2>6. ASSUME NEW d \in Callers
        PROVE  Levelled(d)'
    <3>1. CASE d = c
      BY <1>1, <3>1 DEF Ends, Levelled, Busy
    <3>2. CASE d # c
      <4>1. Levelled(d) /\ call[d].arg \in Nat
        BY DEF VolumeInv, Levelled, Types, Call
      <4>2. /\ Busy(d, {"louder"})' <=> Busy(d, {"louder"})
            /\ call'[d].step = call[d].step /\ call'[d].arg = call[d].arg /\ call'[d].alone = call[d].alone
        BY <1>1, <3>2 DEF Ends, OthersSame, Same, Like, Busy
      <4>3. Busy(d, {"louder"}) => ~call[d].alone /\ ~call[c].alone
        BY <1>1, <1>4, <3>2, Alone DEF Busy, Active, Conflict
      <4> QED
        BY <1>1, <1>2, <1>4, <2>1, <2>2, <3>2, <4>1, <4>2, <4>3 DEF Levelled
    <3> QED
      BY <3>1, <3>2
  <2> QED
    BY <1>1, <2>3, <2>4, <2>5, <2>6 DEF VolumeInv, Levelled
<1> QED
  BY <1>3, <1>4

LEMMA VolumeStep ==
    ASSUME CommandsAssumption, Types, Types', Stages, Overlaps, VolumeInv, Effect
    PROVE  VolumeInv'
<1>1. CASE Ticks
  BY <1>1, VolumeRests DEF Ticks, Busy
<1>2. ASSUME NEW c \in Callers, IsSent(c)
      PROVE  VolumeInv'
  <2>1. call[c].op = "louder" => Extra(c) = call[c].arg
    BY DEF Extra
  <2> QED
    BY <1>2, <2>1, VolumeRests DEF IsSent, OthersSame, Same, Like, Busy
<1>3. ASSUME NEW c \in Callers, Repeats(c) \/ GoesOver(c)
      PROVE  VolumeInv'
  <2>1. /\ OthersSame(c) /\ Own(c) /\ call[c].op # "louder"
        /\ UNCHANGED <<kind, device, calm, volumes>>
    BY <1>3 DEF Repeats, GoesOver, Moves, Stages, Busy
  <2> QED
    BY <2>1, VolumeRests DEF Own, OthersSame, Same, Like, Busy
<1> QED
  BY <1>1, <1>2, <1>3, VolumeStarts, VolumeRuns, VolumeTakesLevel, VolumeEnds DEF Effect

-----------------------------------------------------------------------------
(* The simulated clock of the Bilibili caster.                             *)

PauseOff(d) ==
    call[d].op = "pause" /\ calm.clock =>
        IF Sent(d) THEN /\ clock.paused_at # None
                        /\ Off(drift.ahead, drift.behind + call[d].waited)
                        /\ call[d].ran => ~device.playing
                   ELSE clock.paused_at = None

ResumeOff(d) ==
    call[d].op = "resume" /\ calm.clock /\ Sent(d) =>
        /\ clock.paused_at = None
        /\ Off(drift.ahead + call[d].waited, drift.behind)
        /\ call[d].ran => device.playing

SeekOff(d) ==
    call[d].op = "seek" /\ Sent(d) =>
        /\ clock.started /\ clock.paused_at = None
        /\ clock.running = call[d].arg + call[d].waited
        /\ call[d].ran => call[d].arg =< device.pos /\ device.pos =< clock.running

PlayOff(d) == call[d].op = "play" /\ call[d].ran => device.playing /\ device.pos =< call[d].waited

Bounded(d) ==
    call[d].alone /\ Busy(d, ClockOps) => PauseOff(d) /\ ResumeOff(d) /\ SeekOff(d) /\ PlayOff(d)

AtRest ==
    /\ calm.clock => clock.started
    /\ calm.clock /\ Resting =>
          /\ Off(drift.ahead, drift.behind)
          /\ device.playing = (clock.paused_at = None)
          /\ is_playing => clock.paused_at = None

LEMMA ClockParts ==
    ClockInv <=> AtRest /\ \A d \in Callers : Bounded(d)
BY DEF ClockInv, AtRest, Bounded, PauseOff, ResumeOff, SeekOff, PlayOff

LEMMA ClockPartsNext ==
    ClockInv' <=> AtRest' /\ \A d \in Callers : Bounded(d)'
BY DEF ClockInv, AtRest, Bounded, PauseOff, ResumeOff, SeekOff, PlayOff

\* What arithmetic needs of the types.
LEMMA ClockTypes ==
    ASSUME Types
    PROVE  /\ clock.running \in Nat /\ clock.started \in BOOLEAN /\ clock.paused_at \in Nat \cup {None}
           /\ device.pos \in Nat /\ device.playing \in BOOLEAN
           /\ drift.ahead \in Nat /\ drift.behind \in Nat
           /\ calm.clock \in BOOLEAN /\ is_playing \in BOOLEAN
           /\ \A d \in Callers : /\ call[d].arg \in Nat /\ call[d].waited \in Nat /\ call[d].op \in Ops
                                 /\ call[d].pc \in {"idle", "begun", "sent", "resend"}
BY DEF Types, CalmTypes, Call

\* A clock command that is alone leaves the others at rest, or is the only one.
LEMMA AloneOnClock ==
    ASSUME Overlaps, NEW c \in Callers, call[c].alone, Busy(c, ClockOps)
    PROVE  /\ \A d \in Callers : d # c => ~Busy(d, ClockOps)
           /\ call[c].pc = "begun" => Resting
BY Alone DEF Busy, Active, Conflict, Resting

LEMMA ClockTicks ==
    ASSUME Types, Stages, ClockInv, Ticks
    PROVE  ClockInv'
<1>1. AtRest /\ \A d \in Callers : Bounded(d)
  BY ClockParts
<1>2. UNCHANGED <<is_playing, calm, drift>> /\ clock'.started = clock.started /\ clock'.paused_at = clock.paused_at
      /\ clock'.running = (IF clock.started THEN clock.running + 1 ELSE clock.running)
      /\ device'.playing = device.playing
      /\ device'.pos = IF device.playing THEN device.pos + 1 ELSE device.pos
  BY DEF Ticks
<1>3. AtRest'
  <2>1. Resting' => Resting
    BY DEF Ticks, Resting, Busy
  <2>2. ASSUME calm.clock, Resting
        PROVE  Off(drift.ahead, drift.behind)'
    BY <1>1, <1>2, <2>2, ClockTypes DEF AtRest, Off, Shown, None
  <2> QED
    BY <1>1, <1>2, <2>1, <2>2 DEF AtRest
<1>4. ASSUME NEW d \in Callers, (call[d].alone /\ Busy(d, ClockOps))'
      PROVE  PauseOff(d)' /\ ResumeOff(d)' /\ SeekOff(d)' /\ PlayOff(d)'
  <2>1. /\ call'[d].op = call[d].op /\ call'[d].arg = call[d].arg /\ call'[d].ran = call[d].ran
        /\ Sent(d)' <=> Sent(d)
        /\ call'[d].waited = IF Sent(d) THEN call[d].waited + 1 ELSE call[d].waited
    BY DEF Ticks, Sent
  <2>2. PauseOff(d) /\ ResumeOff(d) /\ SeekOff(d) /\ PlayOff(d)
    BY <1>1, <1>4 DEF Bounded, Ticks, Busy
  <2>3. PauseOff(d)'
    BY <1>2, <2>1, <2>2, ClockTypes DEF PauseOff, Off, Shown, None
  <2>4. ResumeOff(d)'
    BY <1>1, <1>2, <2>1, <2>2, ClockTypes DEF ResumeOff, Off, Shown, None, AtRest
  <2>5. SeekOff(d)'
    BY <1>2, <2>1, <2>2, ClockTypes DEF SeekOff
  <2>6. PlayOff(d)'
    <3>1. call[d].ran => Sent(d)
      BY ClockTypes DEF Stages, Sent
    <3> QED
      BY <1>2, <2>1, <2>2, <3>1, ClockTypes DEF PlayOff
  <2> QED
    BY <2>3, <2>4, <2>5, <2>6
<1> QED
  BY <1>3, <1>4, ClockPartsNext DEF Bounded

\* A step that leaves the clock, the device's playback and the clock commands
\* under way as they were.
ClockLike(d) ==
    Busy(d, ClockOps)' =>
        /\ Busy(d, ClockOps)
        /\ call'[d].op = call[d].op /\ call'[d].arg = call[d].arg /\ call'[d].ran = call[d].ran
        /\ call'[d].waited = call[d].waited /\ (Sent(d)' <=> Sent(d))
        /\ call'[d].alone => call[d].alone

LEMMA ClockRests ==
    ASSUME Types, Types', ClockInv, UNCHANGED <<clock, drift>>,
           device'.playing = device.playing, device'.pos = device.pos,
           calm'.clock => calm.clock,
           calm'.clock /\ Resting' => Resting /\ is_playing' = is_playing,
           \A d \in Callers : ClockLike(d)
    PROVE  ClockInv'
<1>1. AtRest /\ \A d \in Callers : Bounded(d)
  BY ClockParts
<1>2. \A a, b \in Int : Off(a, b)' <=> Off(a, b)
  BY DEF Off, Shown
<1>3. AtRest'
  BY <1>1 DEF AtRest, Off, Shown
<1>4. ASSUME NEW d \in Callers, (call[d].alone /\ Busy(d, ClockOps))'
      PROVE  PauseOff(d)' /\ ResumeOff(d)' /\ SeekOff(d)' /\ PlayOff(d)'
  <2>1. /\ call'[d].op = call[d].op /\ call'[d].arg = call[d].arg /\ call'[d].ran = call[d].ran
        /\ Sent(d)' <=> Sent(d)
        /\ call'[d].waited = call[d].waited
    BY <1>4 DEF ClockLike
  <2>2. PauseOff(d) /\ ResumeOff(d) /\ SeekOff(d) /\ PlayOff(d)
    BY <1>1, <1>4 DEF Bounded, ClockLike
  <2>3. PauseOff(d)' /\ ResumeOff(d)'
    BY <2>1, <2>2 DEF PauseOff, ResumeOff, Off, Shown
  <2>4. SeekOff(d)' /\ PlayOff(d)'
    BY <2>1, <2>2 DEF SeekOff, PlayOff
  <2> QED
    BY <2>3, <2>4
<1> QED
  BY <1>3, <1>4, ClockPartsNext DEF Bounded

LEMMA ClockStarts ==
    ASSUME Types, Types', Overlaps', ClockInv, NEW c \in Callers, StartsOne(c)
    PROVE  ClockInv'
<1>1. PICK op \in Ops, arg \in Nat : Starts(c, op, arg) /\ (op = "pause" => is_playing)
  BY DEF StartsOne, Ops
<1>2. UNCHANGED <<is_playing, clock, device, calm, drift>>
  BY <1>1 DEF Starts, StartsOne
<1>3. AtRest /\ \A d \in Callers : Bounded(d)
  BY ClockParts
<1>4. Resting' => Resting
  BY <1>1 DEF Starts, Like, Resting, Busy
<1>5. AtRest'
  BY <1>2, <1>3, <1>4 DEF AtRest, Off, Shown
<1>6. ASSUME NEW d \in Callers, d # c
      PROVE  Bounded(d)'
  <2>1. ClockLike(d)
    BY <1>1, <1>6 DEF Starts, Like, ClockLike, Busy, Sent
  <2> QED
    BY <1>2, <1>3, <2>1 DEF ClockLike, Bounded, PauseOff, ResumeOff, SeekOff, PlayOff, Off, Shown
<1>7. Bounded(c)'
  <2>1. SUFFICES ASSUME op \in ClockOps, call'[c].alone
                 PROVE  PauseOff(c)' /\ ResumeOff(c)' /\ SeekOff(c)' /\ PlayOff(c)'
    BY <1>1 DEF Bounded, Busy, Starts
  <2>2. Resting
    BY <1>1, <2>1 DEF Starts, Resting, Busy, Active, Conflict
  <2>3. op = "pause" /\ calm.clock => clock.paused_at = None
    BY <1>1, <1>3, <2>2 DEF AtRest
  <2> QED
    BY <1>1, <1>2, <2>3 DEF Starts, Sent, PauseOff, ResumeOff, SeekOff, PlayOff
<1> QED
  BY <1>5, <1>6, <1>7, ClockPartsNext

LEMMA ClockSent ==
    ASSUME Types, Types', Stages, Overlaps, ClockInv, kind = "bilibili", NEW c \in Callers, IsSent(c)
    PROVE  ClockInv'
<1>1. UNCHANGED <<is_playing, device, calm, drift>> /\ clock' = ClockBefore(call[c].op, call[c].arg)
      /\ call[c].pc = "begun" /\ Sent(c)' /\ call'[c].op = call[c].op
  BY DEF IsSent, Sent
<1>2. AtRest /\ \A d \in Callers : Bounded(d)
  BY ClockParts
<1>3. \A d \in Callers : d # c => ClockLike(d)
  BY DEF IsSent, OthersSame, Same, Like, ClockLike, Busy, Sent
<1>4. CASE call[c].op \notin ClockOps
  <2>1. UNCHANGED clock
    BY <1>1, <1>4 DEF ClockBefore, ClockOps
  <2>2. ClockLike(c)
    BY <1>1, <1>4 DEF ClockLike, Busy
  <2>3. Resting' => Resting
    BY <1>4 DEF IsSent, OthersSame, Same, Like, Resting, Busy
  <2> QED
    BY <1>1, <1>3, <2>1, <2>2, <2>3, ClockRests
<1>5. CASE call[c].op \in ClockOps
  <2>1. Busy(c, ClockOps) /\ Busy(c, ClockOps)'
    BY <1>1, <1>5 DEF Busy, Sent
  <2>2. ~Resting'
    BY <1>1, <2>1 DEF Resting, Sent
  <2>3. calm.clock => clock.started /\ clock'.started
    BY <1>1, <1>2, <1>5 DEF AtRest, ClockBefore, Resumed, RunsFrom, Types
  <2>4. AtRest'
    BY <1>1, <2>2, <2>3 DEF AtRest
  <2>5. ASSUME NEW d \in Callers, d # c
        PROVE  ~(call[d].alone /\ Busy(d, ClockOps))'
    BY <1>3, <2>1, <2>5, AloneOnClock DEF ClockLike
  <2>6. ASSUME call'[c].alone
        PROVE  PauseOff(c)' /\ ResumeOff(c)' /\ SeekOff(c)' /\ PlayOff(c)'
    <3>1. call[c].alone
      BY <2>6 DEF IsSent
    <3>2. Resting
      BY <1>1, <2>1, <3>1, AloneOnClock
    <3>3. call'[c].waited = 0 /\ ~call'[c].ran /\ call[c].waited = 0
      BY <1>1 DEF IsSent, Stages
    <3>4. PauseOff(c)
      BY <1>2, <2>1, <3>1 DEF Bounded
    <3>5. CASE call[c].op = "pause"
      <4>1. calm.clock => clock.paused_at = None
        BY <1>1, <3>4, <3>5 DEF PauseOff, Sent
      <4>2. clock'.paused_at = clock.running
        BY <1>1, <3>5, ClockTypes DEF ClockBefore, Types
      <4>3. calm.clock => Off(drift.ahead, drift.behind)'
        BY <1>1, <1>2, <3>2, <4>1, <4>2, ClockTypes DEF AtRest, Off, Shown, None
      <4> QED
        BY <1>1, <3>3, <3>5, <4>2, <4>3, ClockTypes DEF PauseOff, ResumeOff, SeekOff, PlayOff, None
    <3>6. CASE call[c].op = "resume"
      <4>1. clock' = Resumed
        BY <1>1, <3>6 DEF ClockBefore
      <4>2. clock'.paused_at = None /\ Shown' = Shown
        BY <4>1, ClockTypes DEF Resumed, RunsFrom, Shown, None
      <4>3. calm.clock => Off(drift.ahead, drift.behind)'
        BY <1>1, <1>2, <3>2, <4>2, ClockTypes DEF AtRest, Off
      <4> QED
        BY <1>1, <3>3, <3>6, <4>2, <4>3, ClockTypes DEF PauseOff, ResumeOff, SeekOff, PlayOff
    <3>7. CASE call[c].op = "seek"
      <4>1. clock' = RunsFrom(call[c].arg) /\ call'[c].arg = call[c].arg
        BY <1>1, <3>7 DEF ClockBefore, IsSent, Extra
      <4> QED
        BY <1>1, <3>3, <3>7, <4>1, ClockTypes DEF PauseOff, ResumeOff, SeekOff, PlayOff, RunsFrom
    <3>8. CASE call[c].op = "play"
      BY <1>1, <3>3, <3>8 DEF PauseOff, ResumeOff, SeekOff, PlayOff
    <3> QED
      BY <1>5, <3>5, <3>6, <3>7, <3>8 DEF ClockOps
  <2> QED
    BY <2>4, <2>5, <2>6, ClockPartsNext DEF Bounded
<1> QED
  BY <1>4, <1>5

LEMMA ClockRuns ==
    ASSUME Types, Types', Stages, Overlaps, ClockInv, kind = "bilibili", NEW c \in Callers, Runs(c)
    PROVE  ClockInv'
<1>1. /\ UNCHANGED <<is_playing, clock, calm, drift>> /\ call[c].pc = "sent" /\ Sent(c)
      /\ Sent(c)' /\ call'[c].op = call[c].op /\ call'[c].ran /\ call'[c].arg = call[c].arg
      /\ call'[c].alone = call[c].alone /\ call'[c].waited = call[c].waited
  BY DEF Runs, Own, Sent
<1>2. AtRest /\ \A d \in Callers : Bounded(d)
  BY ClockParts
<1>3. \A d \in Callers : d # c => ClockLike(d)
  BY DEF Runs, OthersSame, Same, Like, ClockLike, Busy, Sent
<1>4. CASE call[c].op \notin ClockOps
  <2>1. device'.playing = device.playing /\ device'.pos = device.pos
    BY <1>4, ClockTypes DEF Runs, Carried, Types, Ops, ClockOps
  <2>2. ClockLike(c)
    BY <1>1, <1>4 DEF ClockLike, Busy
  <2>3. Resting' => Resting
    BY <1>4 DEF Runs, OthersSame, Same, Like, Resting, Busy
  <2> QED
    BY <1>1, <1>3, <2>1, <2>2, <2>3, ClockRests
<1>5. CASE call[c].op \in ClockOps
  <2>1. Busy(c, ClockOps) /\ Busy(c, ClockOps)'
    BY <1>1, <1>5 DEF Busy, Sent
  <2>2. ~Resting'
    BY <1>1, <2>1 DEF Resting, Sent
  <2>3. AtRest'
    BY <1>1, <1>2, <2>2 DEF AtRest
  <2>4. ASSUME NEW d \in Callers, d # c
        PROVE  ~(call[d].alone /\ Busy(d, ClockOps))'
    BY <1>3, <2>1, <2>4, AloneOnClock DEF ClockLike
  <2>5. ASSUME call'[c].alone
        PROVE  PauseOff(c)' /\ ResumeOff(c)' /\ SeekOff(c)' /\ PlayOff(c)'
    <3>1. PauseOff(c) /\ ResumeOff(c) /\ SeekOff(c)
      BY <1>1, <1>2, <2>1, <2>5 DEF Bounded
    <3>2. device' = Carried(call[c].op, call[c].arg, call[c].step)
      BY DEF Runs
    <3>3. CASE call[c].op = "pause"
      <4>1. device'.playing = FALSE /\ device'.pos = device.pos
        BY <3>2, <3>3 DEF Carried, Types
      <4> QED
        BY <1>1, <3>1, <3>3, <4>1 DEF PauseOff, ResumeOff, SeekOff, PlayOff, Off, Shown
    <3>4. CASE call[c].op = "resume"
      <4>1. device'.playing = TRUE /\ device'.pos = device.pos
        BY <3>2, <3>4 DEF Carried, Types
      <4> QED
        BY <1>1, <3>1, <3>4, <4>1 DEF PauseOff, ResumeOff, SeekOff, PlayOff, Off, Shown
    <3>5. CASE call[c].op = "seek"
      <4>1. device'.pos = call[c].arg
        BY <3>2, <3>5 DEF Carried, Types
      <4> QED
        BY <1>1, <3>1, <3>5, <4>1, ClockTypes DEF PauseOff, ResumeOff, SeekOff, PlayOff
    <3>6. CASE call[c].op = "play"
      <4>1. device'.playing = TRUE /\ device'.pos = 0
        <5>1. call[c].step = Steps("play")
          BY <1>1, <3>6 DEF Stages, Steps, Active
        <5> QED
          BY <3>2, <3>6, <5>1 DEF Carried, Types
      <4> QED
        BY <1>1, <3>6, <4>1, ClockTypes DEF PauseOff, ResumeOff, SeekOff, PlayOff
    <3> QED
      BY <1>5, <3>3, <3>4, <3>5, <3>6 DEF ClockOps
  <2> QED
    BY <2>3, <2>4, <2>5, ClockPartsNext DEF Bounded
<1> QED
  BY <1>4, <1>5

LEMMA ClockMoves ==
    ASSUME Types, Types', ClockInv, NEW c \in Callers, Repeats(c) \/ GoesOver(c) \/ TakesLevel(c)
    PROVE  ClockInv'
<1>1. UNCHANGED <<is_playing, clock, device, calm, drift>> /\ OthersSame(c) /\ Own(c) /\ call'[c].ran = call[c].ran
  BY DEF Repeats, GoesOver, TakesLevel, Moves
<1>2. Sent(c) /\ Sent(c)' /\ (call'[c].arg = call[c].arg \/ call[c].op = "louder")
  BY DEF Repeats, GoesOver, TakesLevel, Sent
<1>3. \A d \in Callers : ClockLike(d)
  BY <1>1, <1>2 DEF OthersSame, Same, Like, Own, ClockLike, Busy, Sent, ClockOps
<1>4. Resting' => Resting
  BY <1>1, <1>2 DEF OthersSame, Same, Like, Own, Resting, Busy, Sent
<1> QED
  BY <1>1, <1>3, <1>4, ClockRests

LEMMA ClockFails ==
    ASSUME Types, Types', ClockInv, NEW c \in Callers, Fails(c)
    PROVE  ClockInv'
<1>1. UNCHANGED <<is_playing, clock, device, drift>>
  BY DEF Fails
<1>2. calm'.clock => calm.clock /\ call[c].op \notin ClockOps
  BY DEF Fails, Disturbs, Types, CalmTypes
<1>3. \A d \in Callers : ClockLike(d)
  BY DEF Fails, Ends, OthersSame, Same, Like, ClockLike, Busy, Sent
<1>4. calm'.clock /\ Resting' => Resting
  BY <1>2 DEF Fails, Ends, OthersSame, Same, Like, Resting, Busy
<1> QED
  BY <1>1, <1>2, <1>3, <1>4, ClockRests

LEMMA ClockWins ==
    ASSUME Types, Types', Stages, Overlaps, PlayingInv, ClockInv, kind = "bilibili", NEW c \in Callers, Wins(c)
    PROVE  ClockInv'
<1>1. UNCHANGED device /\ call[c].pc = "sent" /\ call[c].ran /\ call[c].op \in Ops
  BY ClockTypes DEF Wins, Ends, Stages, Reached
<1>2. AtRest /\ \A d \in Callers : Bounded(d)
  BY ClockParts
<1>3. \A d \in Callers : ClockLike(d)
  BY DEF Wins, Ends, OthersSame, Same, Like, ClockLike, Busy, Sent
<1>4. CASE call[c].op \notin ClockOps
  <2>1. UNCHANGED <<clock, drift, is_playing>> /\ calm'.clock = calm.clock
    BY <1>1, <1>4 DEF Wins, Records, Ops, ClockOps
  <2>2. Resting' => Resting
    BY <1>4 DEF Wins, Ends, OthersSame, Same, Like, Resting, Busy
  <2> QED
    BY <1>1, <1>3, <2>1, <2>2, ClockRests
<1>5. CASE call[c].op \in ClockOps
  <2>1. Busy(c, ClockOps) /\ Sent(c)
    BY <1>1, <1>5 DEF Busy, Sent
  <2>2. ASSUME NEW d \in Callers
        PROVE  ~(call[d].alone /\ Busy(d, ClockOps))'
    BY <1>3, <2>1, AloneOnClock DEF ClockLike, Wins, Ends, Busy
  <2>3. ASSUME calm'.clock
        PROVE  /\ clock'.started /\ Off(drift.ahead, drift.behind)'
               /\ device'.playing = (clock'.paused_at = None)
               /\ is_playing' => clock'.paused_at = None
    <3>1. call[c].alone /\ (calm.clock \/ call[c].op \in {"play", "seek"})
      BY <1>5, <2>3 DEF Wins, Records
    <3>2. PauseOff(c) /\ ResumeOff(c) /\ SeekOff(c) /\ PlayOff(c)
      BY <1>2, <2>1, <3>1 DEF Bounded
    <3>3. calm.clock => clock.started
      BY <1>2 DEF AtRest
    <3>4. CASE call[c].op = "pause"
      <4>1. UNCHANGED clock /\ drift'.ahead = drift.ahead /\ drift'.behind = drift.behind + call[c].waited
            /\ ~is_playing'
        BY <3>4 DEF Wins, Records, Types
      <4>2. clock.paused_at # None /\ Off(drift.ahead, drift.behind + call[c].waited) /\ ~device.playing
        BY <1>1, <2>1, <3>1, <3>2, <3>4 DEF PauseOff
      <4> QED
        BY <1>1, <3>1, <3>3, <3>4, <4>1, <4>2, ClockTypes DEF Off, Shown
    <3>5. CASE call[c].op = "resume"
      <4>1. UNCHANGED clock /\ drift'.ahead = drift.ahead + call[c].waited /\ drift'.behind = drift.behind
        BY <3>5 DEF Wins, Records, Types
      <4>2. clock.paused_at = None /\ Off(drift.ahead + call[c].waited, drift.behind) /\ device.playing
        BY <1>1, <2>1, <3>1, <3>2, <3>5 DEF ResumeOff
      <4> QED
        BY <1>1, <3>1, <3>3, <3>5, <4>1, <4>2, ClockTypes DEF Off, Shown
    <3>6. CASE call[c].op = "seek"
      <4>1. UNCHANGED clock /\ drift'.ahead = call[c].waited /\ drift'.behind = 0
        BY <3>6 DEF Wins, Records
      <4>2. device.playing
        BY <2>1, <3>1, <3>6 DEF PlayingInv, Busy
      <4>3. /\ clock.started /\ clock.paused_at = None
            /\ clock.running = call[c].arg + call[c].waited
            /\ call[c].arg =< device.pos /\ device.pos =< clock.running
        BY <1>1, <2>1, <3>2, <3>6 DEF SeekOff
      <4>4. Shown' = clock.running
        BY <4>1, <4>3 DEF Shown
      <4>5. Off(drift.ahead, drift.behind)'
        BY <1>1, <4>1, <4>3, <4>4, ClockTypes DEF Off
      <4> QED
        BY <1>1, <4>1, <4>2, <4>3, <4>5
    <3>7. CASE call[c].op = "play"
      <4>1. clock' = RunsFrom(0) /\ drift'.ahead = 0 /\ drift'.behind = call[c].waited
        BY <3>7 DEF Wins, Records
      <4> QED
        BY <1>1, <3>2, <3>7, <4>1, ClockTypes DEF PlayOff, Off, Shown, RunsFrom, None
    <3> QED
      BY <1>5, <3>4, <3>5, <3>6, <3>7 DEF ClockOps
  <2>4. AtRest'
    BY <2>3 DEF AtRest
  <2> QED
    BY <2>2, <2>4, ClockPartsNext DEF Bounded
<1> QED
  BY <1>4, <1>5

LEMMA ClockStep ==
    ASSUME Types, Types', Stages, Overlaps, Overlaps', PlayingInv, kind = "bilibili" => ClockInv, Effect
    PROVE  (kind = "bilibili" => ClockInv)'
<1>1. UNCHANGED kind
  BY SMTT(40) DEF Effect, Ticks, StartsOne, Starts, IsSent, Runs, Repeats, GoesOver, TakesLevel, Moves, Fails, Wins
<1>2. ASSUME kind = "bilibili"
      PROVE  ClockInv'
  <2>1. CASE Ticks
    BY <1>2, <2>1, ClockTicks
  <2>2. ASSUME NEW c \in Callers, StartsOne(c) \/ IsSent(c)
        PROVE  ClockInv'
    BY <1>2, <2>2, ClockStarts, ClockSent
  <2>3. ASSUME NEW c \in Callers, Runs(c) \/ Wins(c)
        PROVE  ClockInv'
    BY <1>2, <2>3, ClockRuns, ClockWins
  <2>4. ASSUME NEW c \in Callers, Repeats(c) \/ GoesOver(c) \/ TakesLevel(c) \/ Fails(c)
        PROVE  ClockInv'
    BY <1>2, <2>4, ClockMoves, ClockFails
  <2> QED
    BY <2>1, <2>2, <2>3, <2>4 DEF Effect
<1> QED
  BY <1>1, <1>2

-----------------------------------------------------------------------------
(* The theorems.                                                           *)

LEMMA InvInit ==
    ASSUME CommandsAssumption, Init
    PROVE  Inv
<1>1. Types
  BY DEF Init, Types, CalmTypes, CommandsAssumption, NoCall, Call, Ops, None
<1>2. \A c \in Callers : call[c].pc = "idle" /\ ~call[c].done /\ ~call[c].ran /\ call[c].waited = 0
  BY DEF Init, NoCall
<1>3. Stages /\ Overlaps
  BY <1>2 DEF Stages, Overlaps, Active, Busy
<1>4. PlayingInv /\ SettingInv
  BY <1>2 DEF Init, PlayingInv, SettingInv, Busy
<1>5. VolumeInv
  <2>1. Raised = {} /\ Raising = {}
    BY <1>2 DEF Raised, Raising, Busy
  <2> QED
    BY <1>2, <2>1, FS_EmptySet DEF Init, VolumeInv, Busy
<1>6. ClockInv
  BY <1>2 DEF Init, ClockInv, Busy
<1> QED
  BY <1>1, <1>3, <1>4, <1>5, <1>6 DEF Inv

LEMMA InvStep ==
    ASSUME CommandsAssumption, Inv, [Next]_vars
    PROVE  Inv'
<1>1. CASE Next
  <2>1. Types' /\ Effect
    BY <1>1, StepEffect DEF Inv
  <2>2. Stages' /\ Overlaps'
    BY <2>1, StagesStep, OverlapsStep DEF Inv
  <2>3. PlayingInv' /\ SettingInv' /\ VolumeInv'
    BY <2>1, PlayingStep, SettingStep, VolumeStep DEF Inv
  <2>4. (kind = "bilibili" => ClockInv)'
    BY <2>1, <2>2, ClockStep DEF Inv
  <2> QED
    BY <2>1, <2>2, <2>3, <2>4 DEF Inv
<1>2. CASE UNCHANGED vars
  BY <1>2 DEF vars, Inv, Types, Stages, Overlaps, PlayingInv, SettingInv, VolumeInv, ClockInv, Raised, Raising,
              Reached, Steps, MayFail, Untouched, Agree, Resting, Off, Shown, Busy, Sent, Active, Endpoints, Requests, RequestsOf
<1> QED
  BY <1>1, <1>2

LEMMA InvHolds == Spec => []Inv
<1>1. Init => Inv
  BY InvInit, CommandsAssumption
<1>2. Inv /\ [Next]_vars => Inv'
  BY InvStep, CommandsAssumption
<1> QED
  BY <1>1, <1>2, PTL DEF Spec

\* LocalProgressTracker and the order of its updates and send_cmd: after a play
\* or a seek, and while commands come one at a time and none fails, the
\* simulated position is off by no more than the requests took, however many
\* commands there were, and runs if and only if the TV plays.
THEOREM ClockStaysHonest == Spec => []ClockIsHonest
<1>1. ASSUME Inv
      PROVE  ClockIsHonest
  <2>1. Quiet(ClockOps) => Resting
    BY DEF Quiet, Resting, Busy, Active
  <2> QED
    BY <1>1, <2>1 DEF Inv, ClockIsHonest, ClockInv, Off
<1>2. Inv => ClockIsHonest
  BY <1>1
<1> QED
  BY <1>2, InvHolds, PTL

\* toggle_pause_core stores its state after the answer and nothing else writes
\* it but a recast that was answered: whoever gives the commands, is_playing is
\* what the device does, from a command that was acknowledged to one that
\* overlapped or failed after the device had carried out a part of it (the Stop
\* of a song it refuses to play), but for a song of the callback after a pause.
THEOREM ToggleStaysTrue == Spec => []ToggleIsTrue
<1>1. ASSUME Inv
      PROVE  ToggleIsTrue
  <2>1. Quiet(ClockOps) => Untouched
    BY DEF Quiet, Untouched, Busy, Active
  <2> QED
    BY <1>1, <2>1 DEF Inv, ToggleIsTrue, PlayingInv, Agree
<1>2. Inv => ToggleIsTrue
  BY <1>1
<1> QED
  BY <1>2, InvHolds, PTL

\* play_song sends the danmaku switch along and set_danmaku stores it after the
\* answer: the TV has the switch the client shows.
THEOREM SettingStaysTrue == Spec => []SettingIsTrue
<1>1. ASSUME Inv
      PROVE  SettingIsTrue
  <2>1. Quiet({"play", "danmaku"}) => \A c \in Callers : ~Busy(c, Switches)
    BY DEF Quiet, Switches, Busy, Active
  <2> QED
    BY <1>1, <2>1 DEF Inv, SettingIsTrue, SettingInv
<1>2. Inv => SettingIsTrue
  BY <1>1
<1> QED
  BY <1>2, InvHolds, PTL

\* retry_cast_request sends a volume command once: the volume has risen by one
\* for each command that was acknowledged, and for no more than were given.
THEOREM VolumeStaysHonest == Spec => []VolumeIsRaisedOnce
<1>1. ASSUME Inv
      PROVE  VolumeIsRaisedOnce
  <2>1. Cardinality(Raising) \in Nat /\ Cardinality(Raised) \in Nat
    BY VolumeSets, CommandsAssumption
  <2>2. volumes.ok \in Nat /\ volumes.begun \in Nat /\ device.volume \in Nat /\ kind \in {"dlna", "bilibili"}
    BY <1>1 DEF Inv, Types
  <2> QED
    BY <1>1, <2>1, <2>2 DEF Inv, VolumeIsRaisedOnce, VolumeInv
<1>2. Inv => VolumeIsRaisedOnce
  BY <1>1
<1> QED
  BY <1>2, InvHolds, PTL
=============================================================================
