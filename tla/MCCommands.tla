----------------------------- MODULE MCCommands -----------------------------
(***************************************************************************)
(* The properties of Commands.                                             *)
(***************************************************************************)
EXTENDS Commands, TLC

CONSTANTS ui, callback

\* The callback plays songs while the UI gives commands of every other kind.
TwoThreads == ui :> {"toggle", "seek", "louder", "danmaku"} @@ callback :> {"play", "louder"}

TwoEach == ui :> 2 @@ callback :> 2

Quiet(ops) == \A c \in Callers : Active(c) => call[c].op \notin ops

\* "Start the simulated clock only after success": after a play or a seek, and
\* as long as commands come one at a time and none fails, the simulated
\* position differs from the device's by no more than the time the commands
\* were on their way, in the direction each of them explains
\* (LocalProgressTracker and the order of its updates and send_cmd).
ClockIsHonest ==
    kind = "bilibili" /\ calm.clock /\ Quiet(ClockOps)
    => /\ Shown - device.pos =< drift.ahead
       /\ device.pos - Shown =< drift.behind
       /\ device.playing = (clock.paused_at = None)

\* is_playing is what the device does, so that the next toggle does the other
\* thing: after a command that was acknowledged and interfered with by none, as
\* long as those that failed since were refused before the device carried out
\* any part of them, the Stop of a song it cannot play among them.  In the other
\* direction it holds from a command that stored the state (toggle_pause_core
\* after the answer, recast_current_song TRUE) to the callback's next song, which
\* stores nothing: played after a pause, it leaves is_playing FALSE.
ToggleIsTrue ==
    calm.playing /\ Quiet(ClockOps) =>
        /\ is_playing => device.playing
        /\ device.playing /\ calm.stored => is_playing

\* A song is played with the danmaku switch the client shows (play_song sends
\* it along, set_danmaku stores it after the answer).
SettingIsTrue ==
    calm.danmaku /\ Quiet({"play", "danmaku"}) => device.danmaku = danmaku

\* A volume command raises the volume once: with the Bilibili caster whatever
\* is lost or overlaps, with DLNA's get and set unless two of them overlap.
VolumeIsRaisedOnce ==
    kind = "bilibili" \/ calm.volume =>
        volumes.ok =< device.volume /\ device.volume =< volumes.begun

\* "SOAP_TIMEOUT must be less than ANR_DEADLINE, or a device that does not
\* answer keeps the call from returning in time": the commands of the UI return
\* in time (togglePause and the volume; a play has a thread of its own).
BackInTime == \A c \in Callers : call[c].spent =< ANR_DEADLINE
=============================================================================
