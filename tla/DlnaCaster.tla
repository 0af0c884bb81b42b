----------------------------- MODULE DlnaCaster -----------------------------
(***************************************************************************)
(* DlnaCaster (cast/dlna_caster.rs) with the media sessions: playing a     *)
(* song, switching the quality of the one playing, seeking, and the        *)
(* renderer that fetches what it was told to play.  Songs are played one   *)
(* at a time (playback_lock); quality switches and seeks come from other   *)
(* threads at any time.                                                    *)
(*                                                                         *)
(* Every song played is a new one and is named by its place: song 2 is the *)
(* one played after song 1.  A position is represented by the song it is a *)
(* position of; NoSong is the start.                                       *)
(***************************************************************************)
EXTENDS MediaSessions

CONSTANTS
    Seekers,           \* concurrent calls of seek
    Getters,           \* concurrent HTTP requests of the renderer
    MaxPlays,          \* bound: songs played
    MaxSwitches,       \* bound: quality switches
    MaxSeeks,          \* bound: seeks
    MaxToggles,        \* bound: changes of the direct mode
    MaxStreams,        \* bound: response streams
    CommandMayFail,    \* the renderer may refuse a command or not answer it
    PlayMayBeDropped   \* a recast's 120 s may end in the middle of play_song

Casters == {"player", "setter"}

ASSUME DlnaCasterAssumption ==
    /\ Preparers = Casters \cup Getters
    /\ Getters \cap Casters = {}
    /\ Seekers \cap (Casters \cup {"free"}) = {}
    /\ {MaxPlays, MaxSwitches, MaxSeeks, MaxToggles, MaxStreams} \subseteq Nat
    /\ {CommandMayFail, PlayMayBeDropped} \subseteq BOOLEAN

VARIABLES
    direct,            \* DLNA_DIRECT
    quality,           \* DLNA_QUALITY_QN
    current_song,      \* the song play_song was last called with
    seek_sequence,
    loaded_generation, \* the session the renderer was last made to play
    transport,         \* the transport mutex: "free" or who holds it
    cast,              \* where play_song and set_quality stand
    seek,              \* where each seek stands
    device,            \* what the renderer plays
    streams,           \* response streams of the seekable cache
    stream_id,         \* per generation: streams opened so far
    stream_epoch,      \* per generation: streams up to this id are retired
    confirmed,         \* history: the song the last successful play_song played
    left               \* what the bounds leave: plays, switches, ...

castVars == <<direct, quality, current_song, seek_sequence, loaded_generation,
              transport, cast, confirmed, left>>
streamVars == <<streams, stream_id, stream_epoch>>
vars == <<sessionVars, castVars, seek, device, streamVars>>

NoSong == 0
Qualities == {"P720", "P1080"}
IdleCast == [pc |-> "idle", song |-> NoSong, gen |-> NoGeneration, to |-> "P720",
             position |-> NoSong, sequence |-> 0, previous |-> NoGeneration]
IdleSeek == [pc |-> "idle", song |-> NoSong, sequence |-> 0,
             in_session |-> FALSE, gen |-> NoGeneration, cutoff |-> 0]

Init ==
    /\ SessionsInit
    /\ direct \in (IF MaxToggles > 0 THEN BOOLEAN ELSE {FALSE})
    /\ quality = "P720"
    /\ current_song = NoSong
    /\ seek_sequence = 0
    /\ loaded_generation = NoGeneration
    /\ transport = "free"
    /\ cast = [c \in Casters |-> IdleCast]
    /\ seek = [s \in Seekers |-> IdleSeek]
    /\ device = [song |-> NoSong, gen |-> NoGeneration, playing |-> FALSE]
    /\ streams = {}
    /\ stream_id = [g \in 1 .. MaxGeneration |-> 0]
    /\ stream_epoch = [g \in 1 .. MaxGeneration |-> 0]
    /\ confirmed = NoSong
    /\ left = [plays |-> MaxPlays, switches |-> MaxSwitches, seeks |-> MaxSeeks,
               toggles |-> MaxToggles]

Spend(what) == left[what] > 0 /\ left' = [left EXCEPT ![what] = @ - 1]
Goes(c, pc) == cast' = [cast EXCEPT ![c].pc = pc]

\* Returning, or being dropped, releases the transport.
Returns(c, ok) ==
    /\ cast' = [cast EXCEPT ![c] = IdleCast]
    /\ transport' = IF transport = c THEN "free" ELSE transport
    /\ confirmed' = IF ok /\ c = "player" THEN cast[c].song ELSE confirmed

-----------------------------------------------------------------------------
(* play_song and set_quality, up to reload_song_at.                        *)

\* current_song and seek_sequence are set before the media is prepared.
play_song ==
    /\ cast["player"].pc = "idle"
    /\ Spend("plays")
    /\ current_song' = current_song + 1
    /\ seek_sequence' = seek_sequence + 1
    /\ cast' = [cast EXCEPT !["player"] =
                   [IdleCast EXCEPT !.pc = "activate", !.song = current_song + 1]]
    /\ UNCHANGED <<sessionVars, direct, quality, loaded_generation, transport,
                   confirmed, seek, device, streamVars>>

\* set_quality asks the renderer for the position first, if there is anything
\* to switch.
set_quality ==
    /\ cast["setter"].pc = "idle"
    /\ Spend("switches")
    /\ \E q \in Qualities \ {quality} :
          /\ ~(direct /\ q = "P1080")
          /\ cast' = [cast EXCEPT !["setter"] = [IdleCast EXCEPT !.pc = "query", !.to = q]]
    /\ UNCHANGED <<sessionVars, direct, quality, current_song, seek_sequence,
                   loaded_generation, transport, confirmed, seek, device, streamVars>>

\* The renderer answers; after an error the position is the start.
PositionArrives ==
    /\ cast["setter"].pc = "query"
    /\ \E position \in {NoSong, device.song} :
          cast' = [cast EXCEPT !["setter"].pc = "set", !["setter"].position = position]
    /\ UNCHANGED <<sessionVars, direct, quality, current_song, seek_sequence,
                   loaded_generation, transport, confirmed, left, seek, device, streamVars>>

\* The direct mode may have been turned on meanwhile.
ChecksDirect ==
    /\ cast["setter"].pc = "set"
    /\ IF direct /\ cast["setter"].to = "P1080"
       THEN Returns("setter", FALSE)
       ELSE Goes("setter", "store") /\ UNCHANGED <<transport, confirmed>>
    /\ UNCHANGED <<sessionVars, direct, quality, current_song, seek_sequence,
                   loaded_generation, left, seek, device, streamVars>>

\* The quality is set, and the song to be played by now is loaded again.
StoresQuality ==
    /\ cast["setter"].pc = "store"
    /\ quality' = cast["setter"].to
    /\ IF current_song = NoSong
       THEN Returns("setter", TRUE)
       ELSE /\ cast' = [cast EXCEPT !["setter"].pc = "activate",
                                    !["setter"].song = current_song]
            /\ UNCHANGED <<transport, confirmed>>
    /\ UNCHANGED <<sessionVars, direct, current_song, seek_sequence,
                   loaded_generation, left, seek, device, streamVars>>

\* pause and resume hold the transport for one command.
toggle_pause ==
    /\ transport = "free"
    /\ device.song # NoSong
    /\ device' = [device EXCEPT !.playing = ~@]
    /\ UNCHANGED <<sessionVars, castVars, seek, streamVars>>

\* set_dlna_direct takes effect with the next load.
set_dlna_direct ==
    /\ Spend("toggles")
    /\ direct' = ~direct
    /\ quality' = IF direct' THEN "P720" ELSE quality
    /\ UNCHANGED <<sessionVars, current_song, seek_sequence, loaded_generation,
                   transport, cast, confirmed, seek, device, streamVars>>

-----------------------------------------------------------------------------
(* reload_song_at.                                                         *)

\* A new session replaces the current one, except in direct mode.
Activates(c) ==
    /\ cast[c].pc = "activate"
    /\ IF direct
       THEN /\ cast' = [cast EXCEPT ![c].pc = "resolve",
                                    ![c].sequence = seek_sequence]
            /\ UNCHANGED sessionVars
       ELSE /\ activate(cast[c].song)
            /\ cast' = [cast EXCEPT ![c].pc = "cancel", ![c].gen = current',
                                    ![c].previous = current]
            /\ UNCHANGED prep
    /\ UNCHANGED <<direct, quality, current_song, seek_sequence, loaded_generation,
                   transport, confirmed, left, seek, device, streamVars>>

\* cancel() goes on to the previous session's cache.
CancelsPrevious(c) ==
    /\ cast[c].pc = "cancel"
    /\ IF cast[c].previous = NoGeneration
       THEN UNCHANGED sessions
       ELSE sessions' = CancelCache(cast[c].previous)
    /\ Goes(c, "prepare")
    /\ prep' = [prep EXCEPT ![c] = [pc |-> "prepare", gen |-> cast[c].gen]]
    /\ UNCHANGED <<current, direct, quality, current_song, seek_sequence,
                   loaded_generation, transport, confirmed, left, seek, device, streamVars>>

Prepared(c) ==
    /\ cast[c].pc = "prepare"
    /\ \/ prep[c].pc = "ok" /\ Goes(c, "lock") /\ UNCHANGED <<transport, confirmed>>
       \/ prep[c].pc = "err" /\ Returns(c, FALSE)
    /\ prep' = [prep EXCEPT ![c] = NotPreparing]
    /\ UNCHANGED <<sessions, current, direct, quality, current_song, seek_sequence,
                   loaded_generation, left, seek, device, streamVars>>

\* Direct mode: the link is looked up, which fails for 1080P.
ResolvesDirect(c) ==
    /\ cast[c].pc = "resolve"
    /\ \/ Goes(c, "lock") /\ UNCHANGED <<transport, confirmed>>
       \/ PrepareMayFail /\ Returns(c, FALSE)
    /\ UNCHANGED <<sessionVars, direct, quality, current_song, seek_sequence,
                   loaded_generation, left, seek, device, streamVars>>

InSession(c) == cast[c].gen # NoGeneration
Replaced(c) == InSession(c) /\ is_stopped(cast[c].gen)
Outdated(c) == ~InSession(c) /\ cast[c].sequence # seek_sequence

\* Faulty: commands of two loads mix.
LocksWithoutWaiting(c) ==
    /\ cast[c].pc = "lock"
    /\ IF Outdated(c) \/ Replaced(c)
       THEN Returns(c, FALSE)
       ELSE transport' = c /\ Goes(c, "stop") /\ UNCHANGED confirmed
    /\ UNCHANGED <<sessionVars, direct, quality, current_song, seek_sequence,
                   loaded_generation, left, seek, device, streamVars>>

\* The transport is free: a load that was overtaken while it waited gives up.
Locks(c) ==
    /\ cast[c].pc = "lock"
    /\ transport = "free"
    /\ IF Outdated(c) \/ Replaced(c)
       THEN Returns(c, FALSE)
       ELSE transport' = c /\ Goes(c, "stop") /\ UNCHANGED confirmed
    /\ UNCHANGED <<sessionVars, direct, quality, current_song, seek_sequence,
                   loaded_generation, left, seek, device, streamVars>>

\* The stop command, whose failure is ignored; direct mode drops the session.
Stops(c) ==
    /\ cast[c].pc = "stop"
    /\ device' \in {[device EXCEPT !.playing = FALSE]}
                      \cup (IF CommandMayFail THEN {device} ELSE {})
    /\ IF Replaced(c)
       THEN Returns(c, FALSE) /\ UNCHANGED <<sessions, current, loaded_generation>>
       ELSE /\ Goes(c, "uri") /\ UNCHANGED <<transport, confirmed>>
            /\ IF InSession(c)
               THEN UNCHANGED <<sessions, current, loaded_generation>>
               ELSE clear /\ loaded_generation' = NoGeneration
    /\ UNCHANGED <<prep, direct, quality, current_song, seek_sequence, left, seek,
                   streamVars>>

\* SetAVTransportURI; a load replaced meanwhile does not go on to Play.
SetsUri(c) ==
    /\ cast[c].pc = "uri"
    /\ \/ /\ device' = [device EXCEPT !.song = cast[c].song, !.gen = cast[c].gen]
          /\ IF Replaced(c)
             THEN Returns(c, FALSE)
             ELSE Goes(c, "play") /\ UNCHANGED <<transport, confirmed>>
       \/ /\ CommandMayFail
          /\ UNCHANGED device
          /\ Returns(c, FALSE)
    /\ UNCHANGED <<sessionVars, direct, quality, current_song, seek_sequence,
                   loaded_generation, left, seek, streamVars>>

\* Play; then the position is restored, if there is one.
Plays(c) ==
    /\ cast[c].pc = "play"
    /\ \/ /\ device' = [device EXCEPT !.playing = TRUE]
          /\ loaded_generation' = IF InSession(c) THEN cast[c].gen ELSE loaded_generation
          /\ IF cast[c].position = NoSong
             THEN Returns(c, TRUE)
             ELSE Goes(c, "restore") /\ UNCHANGED <<transport, confirmed>>
       \/ /\ CommandMayFail
          /\ UNCHANGED <<device, loaded_generation>>
          /\ Returns(c, FALSE)
    /\ UNCHANGED <<sessionVars, direct, quality, current_song, seek_sequence, left,
                   seek, streamVars>>

RestoresPosition(c) ==
    /\ cast[c].pc = "restore"
    /\ \E ok \in {TRUE} \cup (IF CommandMayFail THEN {FALSE} ELSE {}) : Returns(c, ok)
    /\ UNCHANGED <<sessionVars, direct, quality, current_song, seek_sequence,
                   loaded_generation, left, seek, device, streamVars>>

\* A recast is dropped at an await: its command may still reach the renderer.
IsDropped ==
    /\ PlayMayBeDropped
    /\ cast["player"].pc \in {"prepare", "resolve", "lock", "stop", "uri", "play"}
    /\ prep["player"].pc \in {"idle", "wait", "resolve"}
    /\ Returns("player", FALSE)
    /\ prep' = [prep EXCEPT !["player"] = NotPreparing]
    /\ \/ UNCHANGED device
       \/ cast["player"].pc = "stop" /\ device' = [device EXCEPT !.playing = FALSE]
       \/ /\ cast["player"].pc = "uri"
          /\ device' = [device EXCEPT !.song = cast["player"].song,
                                      !.gen = cast["player"].gen]
       \/ cast["player"].pc = "play" /\ device' = [device EXCEPT !.playing = TRUE]
    /\ UNCHANGED <<sessions, current, direct, quality, current_song, seek_sequence,
                   loaded_generation, left, seek, streamVars>>

-----------------------------------------------------------------------------
(* The renderer's requests for a session's path (proxy_handler, serve).    *)

\* It asks for a path it was told to play now or before.  A path that is not
\* the current session's is Gone.
RequestArrives(h) ==
    /\ prep[h].pc = "idle"
    /\ \E g \in Generations :
          /\ g =< device.gen /\ get(g)
          /\ prep' = [prep EXCEPT ![h] = [pc |-> "prepare", gen |-> g]]
    /\ UNCHANGED <<sessions, current, castVars, seek, device, streamVars>>

\* serve(): the stream subscribes to the epoch and takes its number.
Serves(h) ==
    /\ prep[h].pc = "ok"
    /\ LET g == prep[h].gen
       IN  IF sessions[g].ready = "seekable"
           THEN /\ stream_id[g] < MaxStreams
                /\ stream_id' = [stream_id EXCEPT ![g] = @ + 1]
                /\ streams' = streams \cup {[gen |-> g, id |-> stream_id'[g], fresh |-> TRUE]}
           ELSE UNCHANGED <<stream_id, streams>>
    /\ prep' = [prep EXCEPT ![h] = NotPreparing]
    /\ UNCHANGED <<sessions, current, castVars, seek, device, stream_epoch>>

\* The session is gone, its media cannot be had, the renderer hangs up, or it
\* asked for the headers only.
RequestEnds(h) ==
    /\ prep[h].pc \in {"err", "wait", "resolve", "ok"}
    /\ prep' = [prep EXCEPT ![h] = NotPreparing]
    /\ UNCHANGED <<sessions, current, castVars, seek, device, streamVars>>

\* A stream ends when it is retired or cancelled, or before.
StreamEnds(stream) ==
    /\ streams' = streams \ {stream}
    /\ UNCHANGED <<sessionVars, castVars, seek, device, stream_id, stream_epoch>>

-----------------------------------------------------------------------------
(* seek().                                                                 *)

SeekBegins(s) ==
    /\ seek[s].pc = "idle"
    /\ Spend("seeks")
    /\ seek_sequence' = seek_sequence + 1
    /\ seek' = [seek EXCEPT ![s] =
                   [IdleSeek EXCEPT !.pc = "lock", !.song = current_song,
                                    !.sequence = seek_sequence + 1,
                                    !.in_session = loaded_generation # NoGeneration]]
    /\ UNCHANGED <<sessionVars, direct, quality, current_song, loaded_generation,
                   transport, cast, confirmed, device, streamVars>>

\* Faulty: a seek that was overtaken while it waited goes on.
SeekLocksWhateverCame(s) ==
    /\ seek[s].pc = "lock"
    /\ transport = "free"
    /\ IF seek[s].in_session => get(loaded_generation)
       THEN /\ transport' = s
            /\ seek' = [seek EXCEPT ![s].pc = "sent",
                           ![s].gen = IF seek[s].in_session THEN loaded_generation
                                                            ELSE NoGeneration,
                           ![s].cutoff = IF seek[s].in_session
                                         THEN stream_id[loaded_generation] ELSE 0]
       ELSE seek' = [seek EXCEPT ![s] = IdleSeek] /\ UNCHANGED transport
    /\ UNCHANGED <<sessionVars, direct, quality, current_song, seek_sequence,
                   loaded_generation, cast, confirmed, left, device, streamVars>>

\* The transport is free.  Only the latest seek goes on, and only if the
\* loaded session is still the current one; the streams open now are noted.
SeekLocks(s) ==
    /\ seek[s].pc = "lock"
    /\ transport = "free"
    /\ IF /\ seek[s].sequence = seek_sequence
          /\ seek[s].in_session => get(loaded_generation)
       THEN /\ transport' = s
            /\ seek' = [seek EXCEPT ![s].pc = "sent",
                           ![s].gen = IF seek[s].in_session THEN loaded_generation
                                                            ELSE NoGeneration,
                           ![s].cutoff = IF seek[s].in_session
                                         THEN stream_id[loaded_generation] ELSE 0]
       ELSE seek' = [seek EXCEPT ![s] = IdleSeek] /\ UNCHANGED transport
    /\ UNCHANGED <<sessionVars, direct, quality, current_song, seek_sequence,
                   loaded_generation, cast, confirmed, left, device, streamVars>>

\* The renderer moves; it may open its new stream before it answers.
SeekExecutes(s) ==
    /\ seek[s].pc = "sent"
    /\ seek' = [seek EXCEPT ![s].pc = "executed"]
    /\ streams' = {[stream EXCEPT !.fresh = FALSE] : stream \in streams}
    /\ UNCHANGED <<sessionVars, castVars, device, stream_id, stream_epoch>>

SeekEnds(s) ==
    /\ seek' = [seek EXCEPT ![s] = IdleSeek]
    /\ transport' = "free"
    /\ UNCHANGED <<sessionVars, direct, quality, current_song, seek_sequence,
                   loaded_generation, cast, confirmed, left, device, streams, stream_id>>

Retires(g, cutoff) ==
    stream_epoch' = IF g = NoGeneration THEN stream_epoch
                    ELSE [stream_epoch EXCEPT ![g] = IF @ < cutoff THEN cutoff ELSE @]

\* Faulty: every stream open by now is retired.
RetiresAllByNow(s) ==
    /\ seek[s].pc = "executed"
    /\ Retires(seek[s].gen, IF seek[s].gen = NoGeneration THEN 0 ELSE stream_id[seek[s].gen])
    /\ SeekEnds(s)

\* "Cancel only streams present before the accepted command."
SeekReturns(s) ==
    /\ seek[s].pc = "executed"
    /\ Retires(seek[s].gen, seek[s].cutoff)
    /\ SeekEnds(s)

\* The command is refused, or its answer is lost.
SeekFails(s) ==
    /\ CommandMayFail
    /\ seek[s].pc \in {"sent", "executed"}
    /\ UNCHANGED stream_epoch
    /\ SeekEnds(s)

-----------------------------------------------------------------------------

CastSteps(c) ==
    \/ Activates(c) \/ CancelsPrevious(c) \/ Prepared(c) \/ ResolvesDirect(c)
    \/ Locks(c) \/ Stops(c) \/ SetsUri(c) \/ Plays(c) \/ RestoresPosition(c)

SessionSteps ==
    /\ \E p \in Preparers : PrepareSteps(p)
    /\ UNCHANGED <<castVars, seek, device, streamVars>>

GetterSteps(h) == RequestArrives(h) \/ Serves(h) \/ RequestEnds(h)

SeekSteps(s) ==
    SeekBegins(s) \/ SeekLocks(s) \/ SeekExecutes(s) \/ SeekReturns(s) \/ SeekFails(s)

Next ==
    \/ play_song \/ set_quality \/ PositionArrives \/ ChecksDirect
    \/ StoresQuality \/ set_dlna_direct \/ toggle_pause \/ IsDropped
    \/ \E c \in Casters : CastSteps(c)
    \/ SessionSteps
    \/ \E h \in Getters : GetterSteps(h)
    \/ \E stream \in streams : StreamEnds(stream)
    \/ \E s \in Seekers : SeekSteps(s)

Spec == Init /\ [][Next]_vars

-----------------------------------------------------------------------------

\* A session that was replaced while its media was being prepared does not
\* keep a live cache: whoever stopped it or filled its cell is still on the way
\* to cancel it ("no old-generation stream survives", prepare and cancel).
NoOldCache ==
    \A g \in Generations :
        sessions[g].stopped /\ sessions[g].ready = "seekable" /\ ~sessions[g].cancelled
        => \/ \E p \in Preparers : prep[p].gen = g /\ prep[p].pc = "check"
           \/ \E c \in Casters : cast[c].pc = "cancel" /\ cast[c].previous = g

\* A seek in a session reaches a renderer that was told to play this session,
\* and never a song chosen after the seek (seek_sequence, loaded_generation, transport).
SeekIsOnItsSong ==
    \A s \in Seekers : seek[s].pc \in {"sent", "executed"} =>
        /\ device.song =< seek[s].song
        /\ seek[s].in_session => device.gen = seek[s].gen

\* A seek retires the streams of the old position and none that the renderer
\* has opened for the new one ("A fast renderer may already have opened its new
\* Range GET", seek and retire_streams).
FreshStreamsSurvive ==
    \A stream \in streams : stream.fresh => stream_epoch[stream.gen] < stream.id

\* When play_song returns Ok, the renderer plays the song it was called for,
\* although quality switches send the same commands (transport, is_stopped).
OkIsPlaying ==
    [][confirmed' # confirmed => device'.song = confirmed' /\ device'.playing]_vars
=============================================================================
