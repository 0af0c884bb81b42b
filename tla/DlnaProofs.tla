----------------------------- MODULE DlnaProofs -----------------------------
(***************************************************************************)
(* What the runs of DlnaCaster check for two songs and two seeks, proved   *)
(* for any number of songs, switches, seeks, streams and requests.         *)
(***************************************************************************)
EXTENDS DlnaCaster, SequenceTheorems, TLAPS

-----------------------------------------------------------------------------
(* The invariants.                                                         *)

Session == [song : Nat, stopped : BOOLEAN, ready : {"empty", "direct", "seekable"},
            cancelled : BOOLEAN]
PrepPCs == {"idle", "prepare", "wait", "resolve", "commit", "check", "ok", "err"}
CastPCs == {"idle", "query", "set", "store", "activate", "resolve", "cancel",
            "prepare", "lock", "stop", "uri", "play", "restore"}
Prep == [pc : PrepPCs, gen : Nat]
Cast == [pc : CastPCs, song : Nat, gen : Nat, to : Qualities, position : Nat,
         sequence : Nat, previous : Nat]
Seek == [pc : {"idle", "lock", "sent", "executed"}, song : Nat, sequence : Nat,
         in_session : BOOLEAN, gen : Nat, cutoff : Nat]
Stream == [gen : Nat, id : Nat, fresh : BOOLEAN]

SessionTypes ==
    /\ sessions \in Seq(Session) /\ Len(sessions) =< MaxGeneration
    /\ current \in {NoGeneration, Len(sessions)}
    /\ prep \in [Preparers -> Prep]
    /\ \A p \in Preparers : prep[p].pc # "idle" => prep[p].gen \in Generations

CastTypes ==
    /\ direct \in BOOLEAN /\ quality \in Qualities
    /\ {current_song, seek_sequence, confirmed} \subseteq Nat
    /\ loaded_generation \in 0 .. Len(sessions)
    /\ transport \in {"free"} \cup Casters \cup Seekers
    /\ cast \in [Casters -> Cast]
    /\ \A c \in Casters : cast[c].gen =< Len(sessions) /\ cast[c].previous =< Len(sessions)
    /\ \A c \in Casters : cast[c].pc \in {"cancel", "prepare"} => cast[c].gen # NoGeneration
    /\ device \in [song : Nat, gen : Nat, playing : BOOLEAN]
    /\ device.gen =< Len(sessions)

SeekTypes ==
    /\ seek \in [Seekers -> Seek]
    /\ \A s \in Seekers : seek[s].gen =< Len(sessions)
    /\ stream_id \in [1 .. MaxGeneration -> Nat]
    /\ stream_epoch \in [1 .. MaxGeneration -> Nat]
    /\ streams \subseteq Stream
    /\ \A stream \in streams : stream.gen \in Generations

TypeOK == SessionTypes /\ CastTypes /\ SeekTypes

\* Who sends a command holds the transport, and what the renderer was told to
\* play stays until the holder is done.
Commanding == {"stop", "uri", "play", "restore"}

Transport ==
    /\ \A c \in Casters : cast[c].pc \in Commanding => transport = c
    /\ \A s \in Seekers : seek[s].pc \in {"sent", "executed"} => transport = s
    /\ \A c \in Casters : cast[c].pc \in {"play", "restore"} =>
          device.song = cast[c].song /\ device.gen = cast[c].gen

\* play_song starts at the beginning, so its last command is Play.
PlayerStarts ==
    /\ cast["player"].position = NoSong
    /\ cast["player"].pc \notin {"query", "set", "store", "restore"}

\* A caster prepares only in its own step of that name.
PreparesOnce == \A c \in Casters : cast[c].pc # "prepare" => prep[c].pc = "idle"

\* Sessions are replaced in order, and the renderer plays the one that was last
\* loaded, or that one was stopped.
OthersStopped == \A g \in Generations : g # current => is_stopped(g)

LoadedPlays ==
    loaded_generation # NoGeneration =>
        device.gen = loaded_generation \/ is_stopped(loaded_generation)

\* A load has a session of its own, later than the one that was loaded when it
\* got the transport; in direct mode it has forgotten that one.
InTurn(c) ==
    /\ cast[c].pc \in {"query", "set", "store", "activate", "resolve"} => ~InSession(c)
    /\ InSession(c) =>
          /\ cast[c].pc # "restore" => cast[c].gen # loaded_generation
          /\ cast[c].pc \in {"stop", "uri", "play"} => loaded_generation < cast[c].gen
          /\ \A d \in Casters \ {c} : cast[d].gen # cast[c].gen
    /\ cast[c].pc \in {"uri", "play"} /\ ~InSession(c) => loaded_generation = NoGeneration

\* The latest seek is of the song to be played by now, and no later song is.
InOrder ==
    /\ device.song =< current_song
    /\ \A c \in Casters : cast[c].song =< current_song
    /\ \A s \in Seekers : seek[s].pc = "lock" =>
          /\ seek[s].sequence =< seek_sequence
          /\ seek[s].sequence = seek_sequence => seek[s].song = current_song

\* A seek's cutoff lies below every stream opened after the renderer moved.
Cutoffs ==
    /\ \A g \in 1 .. MaxGeneration : stream_epoch[g] =< stream_id[g]
    /\ \A stream \in streams : stream.id =< stream_id[stream.gen]
    /\ \A s \in Seekers : seek[s].pc \in {"sent", "executed"} /\ seek[s].gen # NoGeneration =>
          /\ seek[s].cutoff =< stream_id[seek[s].gen]
          /\ seek[s].pc = "executed" =>
                \A stream \in streams : stream.fresh /\ stream.gen = seek[s].gen =>
                    seek[s].cutoff < stream.id
-----------------------------------------------------------------------------
(* What each operation does to the sessions.                               *)

LEMMA StopEffect ==
    ASSUME SessionTypes, NEW g \in 0 .. Len(sessions)
    PROVE  /\ Stop(g) \in Seq(Session) /\ Len(Stop(g)) = Len(sessions)
           /\ \A h \in Generations :
                 Stop(g)[h] = IF h = g THEN [sessions[h] EXCEPT !.stopped = TRUE] ELSE sessions[h]
<1>1. sessions \in Seq(Session) /\ Len(sessions) \in Nat
  BY LenProperties DEF SessionTypes
<1>2. CASE g = 0
  BY <1>1, <1>2 DEF Stop, NoGeneration, Generations
<1>3. CASE g \in 1 .. Len(sessions)
  <2> DEFINE e == [sessions[g] EXCEPT !.stopped = TRUE]
  <2>1. sessions[g] \in Session
    BY <1>1, <1>3, ElementOfSeq
  <2>2. e \in Session
    BY <2>1 DEF Session
  <2>3. Stop(g) = [sessions EXCEPT ![g] = e]
    BY <1>3 DEF Stop, NoGeneration
  <2> HIDE DEF e
  <2>4. /\ [sessions EXCEPT ![g] = e] \in Seq(Session)
        /\ Len([sessions EXCEPT ![g] = e]) = Len(sessions)
        /\ \A j \in 1 .. Len(sessions) : [sessions EXCEPT ![g] = e][j] = IF j = g THEN e ELSE sessions[j]
    BY <1>1, <1>3, <2>2, ExceptSeq
  <2> QED
    BY <1>3, <2>3, <2>4 DEF e, Generations
<1> QED
  BY <1>1, <1>2, <1>3

LEMMA CancelEffect ==
    ASSUME SessionTypes, NEW g \in Generations
    PROVE  /\ CancelCache(g) \in Seq(Session) /\ Len(CancelCache(g)) = Len(sessions)
           /\ \A h \in Generations : h # g => CancelCache(g)[h] = sessions[h]
           /\ CancelCache(g)[g].stopped = sessions[g].stopped
           /\ CancelCache(g)[g].ready = sessions[g].ready
           /\ CancelCache(g)[g].cancelled <=> sessions[g].cancelled \/ sessions[g].ready = "seekable"
<1> DEFINE e == [sessions[g] EXCEPT !.cancelled = sessions[g].cancelled \/ sessions[g].ready = "seekable"]
<1>1. sessions \in Seq(Session) /\ g \in 1 .. Len(sessions)
  BY DEF SessionTypes, Generations
<1>2. sessions[g] \in Session
  BY <1>1, ElementOfSeq
<1>3. /\ e \in Session /\ e.stopped = sessions[g].stopped /\ e.ready = sessions[g].ready
      /\ e.cancelled <=> sessions[g].cancelled \/ sessions[g].ready = "seekable"
  BY <1>2 DEF Session
<1>4. CancelCache(g) = [sessions EXCEPT ![g] = e]
  BY DEF CancelCache
<1> HIDE DEF e
<1>5. /\ [sessions EXCEPT ![g] = e] \in Seq(Session)
      /\ Len([sessions EXCEPT ![g] = e]) = Len(sessions)
      /\ \A j \in 1 .. Len(sessions) : [sessions EXCEPT ![g] = e][j] = IF j = g THEN e ELSE sessions[j]
  BY <1>1, <1>3, ExceptSeq
<1> QED
  BY <1>1, <1>3, <1>4, <1>5 DEF Generations

LEMMA ActivateEffect ==
    ASSUME SessionTypes, NEW song \in Nat, activate(song)
    PROVE  /\ sessions' \in Seq(Session) /\ Len(sessions') = Len(sessions) + 1
           /\ Len(sessions') =< MaxGeneration /\ current' = Len(sessions')
           /\ \A g \in Generations :
                 /\ sessions'[g].stopped <=> sessions[g].stopped \/ g = current
                 /\ sessions'[g].ready = sessions[g].ready
                 /\ sessions'[g].cancelled = sessions[g].cancelled
           /\ sessions'[current'] = NewSession(song)
<1>1. /\ sessions \in Seq(Session) /\ Len(sessions) \in Nat
      /\ current \in 0 .. Len(sessions)
  BY LenProperties DEF SessionTypes, NoGeneration
<1>2. /\ Stop(current) \in Seq(Session) /\ Len(Stop(current)) = Len(sessions)
      /\ \A h \in Generations :
            Stop(current)[h] = IF h = current THEN [sessions[h] EXCEPT !.stopped = TRUE] ELSE sessions[h]
  BY <1>1, StopEffect
<1>3. NewSession(song) \in Session
  BY DEF NewSession, Session
<1>4. /\ sessions' \in Seq(Session) /\ Len(sessions') = Len(sessions) + 1
      /\ \A i \in 1 .. Len(sessions) : sessions'[i] = Stop(current)[i]
      /\ sessions'[Len(sessions) + 1] = NewSession(song)
  BY <1>2, <1>3, AppendProperties DEF activate
<1>5. \A g \in Generations : sessions[g] \in Session
  BY <1>1, ElementOfSeq DEF Generations
<1>6. ASSUME NEW g \in Generations
      PROVE  /\ sessions'[g].stopped <=> sessions[g].stopped \/ g = current
             /\ sessions'[g].ready = sessions[g].ready
             /\ sessions'[g].cancelled = sessions[g].cancelled
  <2>1. sessions'[g] = IF g = current THEN [sessions[g] EXCEPT !.stopped = TRUE] ELSE sessions[g]
    BY <1>2, <1>4 DEF Generations
  <2> QED
    BY <1>5, <2>1 DEF Session
<1>7. Len(sessions') =< MaxGeneration
  BY <1>1, <1>4, MediaSessionsAssumption DEF activate
<1>8. current' = Len(sessions) + 1
  BY DEF activate
<1> QED
  BY <1>4, <1>6, <1>7, <1>8

LEMMA ClearEffect ==
    ASSUME SessionTypes, clear
    PROVE  /\ sessions' \in Seq(Session) /\ Len(sessions') = Len(sessions)
           /\ current' = NoGeneration
           /\ \A g \in Generations :
                 /\ sessions'[g].stopped <=> sessions[g].stopped \/ g = current
                 /\ sessions'[g].ready = sessions[g].ready
                 /\ sessions'[g].cancelled
                       <=> sessions[g].cancelled \/ (g = current /\ sessions[g].ready = "seekable")
<1>1. /\ sessions \in Seq(Session) /\ Len(sessions) \in Nat
      /\ current \in 0 .. Len(sessions)
  BY LenProperties DEF SessionTypes, NoGeneration
<1>2. CASE current = NoGeneration
  BY <1>1, <1>2 DEF clear, Generations, NoGeneration
<1>3. CASE current # NoGeneration
  <2>1. current \in Generations
    BY <1>1, <1>3 DEF Generations, NoGeneration
  <2> DEFINE cs == CancelCache(current)
             e == [cs[current] EXCEPT !.stopped = TRUE]
  <2>2. /\ cs \in Seq(Session) /\ Len(cs) = Len(sessions)
        /\ \A h \in Generations : h # current => cs[h] = sessions[h]
        /\ cs[current].ready = sessions[current].ready
        /\ cs[current].cancelled <=> sessions[current].cancelled \/ sessions[current].ready = "seekable"
    BY <2>1, CancelEffect
  <2>3. sessions' = [cs EXCEPT ![current] = e]
    BY <1>3 DEF clear
  <2>4. current \in 1 .. Len(cs) /\ cs[current] \in Session
    BY <2>1, <2>2, ElementOfSeq DEF Generations
  <2> HIDE DEF cs
  <2>5. /\ e \in Session /\ e.stopped = TRUE /\ e.ready = cs[current].ready
        /\ e.cancelled = cs[current].cancelled
    BY <2>4 DEF Session
  <2> HIDE DEF e
  <2>6. /\ [cs EXCEPT ![current] = e] \in Seq(Session)
        /\ Len([cs EXCEPT ![current] = e]) = Len(cs)
        /\ \A j \in 1 .. Len(cs) : [cs EXCEPT ![current] = e][j] = IF j = current THEN e ELSE cs[j]
    BY <2>2, <2>4, <2>5, ExceptSeq
  <2>7. /\ sessions' \in Seq(Session) /\ Len(sessions') = Len(sessions)
        /\ \A j \in Generations : sessions'[j] = IF j = current THEN e ELSE sessions[j]
    BY <2>2, <2>3, <2>6 DEF Generations
  <2>8. current' = NoGeneration
    BY DEF clear
  <2> QED
    BY <2>2, <2>5, <2>7, <2>8
<1> QED
  BY <1>2, <1>3

\* One step of prepare(): only Commits fills the cell, and Checks does not leave
\* the cache of a stopped session alone.
LEMMA PrepareEffect ==
    ASSUME SessionTypes, NEW p \in Preparers, PrepareSteps(p)
    PROVE  /\ sessions' \in Seq(Session) /\ Len(sessions') = Len(sessions) /\ current' = current
           /\ prep' \in [Preparers -> Prep]
           /\ \A q \in Preparers \ {p} : prep'[q] = prep[q]
           /\ prep[p].pc # "idle" /\ prep'[p].pc # "idle" /\ prep'[p].gen = prep[p].gen
           /\ \A g \in Generations :
                 /\ sessions'[g].stopped = sessions[g].stopped
                 /\ sessions[g].cancelled => sessions'[g].cancelled
                 /\ \/ sessions'[g].ready = sessions[g].ready
                    \/ g = prep[p].gen /\ prep'[p].pc = "check"
           /\ prep[p].pc = "check" =>
                 \/ ~sessions[prep[p].gen].stopped
                 \/ sessions'[prep[p].gen].ready = "seekable" => sessions'[prep[p].gen].cancelled
<1>1. /\ sessions \in Seq(Session) /\ prep \in [Preparers -> Prep] /\ prep[p] \in Prep
      /\ prep[p].pc # "idle" => prep[p].gen \in Generations
  BY DEF SessionTypes
<1>2. \A g \in Generations : sessions[g] \in Session
  BY <1>1, ElementOfSeq DEF Generations
<1>3. ASSUME NEW pc \in PrepPCs, PrepGoes(p, pc)
      PROVE  /\ prep' \in [Preparers -> Prep]
             /\ \A q \in Preparers \ {p} : prep'[q] = prep[q]
             /\ prep'[p].pc = pc /\ prep'[p].gen = prep[p].gen
  <2> DEFINE e == [prep[p] EXCEPT !.pc = pc]
  <2>1. e \in Prep /\ e.pc = pc /\ e.gen = prep[p].gen
    BY <1>1 DEF Prep
  <2>2. prep' = [prep EXCEPT ![p] = e]
    BY <1>3 DEF PrepGoes
  <2> HIDE DEF e
  <2> QED
    BY <1>1, <2>1, <2>2
<1>4. CASE PrepareBegins(p) \/ ResolveBegins(p) \/ ResolveEnds(p) \/ WaitIsOver(p) \/ Interrupted(p)
  <2>1. /\ sessions' = sessions /\ current' = current
        /\ prep[p].pc \notin {"idle", "check"}
        /\ \E pc \in PrepPCs \ {"idle"} : PrepGoes(p, pc)
    <3>1. CASE PrepareBegins(p)
      BY <3>1 DEF PrepareBegins, PrepPCs
    <3>2. CASE ResolveBegins(p)
      BY <3>2 DEF ResolveBegins, PrepPCs
    <3>3. CASE ResolveEnds(p)
      BY <3>3 DEF ResolveEnds, PrepPCs
    <3>4. CASE WaitIsOver(p)
      BY <3>4 DEF WaitIsOver, PrepPCs
    <3>5. CASE Interrupted(p)
      BY <3>5 DEF Interrupted, PrepPCs
    <3> QED
      BY <1>4, <3>1, <3>2, <3>3, <3>4, <3>5
  <2>2. PICK pc \in PrepPCs \ {"idle"} : PrepGoes(p, pc)
    BY <2>1
  <2>3. /\ prep' \in [Preparers -> Prep]
        /\ \A q \in Preparers \ {p} : prep'[q] = prep[q]
        /\ prep'[p].pc = pc /\ prep'[p].gen = prep[p].gen
    BY <1>3, <2>2
  <2> QED
    BY <1>1, <2>1, <2>3
<1>5. CASE Commits(p)
  <2>1. PICK kind \in Kinds : sessions' = [sessions EXCEPT ![prep[p].gen].ready = kind]
    BY <1>5 DEF Commits
  <2>2. /\ prep[p].pc = "commit" /\ prep[p].gen \in Generations /\ current' = current
        /\ kind \in {"direct", "seekable"} /\ PrepGoes(p, "check")
    BY <1>1, <1>5, MediaSessionsAssumption DEF Commits
  <2>3. /\ prep' \in [Preparers -> Prep]
        /\ \A q \in Preparers \ {p} : prep'[q] = prep[q]
        /\ prep'[p].pc = "check" /\ prep'[p].gen = prep[p].gen
    BY <1>3, <2>2 DEF PrepPCs
  <2> DEFINE g == prep[p].gen
             e == [sessions[g] EXCEPT !.ready = kind]
  <2>4. /\ e \in Session /\ e.stopped = sessions[g].stopped
        /\ e.cancelled = sessions[g].cancelled
    BY <1>2, <2>2 DEF Session
  <2>5. sessions' = [sessions EXCEPT ![g] = e]
    BY <2>1
  <2> HIDE DEF e
  <2>6. /\ [sessions EXCEPT ![g] = e] \in Seq(Session)
        /\ Len([sessions EXCEPT ![g] = e]) = Len(sessions)
        /\ \A j \in 1 .. Len(sessions) : [sessions EXCEPT ![g] = e][j] = IF j = g THEN e ELSE sessions[j]
    BY <1>1, <2>2, <2>4, ExceptSeq DEF Generations
  <2> QED
    BY <2>2, <2>3, <2>4, <2>5, <2>6 DEF Generations
<1>6. CASE Checks(p)
  <2>1. /\ prep[p].pc = "check" /\ prep[p].gen \in Generations /\ current' = current
        /\ \E pc \in {"err", "ok"} : PrepGoes(p, pc)
    BY <1>1, <1>6 DEF Checks
  <2>2. PICK pc \in {"err", "ok"} : PrepGoes(p, pc)
    BY <2>1
  <2>3. /\ prep' \in [Preparers -> Prep]
        /\ \A q \in Preparers \ {p} : prep'[q] = prep[q]
        /\ prep'[p].pc = pc /\ prep'[p].gen = prep[p].gen
    BY <1>3, <2>2 DEF PrepPCs
  <2> DEFINE g == prep[p].gen
  <2>4. CASE ~sessions[g].stopped
    <3>1. sessions' = sessions
      BY <1>6, <2>4 DEF Checks, is_stopped
    <3> QED
      BY <1>1, <2>1, <2>3, <2>4, <3>1
  <2>5. CASE sessions[g].stopped
    <3>1. sessions' = CancelCache(g)
      BY <1>6, <2>5 DEF Checks, is_stopped
    <3>2. /\ CancelCache(g) \in Seq(Session) /\ Len(CancelCache(g)) = Len(sessions)
          /\ \A h \in Generations : h # g => CancelCache(g)[h] = sessions[h]
          /\ CancelCache(g)[g].stopped = sessions[g].stopped
          /\ CancelCache(g)[g].ready = sessions[g].ready
          /\ CancelCache(g)[g].cancelled <=> sessions[g].cancelled \/ sessions[g].ready = "seekable"
      BY <2>1, CancelEffect
    <3> QED
      BY <2>1, <2>3, <3>1, <3>2
  <2> QED
    BY <2>4, <2>5
<1> QED
  BY <1>4, <1>5, <1>6 DEF PrepareSteps

-----------------------------------------------------------------------------
(* What each step does to the caster it is a step of.                      *)

LEMMA IdleTypes == IdleCast \in Cast /\ IdleSeek \in Seek /\ NotPreparing \in Prep
BY DEF IdleCast, Cast, CastPCs, Qualities, IdleSeek, Seek, NotPreparing, Prep, PrepPCs,
       NoSong, NoGeneration

\* Every other caster stays where it is.
Only(c) ==
    /\ cast' \in [Casters -> Cast]
    /\ \A d \in Casters \ {c} : cast'[d] = cast[d]

LEMMA SetsCast ==
    ASSUME cast \in [Casters -> Cast], NEW c \in Casters, NEW r \in Cast,
           cast' = [cast EXCEPT ![c] = r]
    PROVE  Only(c) /\ cast'[c] = r
BY DEF Only

LEMMA GoesEffect ==
    ASSUME cast \in [Casters -> Cast], NEW c \in Casters, NEW pc \in CastPCs, Goes(c, pc)
    PROVE  /\ Only(c) /\ cast'[c].pc = pc /\ cast'[c].song = cast[c].song
           /\ cast'[c].gen = cast[c].gen /\ cast'[c].position = cast[c].position
           /\ cast'[c].previous = cast[c].previous
<1> DEFINE r == [cast[c] EXCEPT !.pc = pc]
<1>1. /\ r \in Cast /\ r.pc = pc /\ r.song = cast[c].song /\ r.gen = cast[c].gen
      /\ r.position = cast[c].position /\ r.previous = cast[c].previous
  BY DEF Cast
<1>2. cast' = [cast EXCEPT ![c] = r]
  BY DEF Goes
<1> HIDE DEF r
<1> QED
  BY <1>1, <1>2, SetsCast

LEMMA ReturnsEffect ==
    ASSUME cast \in [Casters -> Cast], NEW c \in Casters, NEW ok, Returns(c, ok)
    PROVE  /\ Only(c) /\ cast'[c] = IdleCast
           /\ transport' = IF transport = c THEN "free" ELSE transport
BY IdleTypes, SetsCast DEF Returns

\* The step of caster c that begins a session or, in direct mode, none.
LEMMA ActivatesEffect ==
    ASSUME SessionTypes, CastTypes, NEW c \in Casters, Activates(c)
    PROVE  /\ Only(c) /\ cast'[c].song = cast[c].song /\ cast'[c].position = cast[c].position
           /\ \/ /\ direct /\ UNCHANGED sessionVars
                 /\ cast'[c].pc = "resolve" /\ cast'[c].gen = cast[c].gen
                 /\ cast'[c].previous = cast[c].previous
              \/ /\ ~direct /\ activate(cast[c].song) /\ UNCHANGED prep
                 /\ cast'[c].pc = "cancel" /\ cast'[c].gen = current'
                 /\ cast'[c].previous = current
<1>1. cast \in [Casters -> Cast] /\ cast[c] \in Cast
  BY DEF CastTypes
<1>2. CASE direct
  <2> DEFINE r == [cast[c] EXCEPT !.pc = "resolve", !.sequence = seek_sequence]
  <2>1. /\ r \in Cast /\ r.pc = "resolve" /\ r.song = cast[c].song /\ r.gen = cast[c].gen
        /\ r.position = cast[c].position /\ r.previous = cast[c].previous
    BY <1>1 DEF Cast, CastPCs, CastTypes
  <2>2. cast' = [cast EXCEPT ![c] = r] /\ UNCHANGED sessionVars
    BY <1>1, <1>2 DEF Activates
  <2> HIDE DEF r
  <2> QED
    BY <1>1, <1>2, <2>1, <2>2, SetsCast
<1>3. CASE ~direct
  <2> DEFINE r == [cast[c] EXCEPT !.pc = "cancel", !.gen = current', !.previous = current]
  <2>1. activate(cast[c].song) /\ UNCHANGED prep
    BY <1>3 DEF Activates
  <2>2. current \in Nat /\ current' \in Nat
    BY <1>1, <2>1, LenProperties DEF SessionTypes, NoGeneration, activate
  <2>3. /\ r \in Cast /\ r.pc = "cancel" /\ r.song = cast[c].song /\ r.gen = current'
        /\ r.position = cast[c].position /\ r.previous = current
    BY <1>1, <2>2 DEF Cast, CastPCs
  <2>4. cast' = [cast EXCEPT ![c] = r]
    BY <1>1, <1>3 DEF Activates
  <2> HIDE DEF r
  <2> QED
    BY <1>1, <1>3, <2>1, <2>3, <2>4, SetsCast
<1> QED
  BY <1>1, <1>2, <1>3 DEF CastTypes

\* The steps of the two callers outside reload_song_at.
LEMMA PlaySongEffect ==
    ASSUME CastTypes, play_song
    PROVE  /\ Only("player") /\ cast["player"].pc = "idle" /\ cast'["player"].pc = "activate"
           /\ cast'["player"].song = current_song + 1 /\ cast'["player"].gen = NoGeneration
           /\ cast'["player"].position = NoSong /\ cast'["player"].previous = NoGeneration
<1> DEFINE r == [IdleCast EXCEPT !.pc = "activate", !.song = current_song + 1]
<1>1. current_song \in Nat /\ cast \in [Casters -> Cast] /\ "player" \in Casters
  BY DEF CastTypes, Casters
<1>2. /\ r \in Cast /\ r.pc = "activate" /\ r.song = current_song + 1 /\ r.gen = NoGeneration
      /\ r.position = NoSong /\ r.previous = NoGeneration
  <2>1. IdleCast \in Cast /\ current_song + 1 \in Nat
    BY <1>1, IdleTypes
  <2>2. /\ IdleCast.gen = NoGeneration /\ IdleCast.position = NoSong
        /\ IdleCast.previous = NoGeneration
    BY DEF IdleCast
  <2> QED
    BY <2>1, <2>2 DEF Cast, CastPCs
<1>3. cast' = [cast EXCEPT !["player"] = r] /\ cast["player"].pc = "idle"
  BY DEF play_song
<1> HIDE DEF r
<1>4. Only("player") /\ cast'["player"] = r
  BY <1>1, <1>2, <1>3, SetsCast
<1> QED
  BY <1>2, <1>3, <1>4

LEMMA SetterEffect ==
    ASSUME CastTypes, set_quality \/ PositionArrives \/ ChecksDirect \/ StoresQuality
    PROVE  /\ Only("setter")
           /\ cast["setter"].pc \in {"idle", "query", "set", "store"}
           /\ \/ cast'["setter"] = IdleCast
              \/ /\ cast'["setter"].pc \in {"query", "set", "store", "activate"}
                 /\ cast'["setter"].song \in {NoSong, cast["setter"].song, current_song}
                 /\ cast'["setter"].previous \in {NoGeneration, cast["setter"].previous}
                 /\ \/ cast'["setter"].gen = NoGeneration
                    \/ cast["setter"].pc # "idle" /\ cast'["setter"].gen = cast["setter"].gen
<1>1. /\ current_song \in Nat /\ cast \in [Casters -> Cast] /\ "setter" \in Casters
      /\ cast["setter"] \in Cast /\ device.song \in Nat
  BY DEF CastTypes, Casters
<1>2. CASE set_quality
  <2>1. PICK q \in Qualities : cast' = [cast EXCEPT !["setter"] = [IdleCast EXCEPT !.pc = "query", !.to = q]]
    BY <1>2 DEF set_quality
  <2> DEFINE r == [IdleCast EXCEPT !.pc = "query", !.to = q]
  <2>2. r \in Cast /\ r.pc = "query" /\ r.song = NoSong /\ r.gen = NoGeneration /\ r.previous = NoGeneration
    BY IdleTypes DEF IdleCast, Cast, CastPCs, NoSong, NoGeneration
  <2> HIDE DEF r
  <2>3. cast["setter"].pc = "idle" /\ cast' = [cast EXCEPT !["setter"] = r]
    BY <1>2, <2>1 DEF set_quality, r
  <2> QED
    BY <1>1, <2>2, <2>3, SetsCast
<1>3. CASE PositionArrives
  <2>1. PICK p \in {NoSong, device.song} :
             cast' = [cast EXCEPT !["setter"].pc = "set", !["setter"].position = p]
    BY <1>3 DEF PositionArrives
  <2> DEFINE r == [cast["setter"] EXCEPT !.pc = "set", !.position = p]
  <2>p. p \in Nat
    BY <1>1 DEF NoSong
  <2>2. /\ r \in Cast /\ r.pc = "set" /\ r.song = cast["setter"].song
        /\ r.gen = cast["setter"].gen /\ r.previous = cast["setter"].previous
    BY <1>1, <2>p DEF Cast, CastPCs
  <2>3. cast["setter"].pc = "query" /\ cast' = [cast EXCEPT !["setter"] = r]
    BY <1>1, <1>3, <2>1 DEF PositionArrives
  <2> HIDE DEF r
  <2> QED
    BY <1>1, <2>2, <2>3, SetsCast
<1>4. CASE ChecksDirect
  <2>1. cast["setter"].pc = "set" /\ (Returns("setter", FALSE) \/ Goes("setter", "store"))
    BY <1>4 DEF ChecksDirect
  <2>2. CASE Returns("setter", FALSE)
    BY <1>1, <2>1, <2>2, ReturnsEffect
  <2>3. CASE Goes("setter", "store")
    <3>1. "store" \in CastPCs
      BY DEF CastPCs
    <3> QED
      BY <1>1, <2>1, <2>3, <3>1, GoesEffect
  <2> QED
    BY <2>1, <2>2, <2>3
<1>5. CASE StoresQuality
  <2>1. cast["setter"].pc = "store"
    BY <1>5 DEF StoresQuality
  <2>2. CASE Returns("setter", TRUE)
    BY <1>1, <2>1, <2>2, ReturnsEffect
  <2>3. CASE ~Returns("setter", TRUE)
    <3> DEFINE r == [cast["setter"] EXCEPT !.pc = "activate", !.song = current_song]
    <3>1. /\ r \in Cast /\ r.pc = "activate" /\ r.song = current_song
          /\ r.gen = cast["setter"].gen /\ r.previous = cast["setter"].previous
      BY <1>1 DEF Cast, CastPCs
    <3>2. cast' = [cast EXCEPT !["setter"] = r]
      BY <1>1, <1>5, <2>3 DEF StoresQuality
    <3> HIDE DEF r
    <3> QED
      BY <1>1, <2>1, <3>1, <3>2, SetsCast
  <2> QED
    BY <2>2, <2>3
<1> QED
  BY <1>2, <1>3, <1>4, <1>5

-----------------------------------------------------------------------------
(* Types.                                                                  *)

LEMMA TypeInit == Init => TypeOK
<1> SUFFICES ASSUME Init PROVE TypeOK
    OBVIOUS
<1> USE DEF Init, SessionsInit, NoGeneration, NoSong
<1>1. SessionTypes
  <2>1. sessions \in Seq(Session) /\ Len(sessions) = 0 /\ prep \in [Preparers -> Prep]
    BY IdleTypes
  <2> QED
    BY <2>1, MediaSessionsAssumption DEF SessionTypes, NotPreparing
<1>2. CastTypes
  <2>1. Len(sessions) = 0 /\ direct \in BOOLEAN /\ cast \in [Casters -> Cast]
    BY IdleTypes
  <2> QED
    BY <2>1 DEF CastTypes, IdleCast, Qualities
<1>3. SeekTypes
  <2>1. Len(sessions) = 0 /\ seek \in [Seekers -> Seek]
    BY IdleTypes
  <2> QED
    BY <2>1 DEF SeekTypes, IdleSeek
<1> QED
  BY <1>1, <1>2, <1>3 DEF TypeOK

\* A step of one caller of prepare().
LEMMA PrepTypes ==
    ASSUME SessionTypes, UNCHANGED <<sessions, current>>, NEW p \in Preparers, NEW r \in Prep,
           r.pc # "idle" => r.gen \in Generations, prep' = [prep EXCEPT ![p] = r]
    PROVE  SessionTypes'
BY DEF SessionTypes, Generations

LEMMA SessionTypesStep ==
    ASSUME TypeOK, [Next]_vars
    PROVE  SessionTypes' /\ Len(sessions) \in Nat /\ Len(sessions') \in Nat
           /\ Len(sessions') >= Len(sessions)
<1>1. /\ SessionTypes /\ CastTypes /\ cast \in [Casters -> Cast]
      /\ Casters \subseteq Preparers /\ Getters \subseteq Preparers
      /\ NotPreparing \in Prep /\ NotPreparing.pc = "idle"
  BY IdleTypes, DlnaCasterAssumption DEF TypeOK, CastTypes, NotPreparing
<1>2. sessions \in Seq(Session) /\ Len(sessions) \in Nat
  BY <1>1, LenProperties DEF SessionTypes
<1>3. SUFFICES SessionTypes' /\ Len(sessions') \in Nat /\ Len(sessions') >= Len(sessions)
  BY <1>2
<1>4. CASE UNCHANGED sessionVars
  BY <1>1, <1>2, <1>4 DEF SessionTypes, sessionVars, Generations
<1>5. CASE UNCHANGED <<sessions, current>>
           /\ \E p \in Preparers, r \in Prep :
                 /\ prep' = [prep EXCEPT ![p] = r]
                 /\ r.pc # "idle" => r.gen \in Generations
  <2>1. PICK p \in Preparers, r \in Prep :
             /\ prep' = [prep EXCEPT ![p] = r]
             /\ r.pc # "idle" => r.gen \in Generations
    BY <1>5
  <2>2. SessionTypes'
    BY <1>1, <1>5, <2>1, PrepTypes
  <2> QED
    BY <1>2, <1>5, <2>2
<1>6. ASSUME NEW c \in Casters, Activates(c)
      PROVE  SessionTypes' /\ Len(sessions') \in Nat /\ Len(sessions') >= Len(sessions)
  <2>1. CASE UNCHANGED sessionVars
    BY <1>4, <2>1
  <2>2. CASE activate(cast[c].song) /\ UNCHANGED prep
    <3>1. cast[c].song \in Nat
      BY <1>1 DEF Cast
    <3>2. /\ sessions' \in Seq(Session) /\ Len(sessions') = Len(sessions) + 1
          /\ Len(sessions') =< MaxGeneration /\ current' = Len(sessions')
      BY <1>1, <2>2, <3>1, ActivateEffect
    <3> QED
      BY <1>1, <1>2, <2>2, <3>2 DEF SessionTypes, Generations
  <2> QED
    BY <1>1, <1>6, <2>1, <2>2, ActivatesEffect
<1>7. ASSUME NEW c \in Casters, CancelsPrevious(c)
      PROVE  SessionTypes' /\ Len(sessions') \in Nat /\ Len(sessions') >= Len(sessions)
  <2>1. /\ cast[c] \in Cast /\ cast[c].pc = "cancel" /\ current' = current
        /\ cast[c].gen =< Len(sessions) /\ cast[c].previous =< Len(sessions)
        /\ cast[c].gen # NoGeneration
    BY <1>1, <1>7 DEF CancelsPrevious, CastTypes
  <2>2. sessions' \in Seq(Session) /\ Len(sessions') = Len(sessions)
    <3>1. CASE cast[c].previous = NoGeneration
      BY <1>2, <1>7, <3>1 DEF CancelsPrevious
    <3>2. CASE cast[c].previous # NoGeneration
      <4>1. cast[c].previous \in Generations
        BY <1>2, <2>1, <3>2 DEF Cast, Generations, NoGeneration
      <4> QED
        BY <1>1, <1>7, <3>2, <4>1, CancelEffect DEF CancelsPrevious
    <3> QED
      BY <3>1, <3>2
  <2> DEFINE r == [pc |-> "prepare", gen |-> cast[c].gen]
  <2>3. prep' = [prep EXCEPT ![c] = r] /\ r \in Prep /\ r.gen \in Generations
    BY <1>2, <1>7, <2>1 DEF CancelsPrevious, Prep, PrepPCs, Cast, Generations, NoGeneration
  <2> QED
    BY <1>1, <1>2, <2>1, <2>2, <2>3 DEF SessionTypes, Generations
<1>8. ASSUME NEW c \in Casters, Prepared(c)
      PROVE  SessionTypes' /\ Len(sessions') \in Nat /\ Len(sessions') >= Len(sessions)
  <2>1. UNCHANGED <<sessions, current>> /\ prep' = [prep EXCEPT ![c] = NotPreparing]
    BY <1>8 DEF Prepared
  <2> QED
    BY <1>1, <1>5, <2>1
<1>9. ASSUME NEW c \in Casters, Stops(c)
      PROVE  SessionTypes' /\ Len(sessions') \in Nat /\ Len(sessions') >= Len(sessions)
  <2>1. CASE UNCHANGED <<sessions, current>>
    BY <1>4, <1>9, <2>1 DEF Stops, sessionVars
  <2>2. CASE clear
    <3>1. sessions' \in Seq(Session) /\ Len(sessions') = Len(sessions) /\ current' = NoGeneration
      BY <1>1, <2>2, ClearEffect
    <3>2. prep' = prep
      BY <1>9 DEF Stops
    <3> QED
      BY <1>1, <1>2, <3>1, <3>2 DEF SessionTypes, Generations
  <2> QED
    BY <1>9, <2>1, <2>2 DEF Stops
<1>10. CASE IsDropped
  <2>1. UNCHANGED <<sessions, current>> /\ prep' = [prep EXCEPT !["player"] = NotPreparing]
    BY <1>10 DEF IsDropped
  <2> QED
    BY <1>1, <1>5, <2>1 DEF Casters
<1>11. CASE SessionSteps
  <2>1. PICK p \in Preparers : PrepareSteps(p)
    BY <1>11 DEF SessionSteps
  <2>2. /\ sessions' \in Seq(Session) /\ Len(sessions') = Len(sessions) /\ current' = current
        /\ prep' \in [Preparers -> Prep]
        /\ \A q \in Preparers \ {p} : prep'[q] = prep[q]
        /\ prep[p].pc # "idle" /\ prep'[p].gen = prep[p].gen
    BY <1>1, <2>1, PrepareEffect
  <2>3. prep[p].gen \in Generations
    BY <1>1, <2>2 DEF SessionTypes
  <2> QED
    BY <1>1, <1>2, <2>2, <2>3 DEF SessionTypes, Generations
<1>12. ASSUME NEW h \in Getters, GetterSteps(h)
       PROVE  SessionTypes' /\ Len(sessions') \in Nat /\ Len(sessions') >= Len(sessions)
  <2>1. CASE RequestArrives(h)
    <3>1. PICK g \in Generations : prep' = [prep EXCEPT ![h] = [pc |-> "prepare", gen |-> g]]
      BY <2>1 DEF RequestArrives
    <3>2. [pc |-> "prepare", gen |-> g] \in Prep /\ UNCHANGED <<sessions, current>>
      BY <1>2, <2>1 DEF RequestArrives, Prep, PrepPCs, Generations
    <3> QED
      BY <1>1, <1>5, <3>1, <3>2
  <2>2. CASE Serves(h) \/ RequestEnds(h)
    <3>1. UNCHANGED <<sessions, current>> /\ prep' = [prep EXCEPT ![h] = NotPreparing]
      BY <2>2 DEF Serves, RequestEnds
    <3> QED
      BY <1>1, <1>5, <3>1
  <2> QED
    BY <1>12, <2>1, <2>2 DEF GetterSteps
<1>13. ASSUME NEW c \in Casters, CastSteps(c)
       PROVE  SessionTypes' /\ Len(sessions') \in Nat /\ Len(sessions') >= Len(sessions)
  <2>1. CASE ResolvesDirect(c) \/ Locks(c) \/ SetsUri(c) \/ Plays(c) \/ RestoresPosition(c)
    BY <1>4, <2>1 DEF ResolvesDirect, Locks, SetsUri, Plays, RestoresPosition
  <2> QED
    BY <1>6, <1>7, <1>8, <1>9, <1>13, <2>1 DEF CastSteps
<1>14. CASE UNCHANGED vars
  BY <1>4, <1>14 DEF vars
<1>15. CASE \/ play_song \/ set_quality \/ PositionArrives \/ ChecksDirect
            \/ StoresQuality \/ set_dlna_direct \/ toggle_pause
            \/ \E stream \in streams : StreamEnds(stream)
            \/ \E s \in Seekers : SeekSteps(s)
  BY <1>4, <1>15 DEF play_song, set_quality, PositionArrives, ChecksDirect, StoresQuality,
       set_dlna_direct, toggle_pause, StreamEnds, SeekSteps, SeekBegins, SeekLocks,
       SeekExecutes, SeekReturns, SeekFails, SeekEnds
<1> QED
  BY <1>10, <1>11, <1>12, <1>13, <1>14, <1>15 DEF Next

CastSessions ==
    \A c \in Casters :
        /\ cast[c].gen =< Len(sessions) /\ cast[c].previous =< Len(sessions)
        /\ cast[c].pc \in {"cancel", "prepare"} => cast[c].gen # NoGeneration

\* A step of one caster keeps the types of all.
LEMMA OnlyTypes ==
    ASSUME cast \in [Casters -> Cast], CastSessions, Len(sessions) \in Nat,
           Len(sessions') \in Nat, Len(sessions') >= Len(sessions),
           NEW c \in Casters, Only(c),
           cast'[c].gen =< Len(sessions') /\ cast'[c].previous =< Len(sessions'),
           cast'[c].pc \in {"cancel", "prepare"} => cast'[c].gen # NoGeneration
    PROVE  cast' \in [Casters -> Cast] /\ CastSessions'
<1>1. ASSUME NEW d \in Casters, d # c
      PROVE  /\ cast'[d].gen =< Len(sessions') /\ cast'[d].previous =< Len(sessions')
             /\ cast'[d].pc \in {"cancel", "prepare"} => cast'[d].gen # NoGeneration
  <2>1. cast[d] \in Cast /\ cast'[d] = cast[d]
    BY <1>1 DEF Only
  <2> QED
    BY <1>1, <2>1 DEF CastSessions, Cast
<1> QED
  BY <1>1 DEF Only, CastSessions

LEMMA CastStep ==
    ASSUME TypeOK, [Next]_vars
    PROVE  cast' \in [Casters -> Cast] /\ CastSessions'
<1>1. /\ SessionTypes /\ CastTypes /\ cast \in [Casters -> Cast] /\ CastSessions
      /\ "player" \in Casters /\ "setter" \in Casters
  BY DEF TypeOK, CastTypes, CastSessions, Casters
<1>2. /\ Len(sessions) \in Nat /\ Len(sessions') \in Nat /\ Len(sessions') >= Len(sessions)
      /\ SessionTypes'
  BY SessionTypesStep
<1>3. CASE UNCHANGED cast
  BY SMTT(40), <1>1, <1>2, <1>3 DEF CastSessions, Cast
<1>4. ASSUME NEW c \in Casters, NEW pc \in CastPCs, Goes(c, pc),
             pc \in {"cancel", "prepare"} => cast[c].pc \in {"cancel", "prepare"}
      PROVE  cast' \in [Casters -> Cast] /\ CastSessions'
  <2>1. /\ Only(c) /\ cast'[c].pc = pc /\ cast'[c].gen = cast[c].gen
        /\ cast'[c].previous = cast[c].previous
    BY <1>1, <1>4, GoesEffect
  <2>2. /\ cast[c].gen =< Len(sessions') /\ cast[c].previous =< Len(sessions')
        /\ cast[c].pc \in {"cancel", "prepare"} => cast[c].gen # NoGeneration
    BY SMTT(40), <1>1, <1>2 DEF CastSessions, Cast
  <2> QED
    BY <1>1, <1>2, <1>4, <2>1, <2>2, OnlyTypes
<1>5. ASSUME NEW c \in Casters, NEW ok, Returns(c, ok)
      PROVE  cast' \in [Casters -> Cast] /\ CastSessions'
  <2>1. Only(c) /\ cast'[c] = IdleCast
    BY <1>1, <1>5, ReturnsEffect
  <2>2. /\ IdleCast.gen =< Len(sessions') /\ IdleCast.previous =< Len(sessions')
        /\ IdleCast.pc = "idle"
    BY <1>2 DEF IdleCast, NoGeneration
  <2> QED
    BY <1>1, <1>2, <2>1, <2>2, OnlyTypes
<1>6. CASE play_song
  <2>1. /\ Only("player") /\ cast'["player"].pc = "activate"
        /\ cast'["player"].gen = NoGeneration /\ cast'["player"].previous = NoGeneration
    BY <1>1, <1>6, PlaySongEffect
  <2> QED
    BY <1>1, <1>2, <2>1, OnlyTypes DEF NoGeneration
<1>7. CASE set_quality \/ PositionArrives \/ ChecksDirect \/ StoresQuality
  <2>1. /\ Only("setter")
        /\ \/ cast'["setter"] = IdleCast
           \/ /\ cast'["setter"].pc \in {"query", "set", "store", "activate"}
              /\ cast'["setter"].previous \in {NoGeneration, cast["setter"].previous}
              /\ cast'["setter"].gen \in {NoGeneration, cast["setter"].gen}
    BY <1>1, <1>7, SetterEffect
  <2>2. /\ cast'["setter"].gen =< Len(sessions') /\ cast'["setter"].previous =< Len(sessions')
        /\ cast'["setter"].pc \notin {"cancel", "prepare"}
    BY <1>1, <1>2, <2>1 DEF CastSessions, Cast, IdleCast, NoGeneration
  <2> QED
    BY <1>1, <1>2, <2>1, <2>2, OnlyTypes
<1>8. ASSUME NEW c \in Casters, Activates(c)
      PROVE  cast' \in [Casters -> Cast] /\ CastSessions'
  <2>1. /\ Only(c)
        /\ \/ /\ cast'[c].pc = "resolve" /\ cast'[c].gen = cast[c].gen
              /\ cast'[c].previous = cast[c].previous
           \/ /\ activate(cast[c].song)
              /\ cast'[c].pc = "cancel" /\ cast'[c].gen = current'
              /\ cast'[c].previous = current
    BY <1>1, <1>8, ActivatesEffect
  <2>2. cast[c] \in Cast /\ cast[c].gen =< Len(sessions') /\ cast[c].previous =< Len(sessions')
    BY SMTT(40), <1>1, <1>2 DEF CastSessions, Cast
  <2>3. CASE activate(cast[c].song) /\ cast'[c].gen = current' /\ cast'[c].previous = current
    <3>1. cast[c].song \in Nat
      BY <2>2 DEF Cast
    <3>2. current' = Len(sessions') /\ Len(sessions') = Len(sessions) + 1
      BY <1>1, <2>3, <3>1, ActivateEffect
    <3>3. current =< Len(sessions)
      BY <1>1, <1>2 DEF SessionTypes, NoGeneration
    <3>4. /\ cast'[c].gen =< Len(sessions') /\ cast'[c].previous =< Len(sessions')
          /\ cast'[c].gen # NoGeneration
      BY <1>1, <1>2, <2>3, <3>2, <3>3 DEF SessionTypes, NoGeneration
    <3> QED
      BY <1>1, <1>2, <2>1, <3>4, OnlyTypes
  <2>4. CASE cast'[c].pc = "resolve" /\ cast'[c].gen = cast[c].gen /\ cast'[c].previous = cast[c].previous
    BY <1>1, <1>2, <2>1, <2>2, <2>4, OnlyTypes
  <2> QED
    BY <2>1, <2>3, <2>4
<1>9. ASSUME NEW c \in Casters, CastSteps(c)
      PROVE  cast' \in [Casters -> Cast] /\ CastSessions'
  <2>1. CASE CancelsPrevious(c)
    BY <1>4, <2>1 DEF CancelsPrevious, CastPCs
  <2>2. CASE Prepared(c) \/ ResolvesDirect(c)
    <3>1. Goes(c, "lock") \/ Returns(c, FALSE)
      BY <2>2 DEF Prepared, ResolvesDirect
    <3> QED
      BY <1>4, <1>5, <3>1 DEF CastPCs
  <2>3. CASE Locks(c)
    <3>1. Goes(c, "stop") \/ Returns(c, FALSE)
      BY <2>3 DEF Locks
    <3> QED
      BY <1>4, <1>5, <3>1 DEF CastPCs
  <2>4. CASE Stops(c)
    <3>1. Goes(c, "uri") \/ Returns(c, FALSE)
      BY <2>4 DEF Stops
    <3> QED
      BY <1>4, <1>5, <3>1 DEF CastPCs
  <2>5. CASE SetsUri(c)
    <3>1. Goes(c, "play") \/ Returns(c, FALSE)
      BY <2>5 DEF SetsUri
    <3> QED
      BY <1>4, <1>5, <3>1 DEF CastPCs
  <2>6. CASE Plays(c) \/ RestoresPosition(c)
    <3>1. Goes(c, "restore") \/ (\E ok \in BOOLEAN : Returns(c, ok))
      BY <2>6 DEF Plays, RestoresPosition
    <3> QED
      BY <1>4, <1>5, <3>1 DEF CastPCs
  <2> QED
    BY <1>8, <1>9, <2>1, <2>2, <2>3, <2>4, <2>5, <2>6 DEF CastSteps
<1>10. CASE IsDropped
  BY <1>1, <1>5, <1>10 DEF IsDropped
<1>11. CASE \/ set_dlna_direct \/ toggle_pause \/ SessionSteps
            \/ \E h \in Getters : GetterSteps(h)
            \/ \E stream \in streams : StreamEnds(stream)
            \/ \E s \in Seekers : SeekSteps(s)
            \/ UNCHANGED vars
  BY <1>3, <1>11 DEF set_dlna_direct, toggle_pause, SessionSteps, GetterSteps, RequestArrives,
       Serves, RequestEnds, StreamEnds, SeekSteps, SeekBegins, SeekLocks, SeekExecutes,
       SeekReturns, SeekFails, SeekEnds, castVars, vars
<1> QED
  BY <1>6, <1>7, <1>9, <1>10, <1>11 DEF Next

\* What a command does to the renderer keeps its type.
LEMMA DeviceTypes ==
    ASSUME device \in [song : Nat, gen : Nat, playing : BOOLEAN], NEW n \in Nat, device.gen =< n,
           NEW song \in Nat, NEW g \in Nat, g =< n,
           \/ device' = device
           \/ device' = [device EXCEPT !.playing = FALSE]
           \/ device' = [device EXCEPT !.song = song, !.gen = g]
           \/ device' = [device EXCEPT !.playing = TRUE]
    PROVE  device' \in [song : Nat, gen : Nat, playing : BOOLEAN] /\ device'.gen =< n
<1>1. CASE device' = device
  BY <1>1
<1>2. CASE device' = [device EXCEPT !.playing = FALSE]
  BY <1>2
<1>3. CASE device' = [device EXCEPT !.song = song, !.gen = g]
  BY <1>3
<1>4. CASE device' = [device EXCEPT !.playing = TRUE]
  BY <1>4
<1> QED
  BY <1>1, <1>2, <1>3, <1>4

LEMMA CastTypesStep ==
    ASSUME TypeOK, [Next]_vars
    PROVE  CastTypes'
<1>1. /\ SessionTypes /\ CastTypes /\ SeekTypes /\ cast \in [Casters -> Cast]
      /\ Len(sessions) \in Nat /\ Len(sessions') \in Nat /\ Len(sessions') >= Len(sessions)
  BY SessionTypesStep DEF TypeOK, CastTypes
<1>2. cast' \in [Casters -> Cast] /\ CastSessions'
  BY CastStep
<1>3. ASSUME NEW c \in Casters
      PROVE  /\ cast[c] \in Cast /\ cast[c].song \in Nat /\ cast[c].to \in Qualities
             /\ cast[c].gen \in 0 .. Len(sessions)
  BY <1>1, <1>3 DEF CastTypes, Cast
<1>4. /\ current_song \in Nat /\ seek_sequence \in Nat /\ confirmed \in Nat
      /\ loaded_generation \in 0 .. Len(sessions)
      /\ transport \in {"free"} \cup Casters \cup Seekers
      /\ direct \in BOOLEAN /\ quality \in Qualities
      /\ device \in [song : Nat, gen : Nat, playing : BOOLEAN] /\ device.gen =< Len(sessions)
  BY <1>1 DEF CastTypes
<1>5. ASSUME NEW c \in Casters, NEW ok, Returns(c, ok)
      PROVE  confirmed' \in Nat /\ transport' \in {"free"} \cup Casters \cup Seekers
  BY <1>3, <1>4, <1>5 DEF Returns
<1>6. SUFFICES /\ direct' \in BOOLEAN /\ quality' \in Qualities
               /\ current_song' \in Nat /\ seek_sequence' \in Nat /\ confirmed' \in Nat
               /\ loaded_generation' \in 0 .. Len(sessions')
               /\ transport' \in {"free"} \cup Casters \cup Seekers
               /\ device' \in [song : Nat, gen : Nat, playing : BOOLEAN]
               /\ device'.gen =< Len(sessions')
  BY <1>2 DEF CastTypes, CastSessions
<1>7. CASE play_song \/ set_quality \/ PositionArrives \/ set_dlna_direct \/ toggle_pause
  <2>1. UNCHANGED <<confirmed, loaded_generation, transport>>
    BY <1>7 DEF play_song, set_quality, PositionArrives, set_dlna_direct, toggle_pause, castVars
  <2>2. device' \in [song : Nat, gen : Nat, playing : BOOLEAN] /\ device'.gen = device.gen
    BY <1>4, <1>7 DEF play_song, set_quality, PositionArrives, set_dlna_direct, toggle_pause
  <2>3. direct' \in BOOLEAN /\ quality' \in Qualities
    BY <1>4, <1>7 DEF play_song, set_quality, PositionArrives, set_dlna_direct, toggle_pause, castVars, Qualities
  <2>4. current_song' \in Nat /\ seek_sequence' \in Nat
    <3>1. CASE play_song
      BY <1>4, <3>1 DEF play_song
    <3>2. CASE ~play_song
      BY <1>4, <1>7, <3>2 DEF set_quality, PositionArrives, set_dlna_direct, toggle_pause, castVars
    <3> QED
      BY <3>1, <3>2
  <2> QED
    BY <1>1, <1>4, <2>1, <2>2, <2>3, <2>4
<1>8. CASE ChecksDirect \/ StoresQuality
  <2>1. UNCHANGED <<direct, current_song, seek_sequence, loaded_generation, device>>
        /\ quality' \in Qualities
    BY <1>3, <1>4, <1>8 DEF ChecksDirect, StoresQuality, Casters
  <2>2. UNCHANGED <<transport, confirmed>> \/ Returns("setter", FALSE) \/ Returns("setter", TRUE)
    BY <1>8 DEF ChecksDirect, StoresQuality
  <2>3. confirmed' \in Nat /\ transport' \in {"free"} \cup Casters \cup Seekers
    BY <1>4, <1>5, <2>2 DEF Casters
  <2> QED
    BY <1>1, <1>4, <2>1, <2>3
<1>9. CASE IsDropped
  <2>1. UNCHANGED <<direct, quality, current_song, seek_sequence, loaded_generation>>
        /\ Returns("player", FALSE)
    BY <1>9 DEF IsDropped
  <2>2. \/ device' = device
        \/ device' = [device EXCEPT !.playing = FALSE]
        \/ device' = [device EXCEPT !.song = cast["player"].song, !.gen = cast["player"].gen]
        \/ device' = [device EXCEPT !.playing = TRUE]
    BY <1>9 DEF IsDropped
  <2>3. cast["player"].song \in Nat /\ cast["player"].gen \in 0 .. Len(sessions)
    BY <1>3 DEF Casters
  <2>4. device' \in [song : Nat, gen : Nat, playing : BOOLEAN] /\ device'.gen =< Len(sessions)
    <3>1. cast["player"].gen \in Nat /\ cast["player"].gen =< Len(sessions)
      BY <1>1, <2>3
    <3>2. device.gen =< Len(sessions) /\ Len(sessions) \in Nat
      BY <1>1, <1>4
    <3> QED
      BY <1>4, <2>2, <2>3, <3>1, <3>2, DeviceTypes
  <2>5. confirmed' \in Nat /\ transport' \in {"free"} \cup Casters \cup Seekers
    BY <1>5, <2>1 DEF Casters
  <2> QED
    BY <1>1, <1>4, <2>1, <2>4, <2>5
<1>10. ASSUME NEW c \in Casters, CastSteps(c)
       PROVE  /\ direct' \in BOOLEAN /\ quality' \in Qualities
              /\ current_song' \in Nat /\ seek_sequence' \in Nat /\ confirmed' \in Nat
              /\ loaded_generation' \in 0 .. Len(sessions')
              /\ transport' \in {"free"} \cup Casters \cup Seekers
              /\ device' \in [song : Nat, gen : Nat, playing : BOOLEAN]
              /\ device'.gen =< Len(sessions')
  <2>1. UNCHANGED <<direct, quality, current_song, seek_sequence>>
    BY <1>10 DEF CastSteps, Activates, CancelsPrevious, Prepared, ResolvesDirect, Locks,
         Stops, SetsUri, Plays, RestoresPosition
  <2>2. confirmed' \in Nat /\ transport' \in {"free"} \cup Casters \cup Seekers
    <3>1. \/ UNCHANGED confirmed /\ transport' \in {transport, c}
          \/ \E ok \in BOOLEAN : Returns(c, ok)
      BY <1>10 DEF CastSteps, Activates, CancelsPrevious, Prepared, ResolvesDirect, Locks,
           Stops, SetsUri, Plays, RestoresPosition
    <3> QED
      BY <1>4, <1>5, <1>10, <3>1
  <2>3. loaded_generation' \in 0 .. Len(sessions')
    <3>1. loaded_generation' \in {loaded_generation, NoGeneration, cast[c].gen}
      BY <1>10 DEF CastSteps, Activates, CancelsPrevious, Prepared, ResolvesDirect, Locks,
           Stops, SetsUri, Plays, RestoresPosition
    <3> QED
      BY <1>1, <1>3, <1>4, <3>1 DEF NoGeneration
  <2>4. \/ device' = device
        \/ device' = [device EXCEPT !.playing = FALSE]
        \/ device' = [device EXCEPT !.song = cast[c].song, !.gen = cast[c].gen]
        \/ device' = [device EXCEPT !.playing = TRUE]
    BY <1>10 DEF CastSteps, Activates, CancelsPrevious, Prepared, ResolvesDirect, Locks,
         Stops, SetsUri, Plays, RestoresPosition
  <2>5. device' \in [song : Nat, gen : Nat, playing : BOOLEAN] /\ device'.gen =< Len(sessions)
    <3>1. cast[c].gen \in Nat /\ cast[c].gen =< Len(sessions) /\ cast[c].song \in Nat
      BY <1>1, <1>3
    <3>2. device.gen =< Len(sessions) /\ Len(sessions) \in Nat
      BY <1>1, <1>4
    <3> QED
      BY <1>4, <2>4, <3>1, <3>2, DeviceTypes
  <2> QED
    BY <1>1, <1>4, <2>1, <2>2, <2>3, <2>5
<1>11. CASE \/ SessionSteps \/ UNCHANGED vars
            \/ \E h \in Getters : GetterSteps(h)
            \/ \E stream \in streams : StreamEnds(stream)
  <2>1. UNCHANGED castVars /\ UNCHANGED device
    BY <1>11 DEF SessionSteps, GetterSteps, RequestArrives, Serves, RequestEnds, StreamEnds, vars
  <2> QED
    BY <1>1, <1>4, <2>1 DEF castVars
<1>12. ASSUME NEW s \in Seekers, SeekSteps(s)
       PROVE  /\ UNCHANGED <<direct, quality, current_song, confirmed, loaded_generation, device>>
              /\ transport' \in {transport, s, "free"} /\ seek_sequence' \in Nat
  BY <1>4, <1>12 DEF SeekSteps, SeekBegins, SeekLocks, SeekExecutes, SeekReturns, SeekFails, SeekEnds, castVars
<1>13. CASE \E s \in Seekers : SeekSteps(s)
  BY <1>1, <1>4, <1>12, <1>13
<1> QED
  BY <1>7, <1>8, <1>9, <1>10, <1>11, <1>13 DEF Next

\* The steps of seeks and streams.
LEMMA SetsSeek ==
    ASSUME seek \in [Seekers -> Seek], NEW s \in Seekers, NEW r \in Seek,
           seek' = [seek EXCEPT ![s] = r]
    PROVE  /\ seek' \in [Seekers -> Seek] /\ seek'[s] = r
           /\ \A t \in Seekers \ {s} : seek'[t] = seek[t]
OBVIOUS

LEMMA SeekBeginsEffect ==
    ASSUME TypeOK, NEW s \in Seekers, SeekBegins(s)
    PROVE  /\ seek' \in [Seekers -> Seek] /\ \A t \in Seekers \ {s} : seek'[t] = seek[t]
           /\ seek'[s].pc = "lock" /\ seek'[s].song = current_song
           /\ seek'[s].sequence = seek_sequence + 1 /\ seek'[s].gen = NoGeneration
<1> DEFINE r == [IdleSeek EXCEPT !.pc = "lock", !.song = current_song,
                    !.sequence = seek_sequence + 1,
                    !.in_session = loaded_generation # NoGeneration]
<1>1. /\ IdleSeek \in Seek /\ IdleSeek.gen = NoGeneration /\ current_song \in Nat
      /\ seek_sequence + 1 \in Nat /\ (loaded_generation # NoGeneration) \in BOOLEAN
  BY IdleTypes DEF IdleSeek, TypeOK, CastTypes
<1>2. /\ r \in Seek /\ r.pc = "lock" /\ r.song = current_song
      /\ r.sequence = seek_sequence + 1 /\ r.gen = NoGeneration
  BY <1>1 DEF Seek
<1>3. seek' = [seek EXCEPT ![s] = r] /\ seek \in [Seekers -> Seek]
  BY DEF SeekBegins, TypeOK, SeekTypes
<1> HIDE DEF r
<1> QED
  BY <1>2, <1>3, SetsSeek

\* A seek that has the transport notes the session and its streams.
LEMMA SeekLocksEffect ==
    ASSUME TypeOK, NEW s \in Seekers, SeekLocks(s)
    PROVE  /\ seek' \in [Seekers -> Seek] /\ \A t \in Seekers \ {s} : seek'[t] = seek[t]
           /\ seek[s].pc = "lock" /\ transport = "free"
           /\ \/ seek'[s] = IdleSeek /\ UNCHANGED transport
              \/ /\ transport' = s /\ seek'[s].pc = "sent" /\ seek'[s].song = seek[s].song
                 /\ seek[s].sequence = seek_sequence
                 /\ seek'[s].in_session = seek[s].in_session
                 /\ \/ ~seek[s].in_session /\ seek'[s].gen = NoGeneration
                    \/ /\ seek[s].in_session /\ get(loaded_generation)
                       /\ seek'[s].gen = loaded_generation
                       /\ seek'[s].cutoff = stream_id[loaded_generation]
<1>1. /\ seek \in [Seekers -> Seek] /\ seek[s] \in Seek /\ IdleSeek \in Seek
      /\ loaded_generation \in 0 .. Len(sessions) /\ Len(sessions) \in Nat
      /\ Len(sessions) =< MaxGeneration
      /\ stream_id \in [1 .. MaxGeneration -> Nat]
  BY IdleTypes, LenProperties DEF TypeOK, SessionTypes, CastTypes, SeekTypes
<1>2. CASE seek' = [seek EXCEPT ![s] = IdleSeek] /\ UNCHANGED transport
  BY <1>1, <1>2, SetsSeek DEF SeekLocks
<1>3. CASE ~(seek' = [seek EXCEPT ![s] = IdleSeek] /\ UNCHANGED transport)
  <2>1. /\ seek[s].pc = "lock" /\ transport = "free" /\ transport' = s
        /\ seek[s].sequence = seek_sequence /\ (seek[s].in_session => get(loaded_generation))
        /\ seek' = [seek EXCEPT ![s].pc = "sent",
                        ![s].gen = IF seek[s].in_session THEN loaded_generation
                                                         ELSE NoGeneration,
                        ![s].cutoff = IF seek[s].in_session
                                      THEN stream_id[loaded_generation] ELSE 0]
    BY <1>3 DEF SeekLocks
  <2> DEFINE gen == IF seek[s].in_session THEN loaded_generation ELSE NoGeneration
             cutoff == IF seek[s].in_session THEN stream_id[loaded_generation] ELSE 0
             r == [seek[s] EXCEPT !.pc = "sent", !.gen = gen, !.cutoff = cutoff]
  <2>2. gen \in Nat /\ cutoff \in Nat
    BY <1>1, <2>1, MediaSessionsAssumption DEF get, NoGeneration
  <2> HIDE DEF gen, cutoff
  <2>3. /\ r \in Seek /\ r.pc = "sent" /\ r.song = seek[s].song /\ r.gen = gen
        /\ r.cutoff = cutoff /\ r.in_session = seek[s].in_session
    BY <1>1, <2>2 DEF Seek
  <2>4. seek' = [seek EXCEPT ![s] = r]
    BY <1>1, <2>1 DEF gen, cutoff
  <2> HIDE DEF r
  <2>5. seek' \in [Seekers -> Seek] /\ seek'[s] = r /\ \A t \in Seekers \ {s} : seek'[t] = seek[t]
    BY <1>1, <2>3, <2>4, SetsSeek
  <2> QED
    BY <2>1, <2>3, <2>5 DEF gen, cutoff
<1> QED
  BY <1>2, <1>3

LEMMA SeekExecutesEffect ==
    ASSUME TypeOK, NEW s \in Seekers, SeekExecutes(s)
    PROVE  /\ seek' \in [Seekers -> Seek] /\ \A t \in Seekers \ {s} : seek'[t] = seek[t]
           /\ seek[s].pc = "sent" /\ seek'[s].pc = "executed" /\ seek'[s].song = seek[s].song
           /\ seek'[s].gen = seek[s].gen /\ seek'[s].in_session = seek[s].in_session
           /\ seek'[s].cutoff = seek[s].cutoff
           /\ streams' \subseteq Stream
           /\ \A new \in streams' : ~new.fresh
           /\ \A new \in streams' : \E old \in streams : new.gen = old.gen /\ new.id = old.id
<1> DEFINE r == [seek[s] EXCEPT !.pc = "executed"]
<1>1. seek \in [Seekers -> Seek] /\ seek[s] \in Seek /\ streams \subseteq Stream
  BY DEF TypeOK, SeekTypes
<1>2. /\ r \in Seek /\ r.pc = "executed" /\ r.song = seek[s].song /\ r.gen = seek[s].gen
      /\ r.in_session = seek[s].in_session /\ r.cutoff = seek[s].cutoff
  BY <1>1 DEF Seek
<1>3. seek' = [seek EXCEPT ![s] = r] /\ seek[s].pc = "sent"
  BY DEF SeekExecutes
<1> HIDE DEF r
<1>4. seek' \in [Seekers -> Seek] /\ seek'[s] = r /\ \A t \in Seekers \ {s} : seek'[t] = seek[t]
  BY <1>1, <1>2, <1>3, SetsSeek
<1>5. ASSUME NEW new \in streams'
      PROVE  /\ new \in Stream /\ ~new.fresh
             /\ \E old \in streams : new.gen = old.gen /\ new.id = old.id
  <2>1. PICK old \in streams : new = [old EXCEPT !.fresh = FALSE]
    BY <1>5 DEF SeekExecutes
  <2> QED
    BY <1>1, <2>1 DEF Stream
<1> QED
  BY <1>2, <1>3, <1>4, <1>5

LEMMA RetiresEffect ==
    ASSUME SeekTypes, NEW g \in 0 .. MaxGeneration, NEW cutoff \in Nat, Retires(g, cutoff)
    PROVE  /\ stream_epoch' \in [1 .. MaxGeneration -> Nat]
           /\ \A h \in 1 .. MaxGeneration :
                 \/ stream_epoch'[h] = stream_epoch[h]
                 \/ h = g /\ stream_epoch'[h] = cutoff
<1>1. stream_epoch \in [1 .. MaxGeneration -> Nat]
  BY DEF SeekTypes
<1>2. CASE g = NoGeneration
  BY <1>1, <1>2 DEF Retires
<1>3. CASE g # NoGeneration
  <2>1. g \in 1 .. MaxGeneration /\ stream_epoch[g] \in Nat
    BY <1>1, <1>3 DEF NoGeneration
  <2>2. PICK e \in {stream_epoch[g], cutoff} : stream_epoch' = [stream_epoch EXCEPT ![g] = e]
    BY <1>1, <1>3 DEF Retires
  <2> QED
    BY <1>1, <2>1, <2>2
<1> QED
  BY <1>2, <1>3

\* A stream that is served, or none.
LEMMA ServesEffect ==
    ASSUME TypeOK, NEW h \in Getters, Serves(h)
    PROVE  /\ UNCHANGED <<castVars, seek, device, sessions, current, stream_epoch>>
           /\ stream_id' \in [1 .. MaxGeneration -> Nat]
           /\ \/ UNCHANGED <<stream_id, streams>>
              \/ \E g \in Generations :
                    /\ stream_id' = [stream_id EXCEPT ![g] = stream_id[g] + 1]
                    /\ streams' = streams \cup {[gen |-> g, id |-> stream_id[g] + 1, fresh |-> TRUE]}
<1>1. /\ stream_id \in [1 .. MaxGeneration -> Nat] /\ prep[h].pc = "ok" /\ h \in Preparers
      /\ Len(sessions) \in Nat /\ Len(sessions) =< MaxGeneration
  BY DlnaCasterAssumption, LenProperties DEF TypeOK, SessionTypes, SeekTypes, Serves
<1>2. prep[h].gen \in Generations /\ prep[h].gen \in 1 .. MaxGeneration
  BY <1>1, MediaSessionsAssumption DEF TypeOK, SessionTypes, Generations
<1>3. CASE UNCHANGED <<stream_id, streams>>
  BY <1>1, <1>3 DEF Serves
<1>4. CASE ~UNCHANGED <<stream_id, streams>>
  <2> DEFINE g == prep[h].gen
  <2>1. /\ stream_id' = [stream_id EXCEPT ![g] = stream_id[g] + 1]
        /\ streams' = streams \cup {[gen |-> g, id |-> stream_id'[g], fresh |-> TRUE]}
    BY <1>4 DEF Serves
  <2>2. stream_id'[g] = stream_id[g] + 1
    BY <1>1, <1>2, <2>1
  <2>3. /\ g \in Generations
        /\ streams' = streams \cup {[gen |-> g, id |-> stream_id[g] + 1, fresh |-> TRUE]}
    BY <1>2, <2>1, <2>2
  <2>4. stream_id' \in [1 .. MaxGeneration -> Nat]
    BY <1>1, <1>2, <2>1
  <2>5. UNCHANGED <<castVars, seek, device, sessions, current, stream_epoch>>
    BY DEF Serves
  <2> HIDE DEF g
  <2> QED
    BY <2>1, <2>3, <2>4, <2>5
<1> QED
  BY <1>3, <1>4

LEMMA SeekTypesStep ==
    ASSUME TypeOK, [Next]_vars
    PROVE  SeekTypes'
<1>1. /\ SeekTypes /\ seek \in [Seekers -> Seek] /\ loaded_generation \in 0 .. Len(sessions)
      /\ Len(sessions) \in Nat /\ Len(sessions') \in Nat /\ Len(sessions') >= Len(sessions)
      /\ IdleSeek \in Seek /\ IdleSeek.gen = 0
  BY SessionTypesStep, IdleTypes DEF TypeOK, SeekTypes, CastTypes, IdleSeek, NoGeneration
<1>2. CASE UNCHANGED <<seek, streamVars>>
  <2>1. UNCHANGED <<seek, streams, stream_id, stream_epoch>>
    BY <1>2 DEF streamVars
  <2> QED
    BY <1>1, <2>1 DEF SeekTypes, Seek, Generations
<1>3. ASSUME NEW h \in Getters, Serves(h)
      PROVE  SeekTypes'
  <2>1. /\ UNCHANGED <<seek, sessions, stream_epoch>>
        /\ stream_id' \in [1 .. MaxGeneration -> Nat]
        /\ \/ UNCHANGED <<stream_id, streams>>
           \/ \E g \in Generations :
                 /\ stream_id' = [stream_id EXCEPT ![g] = stream_id[g] + 1]
                 /\ streams' = streams \cup {[gen |-> g, id |-> stream_id[g] + 1, fresh |-> TRUE]}
    BY <1>3, ServesEffect
  <2>2. streams' \subseteq Stream /\ \A stream \in streams' : stream.gen \in Generations
    <3>1. CASE UNCHANGED streams
      BY <1>1, <3>1 DEF SeekTypes
    <3>2. CASE \E g \in Generations :
                  streams' = streams \cup {[gen |-> g, id |-> stream_id[g] + 1, fresh |-> TRUE]}
      <4>1. PICK g \in Generations :
                  streams' = streams \cup {[gen |-> g, id |-> stream_id[g] + 1, fresh |-> TRUE]}
        BY <3>2
      <4>2. g \in 1 .. MaxGeneration
        BY <1>1, MediaSessionsAssumption DEF Generations, TypeOK, SessionTypes
      <4>3. [gen |-> g, id |-> stream_id[g] + 1, fresh |-> TRUE] \in Stream
        BY <1>1, <4>2 DEF SeekTypes, Stream
      <4> DEFINE r == [gen |-> g, id |-> stream_id[g] + 1, fresh |-> TRUE]
      <4>4. r \in Stream /\ r.gen = g /\ streams' = streams \cup {r}
        BY <4>1, <4>3
      <4> HIDE DEF r
      <4> QED
        BY <1>1, <4>4 DEF SeekTypes
    <3> QED
      BY <2>1, <3>1, <3>2
  <2> QED
    BY <1>1, <2>1, <2>2 DEF SeekTypes, Generations
<1>4. ASSUME NEW s \in Seekers, SeekSteps(s)
      PROVE  SeekTypes'
  <2> USE <1>1
  <2>1. CASE SeekBegins(s)
    <3>1. /\ seek' \in [Seekers -> Seek] /\ \A t \in Seekers \ {s} : seek'[t] = seek[t]
          /\ seek'[s].gen = NoGeneration
      BY <2>1, SeekBeginsEffect
    <3>2. UNCHANGED <<sessions, streams, stream_id, stream_epoch>>
      BY <2>1 DEF SeekBegins, sessionVars, streamVars
    <3> QED
      BY <3>1, <3>2 DEF SeekTypes, Generations, NoGeneration
  <2>2. CASE SeekLocks(s)
    <3>1. /\ seek' \in [Seekers -> Seek] /\ \A t \in Seekers \ {s} : seek'[t] = seek[t]
          /\ seek'[s].gen \in {0, loaded_generation}
      BY <2>2, SeekLocksEffect DEF NoGeneration
    <3>2. UNCHANGED <<sessions, streams, stream_id, stream_epoch>>
      BY <2>2 DEF SeekLocks, sessionVars, streamVars
    <3> QED
      BY <3>1, <3>2 DEF SeekTypes, Generations
  <2>3. CASE SeekExecutes(s)
    <3>1. /\ seek' \in [Seekers -> Seek] /\ \A t \in Seekers \ {s} : seek'[t] = seek[t]
          /\ seek'[s].gen = seek[s].gen /\ streams' \subseteq Stream
          /\ \A new \in streams' : \E old \in streams : new.gen = old.gen
      BY <2>3, SeekExecutesEffect
    <3>2. UNCHANGED <<sessions, stream_id, stream_epoch>>
      BY <2>3 DEF SeekExecutes, sessionVars
    <3>3. \A stream \in streams' : stream.gen \in Generations
      BY <3>1 DEF SeekTypes
    <3> QED
      BY <3>1, <3>2, <3>3 DEF SeekTypes, Generations
  <2>4. CASE SeekReturns(s) \/ SeekFails(s)
    <3>1. seek' = [seek EXCEPT ![s] = IdleSeek] /\ UNCHANGED <<sessions, streams, stream_id>>
      BY <2>4 DEF SeekReturns, SeekFails, SeekEnds, sessionVars
    <3>2. seek' \in [Seekers -> Seek] /\ seek'[s] = IdleSeek /\ \A t \in Seekers \ {s} : seek'[t] = seek[t]
      BY <3>1, SetsSeek
    <3>3. stream_epoch' \in [1 .. MaxGeneration -> Nat]
      <4>1. CASE SeekReturns(s)
        <5>1. seek[s].gen \in 0 .. MaxGeneration /\ seek[s].cutoff \in Nat
          BY MediaSessionsAssumption DEF SeekTypes, Seek, TypeOK, SessionTypes
        <5>2. Retires(seek[s].gen, seek[s].cutoff)
          BY <4>1 DEF SeekReturns
        <5> QED
          BY <5>1, <5>2, RetiresEffect
      <4>2. CASE SeekFails(s)
        BY <4>2 DEF SeekFails, SeekTypes
      <4> QED
        BY <2>4, <4>1, <4>2
    <3> QED
      BY <3>1, <3>2, <3>3 DEF SeekTypes, Generations
  <2> QED
    BY <1>4, <2>1, <2>2, <2>3, <2>4 DEF SeekSteps
<1>5. ASSUME NEW stream \in streams, StreamEnds(stream)
      PROVE  SeekTypes'
  BY <1>1, <1>5 DEF StreamEnds, SeekTypes, sessionVars, Generations
<1>6. CASE \/ play_song \/ set_quality \/ PositionArrives \/ ChecksDirect
           \/ StoresQuality \/ set_dlna_direct \/ toggle_pause \/ IsDropped \/ SessionSteps
  BY <1>2, <1>6 DEF play_song, set_quality, PositionArrives, ChecksDirect, StoresQuality,
       set_dlna_direct, toggle_pause, IsDropped, SessionSteps
<1>7. CASE \E c \in Casters : CastSteps(c)
  BY <1>2, <1>7 DEF CastSteps, Activates, CancelsPrevious, Prepared, ResolvesDirect, Locks,
         Stops, SetsUri, Plays, RestoresPosition
<1>8. CASE UNCHANGED vars
  BY <1>2, <1>8 DEF vars
<1>9. CASE \E h \in Getters : GetterSteps(h)
  BY <1>2, <1>3, <1>9 DEF GetterSteps, RequestArrives, RequestEnds, streamVars
<1> QED
  BY <1>4, <1>5, <1>6, <1>7, <1>8, <1>9 DEF Next

\* Every variable keeps its type, generations and streams are of sessions that
\* were made, and a session being prepared has a generation.
THEOREM TypeCorrect == Spec => []TypeOK
<1>1. Init => TypeOK
  BY TypeInit
<1>2. TypeOK /\ [Next]_vars => TypeOK'
  BY SessionTypesStep, CastTypesStep, SeekTypesStep DEF TypeOK
<1> QED
  BY <1>1, <1>2, PTL DEF Spec

-----------------------------------------------------------------------------
(* The transport.                                                          *)

\* What a step of caster c may do to the transport, the renderer and itself.
Commands(c) ==
    /\ Only(c)
    /\ cast'[c].pc \in Commanding => transport' = c
    /\ transport' = transport \/ transport \in {"free", c}
    /\ \/ device'.song = device.song /\ device'.gen = device.gen
       \/ /\ cast[c].pc = "uri"
          /\ device'.song = cast[c].song /\ device'.gen = cast[c].gen
    /\ cast'[c].pc \in {"play", "restore"} =>
          device'.song = cast'[c].song /\ device'.gen = cast'[c].gen

LEMMA DeviceFields ==
    ASSUME device \in [song : Nat, gen : Nat, playing : BOOLEAN]
    PROVE  /\ \A b \in BOOLEAN : device' = [device EXCEPT !.playing = b] =>
                 device'.song = device.song /\ device'.gen = device.gen /\ device'.playing = b
           /\ device' = [device EXCEPT !.playing = ~@] =>
                 device'.song = device.song /\ device'.gen = device.gen
           /\ \A n, g \in Nat : device' = [device EXCEPT !.song = n, !.gen = g] =>
                 device'.song = n /\ device'.gen = g
OBVIOUS

LEMMA StepCommands ==
    ASSUME TypeOK, Transport, NEW c \in Casters, CastSteps(c)
    PROVE  Commands(c)
<1>1. /\ SessionTypes /\ CastTypes /\ cast \in [Casters -> Cast] /\ cast[c] \in Cast
      /\ device \in [song : Nat, gen : Nat, playing : BOOLEAN] /\ IdleCast.pc = "idle"
      /\ cast[c].song \in Nat /\ cast[c].gen \in Nat
  BY DEF TypeOK, CastTypes, Cast, IdleCast
<1>2. /\ cast[c].pc \in Commanding => transport = c
      /\ cast[c].pc \in {"play", "restore"} => device.song = cast[c].song /\ device.gen = cast[c].gen
  BY DEF Transport
<1>3. ASSUME NEW ok, Returns(c, ok)
      PROVE  /\ Only(c) /\ cast'[c].pc = "idle"
             /\ transport' = transport \/ transport \in {"free", c}
  BY <1>1, <1>3, ReturnsEffect
<1>4. ASSUME NEW pc \in CastPCs, Goes(c, pc)
      PROVE  /\ Only(c) /\ cast'[c].pc = pc
             /\ cast'[c].song = cast[c].song /\ cast'[c].gen = cast[c].gen
  BY <1>1, <1>4, GoesEffect
<1>5. CASE Activates(c)
  <2>1. Only(c) /\ cast'[c].pc \in {"resolve", "cancel"}
    BY <1>1, <1>5, ActivatesEffect
  <2> QED
    BY <1>5, <2>1 DEF Commands, Commanding, Activates
<1>6. CASE CancelsPrevious(c)
  <2>1. Goes(c, "prepare") /\ "prepare" \in CastPCs /\ UNCHANGED <<transport, device>>
    BY <1>6 DEF CancelsPrevious, CastPCs
  <2> QED
    BY <1>4, <2>1 DEF Commands, Commanding
<1>7. CASE Prepared(c) \/ ResolvesDirect(c)
  <2>1. UNCHANGED device /\ "lock" \in CastPCs
        /\ ((Goes(c, "lock") /\ UNCHANGED transport) \/ Returns(c, FALSE))
    BY <1>7 DEF Prepared, ResolvesDirect, CastPCs
  <2> QED
    BY <1>3, <1>4, <2>1 DEF Commands, Commanding
<1>8. CASE Locks(c)
  <2>1. UNCHANGED device /\ transport = "free" /\ "stop" \in CastPCs
        /\ ((Goes(c, "stop") /\ transport' = c) \/ Returns(c, FALSE))
    BY <1>8 DEF Locks, CastPCs
  <2> QED
    BY <1>3, <1>4, <2>1 DEF Commands, Commanding
<1>9. CASE Stops(c)
  <2>1. device'.song = device.song /\ device'.gen = device.gen
    BY <1>1, <1>9, DeviceFields DEF Stops
  <2>2. cast[c].pc = "stop" /\ "uri" \in CastPCs
        /\ ((Goes(c, "uri") /\ UNCHANGED transport) \/ Returns(c, FALSE))
    BY <1>9 DEF Stops, CastPCs
  <2> QED
    BY <1>2, <1>3, <1>4, <2>1, <2>2 DEF Commands, Commanding
<1>10. CASE SetsUri(c)
  <2>1. cast[c].pc = "uri" /\ "play" \in CastPCs
        /\ \/ /\ device'.song = cast[c].song /\ device'.gen = cast[c].gen
              /\ (Goes(c, "play") /\ UNCHANGED transport) \/ Returns(c, FALSE)
           \/ UNCHANGED device /\ Returns(c, FALSE)
    BY <1>1, <1>10, DeviceFields DEF SetsUri, CastPCs
  <2> QED
    BY <1>2, <1>3, <1>4, <2>1 DEF Commands, Commanding
<1>11. CASE Plays(c)
  <2>1. device'.song = device.song /\ device'.gen = device.gen
    BY <1>1, <1>11, DeviceFields DEF Plays
  <2>2. cast[c].pc = "play" /\ "restore" \in CastPCs
        /\ ((Goes(c, "restore") /\ UNCHANGED transport) \/ (\E ok \in BOOLEAN : Returns(c, ok)))
    BY <1>11 DEF Plays, CastPCs
  <2> QED
    BY <1>2, <1>3, <1>4, <2>1, <2>2 DEF Commands, Commanding
<1>12. CASE RestoresPosition(c)
  <2>1. UNCHANGED device /\ \E ok \in BOOLEAN : Returns(c, ok)
    BY <1>12 DEF RestoresPosition
  <2> QED
    BY <1>3, <2>1 DEF Commands, Commanding
<1> QED
  BY <1>5, <1>6, <1>7, <1>8, <1>9, <1>10, <1>11, <1>12 DEF CastSteps

\* The steps of the callers, too, and of a play_song that is dropped.
LEMMA PlayerCommands ==
    ASSUME TypeOK, play_song \/ IsDropped
    PROVE  Commands("player")
<1>1. /\ SessionTypes /\ CastTypes /\ cast \in [Casters -> Cast] /\ "player" \in Casters
      /\ device \in [song : Nat, gen : Nat, playing : BOOLEAN] /\ IdleCast.pc = "idle"
      /\ cast["player"].song \in Nat /\ cast["player"].gen \in Nat
  BY DEF TypeOK, CastTypes, Cast, IdleCast, Casters
<1>2. CASE play_song
  <2>1. Only("player") /\ cast'["player"].pc = "activate"
    BY <1>1, <1>2, PlaySongEffect
  <2>2. UNCHANGED <<transport, device>>
    BY <1>2 DEF play_song
  <2> QED
    BY <2>1, <2>2 DEF Commands, Commanding
<1>3. CASE IsDropped
  <2>1. Only("player") /\ cast'["player"] = IdleCast
        /\ transport' = IF transport = "player" THEN "free" ELSE transport
    BY <1>1, <1>3, ReturnsEffect DEF IsDropped
  <2>2. \/ device'.song = device.song /\ device'.gen = device.gen
        \/ /\ cast["player"].pc = "uri"
           /\ device'.song = cast["player"].song /\ device'.gen = cast["player"].gen
    BY <1>1, <1>3, DeviceFields DEF IsDropped
  <2> QED
    BY <1>1, <1>3, <2>1, <2>2 DEF Commands, Commanding
<1> QED
  BY <1>2, <1>3

LEMMA SetterCommands ==
    ASSUME TypeOK, set_quality \/ PositionArrives \/ ChecksDirect \/ StoresQuality
    PROVE  Commands("setter")
<1>1. /\ CastTypes /\ cast \in [Casters -> Cast] /\ "setter" \in Casters /\ IdleCast.pc = "idle"
  BY DEF TypeOK, CastTypes, IdleCast, Casters
<1>2. Only("setter") /\ cast'["setter"].pc \in {"idle", "query", "set", "store", "activate"}
  BY <1>1, SetterEffect
<1>3. UNCHANGED device /\ (UNCHANGED transport \/ Returns("setter", FALSE) \/ Returns("setter", TRUE))
  BY DEF set_quality, PositionArrives, ChecksDirect, StoresQuality
<1>4. transport' = transport \/ transport = "setter"
  BY <1>1, <1>3, ReturnsEffect
<1> QED
  BY <1>2, <1>3, <1>4 DEF Commands, Commanding

\* A seek commands likewise.
LEMMA SeekCommands ==
    ASSUME TypeOK, Transport, NEW s \in Seekers, SeekSteps(s)
    PROVE  /\ UNCHANGED <<cast, device>>
           /\ \A t \in Seekers \ {s} : seek'[t] = seek[t]
           /\ seek'[s].pc \in {"sent", "executed"} => transport' = s
           /\ transport' = transport \/ transport \in {"free", s}
<1>0. seek \in [Seekers -> Seek] /\ IdleSeek \in Seek /\ IdleSeek.pc = "idle"
      /\ (seek[s].pc \in {"sent", "executed"} => transport = s)
  BY IdleTypes DEF TypeOK, SeekTypes, IdleSeek, Transport
<1>1. CASE SeekBegins(s)
  BY <1>1, SeekBeginsEffect DEF SeekBegins
<1>2. CASE SeekLocks(s)
  BY <1>0, <1>2, SeekLocksEffect DEF SeekLocks
<1>3. CASE SeekExecutes(s)
  BY <1>0, <1>3, SeekExecutesEffect DEF SeekExecutes, castVars
<1>4. CASE SeekReturns(s) \/ SeekFails(s)
  <2>1. /\ seek' = [seek EXCEPT ![s] = IdleSeek] /\ seek[s].pc \in {"sent", "executed"}
        /\ UNCHANGED <<cast, device>>
    BY <1>4 DEF SeekReturns, SeekFails, SeekEnds
  <2> QED
    BY <1>0, <2>1, SetsSeek
<1> QED
  BY <1>1, <1>2, <1>3, <1>4 DEF SeekSteps

LEMMA TransportStep ==
    ASSUME TypeOK, Transport, [Next]_vars
    PROVE  Transport'
<1>1. /\ Seekers \cap (Casters \cup {"free"}) = {} /\ "free" \notin Casters
      /\ "player" \in Casters /\ "setter" \in Casters
  BY DlnaCasterAssumption DEF Casters
<1>2. ASSUME NEW c \in Casters, Commands(c), UNCHANGED seek
      PROVE  Transport'
  <2>1. \A d \in Casters \ {c} : cast'[d] = cast[d]
    BY <1>2 DEF Commands, Only
  <2>2. ASSUME NEW d \in Casters, cast'[d].pc \in Commanding
        PROVE  /\ transport' = d
               /\ cast'[d].pc \in {"play", "restore"} =>
                     device'.song = cast'[d].song /\ device'.gen = cast'[d].gen
    <3>1. CASE d = c
      BY <1>2, <2>2, <3>1 DEF Commands
    <3>2. CASE d # c
      <4>1. cast'[d] = cast[d] /\ transport = d
        BY <2>1, <2>2, <3>2 DEF Transport
      <4>2. cast[c].pc # "uri"
        BY <1>2, <3>2, <4>1 DEF Transport, Commanding
      <4>3. device'.song = device.song /\ device'.gen = device.gen /\ transport' = transport
        BY <1>1, <1>2, <3>2, <4>1, <4>2 DEF Commands
      <4> QED
        BY <4>1, <4>3 DEF Transport
    <3> QED
      BY <3>1, <3>2
  <2>3. ASSUME NEW s \in Seekers, seek'[s].pc \in {"sent", "executed"}
        PROVE  transport' = s
    <3>1. transport = s
      BY <1>2, <2>3 DEF Transport
    <3> QED
      BY <1>1, <1>2, <3>1 DEF Commands
  <2> QED
    BY <2>2, <2>3 DEF Transport, Commanding
<1>3. ASSUME NEW s \in Seekers, SeekSteps(s)
      PROVE  Transport'
  <2>1. /\ UNCHANGED <<cast, device>>
        /\ \A t \in Seekers \ {s} : seek'[t] = seek[t]
        /\ seek'[s].pc \in {"sent", "executed"} => transport' = s
        /\ transport' = transport \/ transport \in {"free", s}
    BY <1>3, SeekCommands
  <2> QED
    BY <1>1, <2>1 DEF Transport
<1>4. CASE UNCHANGED <<cast, seek, transport>> /\ device'.song = device.song /\ device'.gen = device.gen
  BY <1>4 DEF Transport
<1>5. CASE play_song \/ IsDropped
  <2>1. Commands("player") /\ UNCHANGED seek
    BY <1>5, PlayerCommands DEF play_song, IsDropped
  <2> QED
    BY <1>1, <1>2, <2>1
<1>6. CASE set_quality \/ PositionArrives \/ ChecksDirect \/ StoresQuality
  <2>1. Commands("setter") /\ UNCHANGED seek
    BY <1>6, SetterCommands DEF set_quality, PositionArrives, ChecksDirect, StoresQuality
  <2> QED
    BY <1>1, <1>2, <2>1
<1>7. ASSUME NEW c \in Casters, CastSteps(c)
      PROVE  Transport'
  <2>1. UNCHANGED seek
    BY <1>7 DEF CastSteps, Activates, CancelsPrevious, Prepared, ResolvesDirect, Locks,
         Stops, SetsUri, Plays, RestoresPosition
  <2> QED
    BY <1>2, <1>7, <2>1, StepCommands
<1>8. CASE toggle_pause
  <2>1. device'.song = device.song /\ device'.gen = device.gen
    BY <1>8, DeviceFields DEF toggle_pause, TypeOK, CastTypes
  <2> QED
    BY <1>4, <1>8, <2>1 DEF toggle_pause, castVars
<1>9. CASE \/ set_dlna_direct \/ SessionSteps \/ UNCHANGED vars
           \/ \E h \in Getters : GetterSteps(h)
           \/ \E stream \in streams : StreamEnds(stream)
  BY <1>4, <1>9 DEF set_dlna_direct, SessionSteps, GetterSteps, RequestArrives, Serves,
       RequestEnds, StreamEnds, castVars, vars
<1> QED
  BY <1>3, <1>5, <1>6, <1>7, <1>8, <1>9 DEF Next

LEMMA PlayerStartsStep ==
    ASSUME TypeOK, PlayerStarts, [Next]_vars
    PROVE  PlayerStarts'
<1>1. /\ SessionTypes /\ CastTypes /\ cast \in [Casters -> Cast]
      /\ "player" \in Casters /\ "setter" \in Casters /\ "setter" # "player"
      /\ IdleCast.pc = "idle" /\ IdleCast.position = NoSong
  BY DEF TypeOK, CastTypes, Casters, IdleCast
<1>2. ASSUME Only("player"), cast'["player"].position \in {NoSong, cast["player"].position},
             cast'["player"].pc \notin {"query", "set", "store", "restore"}
      PROVE  PlayerStarts'
  BY <1>2 DEF PlayerStarts
<1>3. ASSUME NEW ok, Returns("player", ok)
      PROVE  PlayerStarts'
  BY <1>1, <1>2, <1>3, ReturnsEffect
<1>4. ASSUME NEW pc \in CastPCs \ {"query", "set", "store", "restore"}, Goes("player", pc)
      PROVE  PlayerStarts'
  BY <1>1, <1>2, <1>4, GoesEffect
<1>5. CASE Only("setter")
  BY <1>1, <1>5 DEF PlayerStarts, Only
<1>6. CASE UNCHANGED cast
  BY <1>6 DEF PlayerStarts
<1>7. CASE play_song
  BY <1>1, <1>2, <1>7, PlaySongEffect
<1>8. CASE IsDropped
  BY <1>3, <1>8 DEF IsDropped
<1>9. CASE set_quality \/ PositionArrives \/ ChecksDirect \/ StoresQuality
  BY <1>1, <1>5, <1>9, SetterEffect
<1>10. CASE CastSteps("player")
  <2>1. CASE Activates("player")
    <3>1. Only("player") /\ cast'["player"].pc \in {"resolve", "cancel"}
          /\ cast'["player"].position = cast["player"].position
      BY <1>1, <2>1, ActivatesEffect
    <3> QED
      BY <1>2, <3>1
  <2>2. CASE \/ CancelsPrevious("player") \/ Prepared("player") \/ ResolvesDirect("player")
             \/ Locks("player") \/ Stops("player") \/ SetsUri("player")
    <3>1. \/ \E pc \in {"prepare", "lock", "stop", "uri", "play"} : Goes("player", pc)
          \/ Returns("player", FALSE)
      BY <2>2 DEF CancelsPrevious, Prepared, ResolvesDirect, Locks, Stops, SetsUri
    <3> QED
      BY <1>3, <1>4, <3>1 DEF CastPCs
  <2>3. CASE Plays("player")
    <3>1. Returns("player", TRUE) \/ Returns("player", FALSE)
      BY <2>3 DEF Plays, PlayerStarts
    <3> QED
      BY <1>3, <3>1
  <2>4. CASE RestoresPosition("player")
    BY <1>3, <2>4 DEF RestoresPosition
  <2> QED
    BY <1>10, <2>1, <2>2, <2>3, <2>4 DEF CastSteps
<1>11. CASE CastSteps("setter")
  <2>1. CASE Activates("setter")
    BY <1>1, <1>5, <2>1, ActivatesEffect
  <2>2. CASE ~Activates("setter")
    <3>1. \/ \E pc \in {"prepare", "lock", "stop", "uri", "play", "restore"} : Goes("setter", pc)
          \/ \E ok \in BOOLEAN : Returns("setter", ok)
      BY <1>11, <2>2 DEF CastSteps, CancelsPrevious, Prepared, ResolvesDirect, Locks, Stops,
           SetsUri, Plays, RestoresPosition
    <3>2. Only("setter")
      BY <1>1, <3>1, GoesEffect, ReturnsEffect DEF CastPCs
    <3> QED
      BY <1>5, <3>2
  <2> QED
    BY <2>1, <2>2
<1>12. CASE \/ set_dlna_direct \/ toggle_pause \/ SessionSteps \/ UNCHANGED vars
            \/ \E h \in Getters : GetterSteps(h)
            \/ \E stream \in streams : StreamEnds(stream)
            \/ \E s \in Seekers : SeekSteps(s)
  BY <1>6, <1>12 DEF set_dlna_direct, toggle_pause, SessionSteps, GetterSteps, RequestArrives,
       Serves, RequestEnds, StreamEnds, SeekSteps, SeekBegins, SeekLocks, SeekExecutes,
       SeekReturns, SeekFails, SeekEnds, castVars, vars
<1>13. \A c \in Casters : c \in {"player", "setter"}
  BY DEF Casters
<1> QED
  BY <1>7, <1>8, <1>9, <1>10, <1>11, <1>12, <1>13 DEF Next

\* The confirmed song is the one the renderer plays when its Play is accepted.
LEMMA ConfirmsStep ==
    ASSUME TypeOK, Transport, PlayerStarts, [Next]_vars, confirmed' # confirmed
    PROVE  device'.song = confirmed' /\ device'.playing
<1>1. /\ "player" \in Casters /\ device \in [song : Nat, gen : Nat, playing : BOOLEAN]
      /\ (cast["player"].pc = "play" => device.song = cast["player"].song)
      /\ cast["player"].pc # "restore"
  BY DEF TypeOK, CastTypes, Casters, Transport, PlayerStarts
<1>2. CASE \E c \in Casters : CastSteps(c)
  <2>1. PICK c \in Casters : CastSteps(c)
    BY <1>2
  <2>2. ~Returns(c, FALSE)
    BY DEF Returns
  <2>3. CASE RestoresPosition(c)
    BY <1>1, <2>2, <2>3 DEF RestoresPosition, Returns
  <2>4. CASE Plays(c)
    <3>1. /\ c = "player" /\ cast[c].pc = "play" /\ confirmed' = cast[c].song
          /\ device' = [device EXCEPT !.playing = TRUE]
      BY <2>2, <2>4 DEF Plays, Returns
    <3> QED
      BY <1>1, <3>1
  <2> QED
    BY <2>1, <2>2, <2>3, <2>4 DEF CastSteps, Activates, CancelsPrevious, Prepared,
       ResolvesDirect, Locks, Stops, SetsUri
<1>3. CASE ~\E c \in Casters : CastSteps(c)
  BY <1>3 DEF Next, play_song, set_quality, PositionArrives, ChecksDirect, StoresQuality,
     IsDropped, Returns, set_dlna_direct, toggle_pause, SessionSteps, GetterSteps,
     RequestArrives, Serves, RequestEnds, StreamEnds, SeekSteps, SeekBegins, SeekLocks,
     SeekExecutes, SeekReturns, SeekFails, SeekEnds, castVars, vars
<1> QED
  BY <1>2, <1>3

TransportInv == TypeOK /\ Transport /\ PlayerStarts

LEMMA TransportInvariant == Spec => []TransportInv
<1>1. Init => TransportInv
  <2> SUFFICES ASSUME Init PROVE TransportInv
    OBVIOUS
  <2>1. /\ \A c \in Casters : cast[c].pc = "idle" /\ cast[c].position = NoSong
        /\ \A s \in Seekers : seek[s].pc = "idle"
        /\ "player" \in Casters
    BY DEF Init, IdleCast, IdleSeek, Casters
  <2> QED
    BY <2>1, TypeInit DEF TransportInv, Transport, PlayerStarts, Commanding
<1>2. TransportInv /\ [Next]_vars => TransportInv'
  BY SessionTypesStep, CastTypesStep, SeekTypesStep, TransportStep, PlayerStartsStep
     DEF TypeOK, TransportInv
<1> QED
  BY <1>1, <1>2, PTL DEF Spec

\* Whoever is told that a song plays is told the truth, although quality switches
\* command the same renderer: the transport is kept from Stop to Play, and the
\* renderer plays what its holder told it.
THEOREM OkIsTrue == Spec => OkIsPlaying
<1>1. TransportInv /\ [Next]_vars => [confirmed' # confirmed => device'.song = confirmed' /\ device'.playing]_vars
  BY ConfirmsStep DEF TransportInv
<1> QED
  BY <1>1, TransportInvariant, PTL DEF Spec, OkIsPlaying

-----------------------------------------------------------------------------
(* The streams a seek retires.                                             *)

LEMMA CutoffsStep ==
    ASSUME TypeOK, Cutoffs, FreshStreamsSurvive, [Next]_vars
    PROVE  Cutoffs' /\ FreshStreamsSurvive'
<1>1. /\ SeekTypes /\ SeekTypes' /\ Len(sessions) \in Nat /\ Len(sessions) =< MaxGeneration
      /\ IdleSeek.pc = "idle" /\ MaxGeneration \in Nat
      /\ loaded_generation \in 0 .. Len(sessions)
  BY SeekTypesStep, LenProperties, MediaSessionsAssumption
     DEF TypeOK, SessionTypes, CastTypes, IdleSeek
<1>2. /\ \A g \in Generations : g \in 1 .. MaxGeneration
      /\ \A s \in Seekers : /\ seek[s] \in Seek /\ seek[s].gen \in 0 .. MaxGeneration
                            /\ seek[s].gen # NoGeneration => seek[s].gen \in 1 .. MaxGeneration
      /\ \A g \in 1 .. MaxGeneration : stream_id[g] \in Nat /\ stream_epoch[g] \in Nat
      /\ \A stream \in streams : stream.gen \in 1 .. MaxGeneration /\ stream.id \in Nat
  BY SMTT(40), <1>1 DEF SeekTypes, Seek, Stream, Generations, NoGeneration
<1>3. CASE UNCHANGED <<seek, stream_id, stream_epoch>> /\ streams' \subseteq streams
  BY <1>2, <1>3 DEF Cutoffs, FreshStreamsSurvive
<1>4. ASSUME NEW h \in Getters, Serves(h)
      PROVE  Cutoffs' /\ FreshStreamsSurvive'
  <2>1. /\ UNCHANGED <<seek, stream_epoch>>
        /\ \/ UNCHANGED <<stream_id, streams>>
           \/ \E g \in Generations :
                 /\ stream_id' = [stream_id EXCEPT ![g] = stream_id[g] + 1]
                 /\ streams' = streams \cup {[gen |-> g, id |-> stream_id[g] + 1, fresh |-> TRUE]}
    BY <1>4, ServesEffect
  <2>2. CASE UNCHANGED <<stream_id, streams>>
    BY <1>3, <2>1, <2>2
  <2>3. CASE ~UNCHANGED <<stream_id, streams>>
    <3>1. PICK g \in Generations :
              /\ stream_id' = [stream_id EXCEPT ![g] = stream_id[g] + 1]
              /\ streams' = streams \cup {[gen |-> g, id |-> stream_id[g] + 1, fresh |-> TRUE]}
      BY <2>1, <2>3
    <3> DEFINE new == [gen |-> g, id |-> stream_id[g] + 1, fresh |-> TRUE]
    <3>2. new.gen = g /\ new.id = stream_id[g] + 1 /\ streams' = streams \cup {new}
      BY <3>1
    <3> HIDE DEF new
    <3>3. /\ g \in 1 .. MaxGeneration /\ stream_id'[g] = stream_id[g] + 1
          /\ \A h2 \in 1 .. MaxGeneration : h2 # g => stream_id'[h2] = stream_id[h2]
      BY <1>1, <1>2, <3>1 DEF SeekTypes
    <3>4. \A h2 \in 1 .. MaxGeneration : stream_id[h2] =< stream_id'[h2] /\ stream_id'[h2] \in Nat
      BY <1>2, <3>3
    <3>5. FreshStreamsSurvive'
      BY <1>2, <2>1, <3>2, <3>3 DEF FreshStreamsSurvive, Cutoffs
    <3>6. \A k \in 1 .. MaxGeneration : stream_epoch'[k] =< stream_id'[k]
      BY <1>2, <2>1, <3>4 DEF Cutoffs
    <3>7. \A stream \in streams' : stream.id =< stream_id'[stream.gen]
      <4>1. ASSUME NEW stream \in streams
            PROVE  stream.id =< stream_id'[stream.gen]
        <5>1. stream.id \in Nat /\ stream.gen \in 1 .. MaxGeneration /\ stream.id =< stream_id[stream.gen]
          BY <1>2 DEF Cutoffs
        <5> QED
          BY <1>2, <3>4, <5>1
      <4> QED
        BY <1>2, <3>2, <3>3, <4>1
    <3>8. ASSUME NEW s \in Seekers, seek[s].pc \in {"sent", "executed"}, seek[s].gen # NoGeneration
          PROVE  /\ seek[s].cutoff =< stream_id'[seek[s].gen]
                 /\ seek[s].pc = "executed" =>
                       \A stream \in streams' : stream.fresh /\ stream.gen = seek[s].gen =>
                           seek[s].cutoff < stream.id
      <4>1. seek[s].cutoff \in Nat /\ seek[s].gen \in 1 .. MaxGeneration
            /\ seek[s].cutoff =< stream_id[seek[s].gen]
        BY <1>2, <3>8 DEF Cutoffs, Seek
      <4>2. seek[s].cutoff =< stream_id'[seek[s].gen]
        BY <1>2, <3>4, <4>1
      <4>3. new.gen = seek[s].gen => seek[s].cutoff < new.id
        BY <1>2, <3>2, <3>3, <4>1
      <4> QED
        BY <3>2, <3>8, <4>2, <4>3 DEF Cutoffs
    <3> QED
      BY <2>1, <3>5, <3>6, <3>7, <3>8 DEF Cutoffs
  <2> QED
    BY <2>2, <2>3
<1>5. ASSUME NEW s \in Seekers, SeekBegins(s)
      PROVE  Cutoffs' /\ FreshStreamsSurvive'
  <2>1. /\ \A t \in Seekers \ {s} : seek'[t] = seek[t]
        /\ seek'[s].pc = "lock" /\ UNCHANGED <<streams, stream_id, stream_epoch>>
    BY <1>5, SeekBeginsEffect DEF SeekBegins, streamVars
  <2> QED
    BY <2>1 DEF Cutoffs, FreshStreamsSurvive
<1>6. ASSUME NEW s \in Seekers, SeekLocks(s)
      PROVE  Cutoffs' /\ FreshStreamsSurvive'
  <2>1. /\ \A t \in Seekers \ {s} : seek'[t] = seek[t]
        /\ \/ seek'[s] = IdleSeek
           \/ /\ seek'[s].pc = "sent"
              /\ \/ seek'[s].gen = NoGeneration
                 \/ /\ get(loaded_generation) /\ seek'[s].gen = loaded_generation
                    /\ seek'[s].cutoff = stream_id[loaded_generation]
        /\ UNCHANGED <<streams, stream_id, stream_epoch>>
    BY <1>6, SeekLocksEffect DEF SeekLocks, streamVars
  <2>2. get(loaded_generation) => stream_id[loaded_generation] \in Nat
    BY <1>1, <1>2 DEF get, NoGeneration
  <2> QED
    BY <1>1, <2>1, <2>2 DEF Cutoffs, FreshStreamsSurvive
<1>7. ASSUME NEW s \in Seekers, SeekExecutes(s)
      PROVE  Cutoffs' /\ FreshStreamsSurvive'
  <2>1. /\ \A t \in Seekers \ {s} : seek'[t] = seek[t]
        /\ seek[s].pc = "sent" /\ seek'[s].gen = seek[s].gen /\ seek'[s].cutoff = seek[s].cutoff
        /\ \A new \in streams' : ~new.fresh
        /\ \A new \in streams' : \E old \in streams : new.gen = old.gen /\ new.id = old.id
        /\ UNCHANGED <<stream_id, stream_epoch>>
    BY <1>7, SeekExecutesEffect DEF SeekExecutes
  <2>2. \A stream \in streams' : stream.id =< stream_id[stream.gen]
    BY <2>1 DEF Cutoffs
  <2> QED
    BY <2>1, <2>2 DEF Cutoffs, FreshStreamsSurvive
<1>8. ASSUME NEW s \in Seekers, SeekReturns(s) \/ SeekFails(s)
      PROVE  Cutoffs' /\ FreshStreamsSurvive'
  <2>1. /\ seek' = [seek EXCEPT ![s] = IdleSeek] /\ UNCHANGED <<streams, stream_id>>
        /\ \/ UNCHANGED stream_epoch
           \/ seek[s].pc = "executed" /\ Retires(seek[s].gen, seek[s].cutoff)
    BY <1>8 DEF SeekReturns, SeekFails, SeekEnds
  <2>2. /\ \A t \in Seekers \ {s} : seek'[t] = seek[t]
        /\ seek'[s].pc = "idle"
    BY <1>1, <2>1, SetsSeek, IdleTypes DEF SeekTypes
  <2>3. ASSUME NEW g \in 1 .. MaxGeneration
        PROVE  /\ stream_epoch'[g] =< stream_id[g]
               /\ \A stream \in streams : stream.fresh /\ stream.gen = g => stream_epoch'[g] < stream.id
    <3>1. CASE UNCHANGED stream_epoch
      BY <3>1 DEF Cutoffs, FreshStreamsSurvive
    <3>2. CASE seek[s].pc = "executed" /\ Retires(seek[s].gen, seek[s].cutoff)
      <4>1. seek[s].gen \in 0 .. MaxGeneration /\ seek[s].cutoff \in Nat
        BY <1>2 DEF Seek
      <4>2. \/ stream_epoch'[g] = stream_epoch[g]
            \/ g = seek[s].gen /\ stream_epoch'[g] = seek[s].cutoff
        BY <1>1, <3>2, <4>1, RetiresEffect
      <4>3. CASE stream_epoch'[g] = stream_epoch[g]
        BY <4>3 DEF Cutoffs, FreshStreamsSurvive
      <4>4. CASE g = seek[s].gen /\ stream_epoch'[g] = seek[s].cutoff
        <5>1. seek[s].gen # NoGeneration
          BY <4>4 DEF NoGeneration
        <5> QED
          BY <3>2, <4>4, <5>1 DEF Cutoffs
      <4> QED
        BY <4>2, <4>3, <4>4
    <3> QED
      BY <2>1, <3>1, <3>2
  <2>4. FreshStreamsSurvive'
    BY <1>2, <2>1, <2>3 DEF FreshStreamsSurvive
  <2>5. Cutoffs'
    BY <2>1, <2>2, <2>3 DEF Cutoffs
  <2> QED
    BY <2>4, <2>5
<1>9. CASE \E s \in Seekers : SeekSteps(s)
  BY <1>5, <1>6, <1>7, <1>8, <1>9 DEF SeekSteps
<1>10. CASE \E stream \in streams : StreamEnds(stream)
  BY <1>3, <1>10 DEF StreamEnds
<1>11. CASE \/ play_song \/ set_quality \/ PositionArrives \/ ChecksDirect \/ StoresQuality
            \/ set_dlna_direct \/ toggle_pause \/ IsDropped \/ SessionSteps \/ UNCHANGED vars
  BY <1>3, <1>11 DEF play_song, set_quality, PositionArrives, ChecksDirect, StoresQuality,
       set_dlna_direct, toggle_pause, IsDropped, SessionSteps, streamVars, vars
<1>12. CASE \E c \in Casters : CastSteps(c)
  BY <1>3, <1>12 DEF CastSteps, Activates, CancelsPrevious, Prepared, ResolvesDirect, Locks,
         Stops, SetsUri, Plays, RestoresPosition, streamVars
<1>13. CASE \E h \in Getters : GetterSteps(h)
  BY <1>3, <1>4, <1>13 DEF GetterSteps, RequestArrives, RequestEnds, streamVars
<1> QED
  BY <1>9, <1>10, <1>11, <1>12, <1>13 DEF Next

\* A seek never retires a stream that the renderer opened for the new position,
\* however many seeks, streams and sessions there are.
THEOREM FreshOnesSurvive == Spec => []FreshStreamsSurvive
<1>1. Init => Cutoffs /\ FreshStreamsSurvive
  <2> SUFFICES ASSUME Init PROVE Cutoffs /\ FreshStreamsSurvive
    OBVIOUS
  <2>1. \A s \in Seekers : seek[s].pc = "idle"
    BY DEF Init, IdleSeek
  <2> QED
    BY <2>1 DEF Init, Cutoffs, FreshStreamsSurvive
<1>2. TypeOK /\ Cutoffs /\ FreshStreamsSurvive /\ [Next]_vars => (Cutoffs /\ FreshStreamsSurvive)'
  BY CutoffsStep
<1> QED
  BY <1>1, <1>2, TypeCorrect, PTL DEF Spec

-----------------------------------------------------------------------------
(* The caches of replaced sessions.                                        *)

LEMMA PreparesOnceStep ==
    ASSUME TypeOK, PreparesOnce, [Next]_vars
    PROVE  PreparesOnce'
<1>1. /\ SessionTypes /\ CastTypes /\ cast \in [Casters -> Cast] /\ prep \in [Preparers -> Prep]
      /\ Casters \subseteq Preparers /\ Getters \cap Casters = {}
      /\ "player" \in Casters /\ "setter" \in Casters
      /\ NotPreparing.pc = "idle" /\ IdleCast.pc = "idle"
  BY DlnaCasterAssumption DEF TypeOK, SessionTypes, CastTypes, Casters, NotPreparing, IdleCast
<1>2. ASSUME NEW c \in Casters, Only(c), UNCHANGED prep, cast[c].pc # "prepare"
      PROVE  PreparesOnce'
  BY <1>2 DEF PreparesOnce, Only
<1>3. ASSUME NEW c \in Casters, Only(c), prep' = [prep EXCEPT ![c] = NotPreparing]
      PROVE  PreparesOnce'
  BY <1>1, <1>3 DEF PreparesOnce, Only
<1>4. CASE UNCHANGED cast /\ \A c \in Casters : prep'[c] = prep[c]
  BY <1>4 DEF PreparesOnce
<1>5. ASSUME NEW c \in Casters, CastSteps(c)
      PROVE  PreparesOnce'
  <2>1. CASE Activates(c)
    <3>1. Only(c) /\ UNCHANGED prep /\ cast[c].pc = "activate"
      BY <1>1, <2>1, ActivatesEffect DEF Activates, sessionVars
    <3> QED
      BY <1>2, <3>1
  <2>2. CASE CancelsPrevious(c)
    <3>1. /\ Goes(c, "prepare") /\ "prepare" \in CastPCs
          /\ prep' = [prep EXCEPT ![c] = [pc |-> "prepare", gen |-> cast[c].gen]]
      BY <2>2 DEF CancelsPrevious, CastPCs
    <3>2. Only(c) /\ cast'[c].pc = "prepare" /\ \A d \in Casters \ {c} : prep'[d] = prep[d]
      BY <1>1, <3>1, GoesEffect
    <3> QED
      BY <3>2 DEF PreparesOnce, Only
  <2>3. CASE Prepared(c)
    <3>1. /\ Goes(c, "lock") \/ Returns(c, FALSE)
          /\ "lock" \in CastPCs /\ prep' = [prep EXCEPT ![c] = NotPreparing]
      BY <2>3 DEF Prepared, CastPCs
    <3>2. Only(c)
      BY <1>1, <3>1, GoesEffect, ReturnsEffect
    <3> QED
      BY <1>3, <3>1, <3>2
  <2>4. CASE ResolvesDirect(c) \/ Locks(c) \/ Stops(c) \/ SetsUri(c) \/ Plays(c) \/ RestoresPosition(c)
    <3>1. /\ UNCHANGED prep /\ cast[c].pc # "prepare"
          /\ \/ \E pc \in {"lock", "stop", "uri", "play", "restore"} : Goes(c, pc)
             \/ \E ok \in BOOLEAN : Returns(c, ok)
      BY <2>4 DEF ResolvesDirect, Locks, Stops, SetsUri, Plays, RestoresPosition, sessionVars
    <3>2. Only(c)
      BY <1>1, <3>1, GoesEffect, ReturnsEffect DEF CastPCs
    <3> QED
      BY <1>2, <3>1, <3>2
  <2> QED
    BY <1>5, <2>1, <2>2, <2>3, <2>4 DEF CastSteps
<1>6. CASE play_song
  BY <1>1, <1>2, <1>6, PlaySongEffect DEF play_song, sessionVars
<1>7. CASE set_quality \/ PositionArrives \/ ChecksDirect \/ StoresQuality
  <2>1. UNCHANGED prep
    BY <1>7 DEF set_quality, PositionArrives, ChecksDirect, StoresQuality, sessionVars
  <2> QED
    BY <1>1, <1>2, <1>7, <2>1, SetterEffect
<1>8. CASE IsDropped
  <2>1. Only("player") /\ prep' = [prep EXCEPT !["player"] = NotPreparing]
    BY <1>1, <1>8, ReturnsEffect DEF IsDropped
  <2> QED
    BY <1>1, <1>3, <2>1
<1>9. CASE SessionSteps
  <2>1. PICK p \in Preparers : PrepareSteps(p)
    BY <1>9 DEF SessionSteps
  <2>2. (\A q \in Preparers \ {p} : prep'[q] = prep[q]) /\ prep[p].pc # "idle" /\ UNCHANGED cast
    BY <1>1, <1>9, <2>1, PrepareEffect DEF SessionSteps, castVars
  <2> QED
    BY <1>1, <2>2 DEF PreparesOnce
<1>10. ASSUME NEW h \in Getters, GetterSteps(h)
       PROVE  PreparesOnce'
  <2>1. (\E r : prep' = [prep EXCEPT ![h] = r]) /\ UNCHANGED cast /\ h \notin Casters
    BY <1>1, <1>10 DEF GetterSteps, RequestArrives, Serves, RequestEnds, castVars
  <2> QED
    BY <1>1, <1>4, <2>1
<1>11. CASE \/ set_dlna_direct \/ toggle_pause \/ UNCHANGED vars
            \/ \E stream \in streams : StreamEnds(stream)
            \/ \E s \in Seekers : SeekSteps(s)
  <2>1. UNCHANGED <<cast, prep>>
    BY <1>11 DEF set_dlna_direct, toggle_pause, StreamEnds, SeekSteps, SeekBegins, SeekLocks,
       SeekExecutes, SeekReturns, SeekFails, SeekEnds, castVars, sessionVars, vars
  <2> QED
    BY <1>4, <2>1
<1> QED
  BY <1>5, <1>6, <1>7, <1>8, <1>9, <1>10, <1>11 DEF Next

\* A stopped session with a live cache, and who is going to cancel it.
Lives(g) == sessions[g].stopped /\ sessions[g].ready = "seekable" /\ ~sessions[g].cancelled
IsChecked(g) == \E p \in Preparers : prep[p].gen = g /\ prep[p].pc = "check"
IsCancelled(g) == \E c \in Casters : cast[c].pc = "cancel" /\ cast[c].previous = g

LEMMA NoOldCacheStep ==
    ASSUME TypeOK, PreparesOnce, NoOldCache, [Next]_vars
    PROVE  NoOldCache'
<1>1. /\ SessionTypes /\ CastTypes /\ cast \in [Casters -> Cast] /\ prep \in [Preparers -> Prep]
      /\ Casters \subseteq Preparers /\ Getters \subseteq Preparers
      /\ "player" \in Casters /\ "setter" \in Casters
      /\ Len(sessions) \in Nat /\ Len(sessions) =< MaxGeneration
  BY DlnaCasterAssumption, LenProperties DEF TypeOK, SessionTypes, CastTypes, Casters
<1>2. \A g \in Generations : Lives(g) => IsChecked(g) \/ IsCancelled(g)
  BY DEF NoOldCache, Lives, IsChecked, IsCancelled
<1>3. SUFFICES ASSUME NEW g \in Generations', Lives(g)'
               PROVE  IsChecked(g)' \/ IsCancelled(g)'
  BY DEF NoOldCache, Lives, IsChecked, IsCancelled, Generations
<1>4. ASSUME g \in Generations, Lives(g), NEW c \in Casters, Only(c), cast[c].pc # "cancel",
             \A p \in Preparers : prep[p].pc = "check" => prep'[p] = prep[p]
      PROVE  IsChecked(g)' \/ IsCancelled(g)'
  <2>1. IsChecked(g) => IsChecked(g)'
    BY <1>4 DEF IsChecked
  <2>2. IsCancelled(g) => IsCancelled(g)'
    BY <1>4 DEF IsCancelled, Only
  <2> QED
    BY <1>2, <1>4, <2>1, <2>2
<1>5. ASSUME UNCHANGED <<sessions, cast>>,
             \A p \in Preparers : prep[p].pc = "check" => prep'[p] = prep[p]
      PROVE  IsChecked(g)' \/ IsCancelled(g)'
  <2>1. g \in Generations /\ Lives(g)
    BY <1>3, <1>5 DEF Generations, Lives
  <2>2. IsChecked(g) => IsChecked(g)'
    BY <1>5 DEF IsChecked
  <2>3. IsCancelled(g) => IsCancelled(g)'
    BY <1>5 DEF IsCancelled
  <2> QED
    BY <1>2, <2>1, <2>2, <2>3
<1>6. ASSUME UNCHANGED sessions
      PROVE  g \in Generations /\ Lives(g)
  BY <1>3, <1>6 DEF Generations, Lives
<1>7. ASSUME NEW c \in Casters, CastSteps(c)
      PROVE  IsChecked(g)' \/ IsCancelled(g)'
  <2>1. CASE Activates(c)
    <3>0. /\ Only(c) /\ cast[c].pc = "activate" /\ UNCHANGED prep
          /\ \/ UNCHANGED sessions
             \/ /\ activate(cast[c].song)
                /\ cast'[c].pc = "cancel" /\ cast'[c].previous = current
      BY <1>1, <2>1, ActivatesEffect DEF Activates, sessionVars
    <3>1. CASE UNCHANGED sessions
      BY <1>4, <1>6, <3>0, <3>1
    <3>2. CASE activate(cast[c].song) /\ cast'[c].pc = "cancel" /\ cast'[c].previous = current
      <4>1. cast[c].song \in Nat
        BY <1>1 DEF Cast
      <4>2. /\ Len(sessions') = Len(sessions) + 1 /\ current' = Len(sessions')
            /\ \A h \in Generations :
                  /\ sessions'[h].stopped <=> sessions[h].stopped \/ h = current
                  /\ sessions'[h].ready = sessions[h].ready
                  /\ sessions'[h].cancelled = sessions[h].cancelled
            /\ sessions'[current'] = NewSession(cast[c].song)
        BY <1>1, <3>2, <4>1, ActivateEffect
      <4>3. g # current'
        BY <1>3, <4>2 DEF Lives, NewSession
      <4>4. g \in Generations
        BY <1>1, <1>3, <4>2, <4>3 DEF Generations
      <4>5. CASE g = current
        BY <3>2, <4>5 DEF IsCancelled
      <4>6. CASE g # current
        <5>1. Lives(g)
          BY <1>3, <4>2, <4>4, <4>6 DEF Lives
        <5> QED
          BY <1>4, <3>0, <4>4, <5>1
      <4> QED
        BY <4>5, <4>6
    <3> QED
      BY <3>0, <3>1, <3>2
  <2>2. CASE CancelsPrevious(c)
    <3>1. /\ cast[c].pc = "cancel" /\ Goes(c, "prepare") /\ "prepare" \in CastPCs
          /\ prep' = [prep EXCEPT ![c] = [pc |-> "prepare", gen |-> cast[c].gen]]
          /\ prep[c].pc = "idle" /\ cast[c].previous \in 0 .. Len(sessions)
      <4>1. cast[c].pc = "cancel" /\ Goes(c, "prepare") /\ "prepare" \in CastPCs
            /\ prep' = [prep EXCEPT ![c] = [pc |-> "prepare", gen |-> cast[c].gen]]
        BY <2>2 DEF CancelsPrevious, CastPCs
      <4>2. cast[c] \in Cast /\ cast[c].previous =< Len(sessions)
        BY <1>1 DEF CastTypes
      <4> QED
        BY <1>1, <4>1, <4>2 DEF PreparesOnce, Cast
    <3>2. Only(c)
      BY <1>1, <3>1, GoesEffect
    <3>3. \A p \in Preparers : prep[p].pc = "check" => prep'[p] = prep[p]
      BY <1>1, <3>1
    <3>4. g \in Generations /\ g # cast[c].previous /\ Lives(g)
      <4>1. CASE cast[c].previous = NoGeneration
        <5>1. UNCHANGED sessions
          BY <2>2, <4>1 DEF CancelsPrevious
        <5> QED
          BY <1>6, <4>1, <5>1 DEF Generations, NoGeneration
      <4>2. CASE cast[c].previous # NoGeneration
        <5>1. cast[c].previous \in Generations /\ sessions' = CancelCache(cast[c].previous)
          BY <1>1, <2>2, <3>1, <4>2 DEF Generations, NoGeneration, CancelsPrevious
        <5> DEFINE v == cast[c].previous
        <5>2. /\ Len(CancelCache(v)) = Len(sessions)
              /\ \A h \in Generations : h # v => CancelCache(v)[h] = sessions[h]
              /\ CancelCache(v)[v].ready = sessions[v].ready
              /\ CancelCache(v)[v].cancelled <=> sessions[v].cancelled \/ sessions[v].ready = "seekable"
          BY <1>1, <5>1, CancelEffect
        <5>3. g # v
          BY <1>3, <5>1, <5>2 DEF Lives
        <5> QED
          BY <1>3, <5>1, <5>2, <5>3 DEF Lives, Generations
      <4> QED
        BY <4>1, <4>2
    <3>5. CASE IsChecked(g)
      BY <3>3, <3>5 DEF IsChecked
    <3>6. CASE IsCancelled(g)
      BY <3>2, <3>4, <3>6 DEF IsCancelled, Only
    <3> QED
      BY <1>2, <3>4, <3>5, <3>6
  <2>3. CASE Prepared(c)
    <3>1. /\ cast[c].pc = "prepare" /\ UNCHANGED sessions
          /\ Goes(c, "lock") \/ Returns(c, FALSE)
          /\ prep[c].pc # "check" /\ prep' = [prep EXCEPT ![c] = NotPreparing]
      BY <2>3 DEF Prepared
    <3>2. Only(c) /\ \A p \in Preparers : prep[p].pc = "check" => prep'[p] = prep[p]
      BY <1>1, <3>1, GoesEffect, ReturnsEffect DEF CastPCs
    <3> QED
      BY <1>4, <1>6, <3>1, <3>2
  <2>4. CASE ResolvesDirect(c) \/ Locks(c) \/ Stops(c) \/ SetsUri(c) \/ Plays(c) \/ RestoresPosition(c)
    <3>1. /\ UNCHANGED prep /\ cast[c].pc # "cancel"
          /\ \/ \E pc \in {"lock", "stop", "uri", "play", "restore"} : Goes(c, pc)
             \/ \E ok \in BOOLEAN : Returns(c, ok)
          /\ UNCHANGED sessions \/ clear
      BY <2>4 DEF ResolvesDirect, Locks, Stops, SetsUri, Plays, RestoresPosition, sessionVars
    <3>2. Only(c)
      BY <1>1, <3>1, GoesEffect, ReturnsEffect DEF CastPCs
    <3>3. CASE UNCHANGED sessions
      BY <1>4, <1>6, <3>1, <3>2, <3>3
    <3>4. CASE clear
      <4>1. /\ Len(sessions') = Len(sessions)
            /\ \A h \in Generations :
                  /\ sessions'[h].stopped <=> sessions[h].stopped \/ h = current
                  /\ sessions'[h].ready = sessions[h].ready
                  /\ sessions'[h].cancelled
                        <=> sessions[h].cancelled \/ (h = current /\ sessions[h].ready = "seekable")
        BY <1>1, <3>4, ClearEffect
      <4>2. g \in Generations /\ g # current
        BY <1>3, <4>1 DEF Lives, Generations
      <4>3. Lives(g)
        BY <1>3, <4>1, <4>2 DEF Lives
      <4> QED
        BY <1>4, <3>1, <3>2, <4>2, <4>3
    <3> QED
      BY <3>1, <3>3, <3>4
  <2> QED
    BY <1>7, <2>1, <2>2, <2>3, <2>4 DEF CastSteps
<1>8. CASE play_song
  <2>1. UNCHANGED <<sessions, prep>>
    BY <1>8 DEF play_song, sessionVars
  <2> QED
    BY <1>1, <1>4, <1>6, <1>8, <2>1, PlaySongEffect
<1>9. CASE set_quality \/ PositionArrives \/ ChecksDirect \/ StoresQuality
  <2>1. UNCHANGED <<sessions, prep>>
    BY <1>9 DEF set_quality, PositionArrives, ChecksDirect, StoresQuality, sessionVars
  <2> QED
    BY <1>1, <1>4, <1>6, <1>9, <2>1, SetterEffect
<1>10. CASE IsDropped
  <2>1. /\ UNCHANGED sessions /\ cast["player"].pc # "cancel" /\ prep["player"].pc # "check"
        /\ Returns("player", FALSE) /\ prep' = [prep EXCEPT !["player"] = NotPreparing]
    BY <1>10 DEF IsDropped
  <2>2. Only("player") /\ \A p \in Preparers : prep[p].pc = "check" => prep'[p] = prep[p]
    BY <1>1, <2>1, ReturnsEffect
  <2> QED
    BY <1>1, <1>4, <1>6, <2>1, <2>2
<1>11. CASE SessionSteps
  <2>1. PICK p \in Preparers : PrepareSteps(p)
    BY <1>11 DEF SessionSteps
  <2>2. /\ Len(sessions') = Len(sessions) /\ prep' \in [Preparers -> Prep] /\ UNCHANGED cast
        /\ \A q \in Preparers \ {p} : prep'[q] = prep[q]
        /\ prep[p].pc # "idle" /\ prep'[p].gen = prep[p].gen
        /\ \A h \in Generations :
              /\ sessions'[h].stopped = sessions[h].stopped
              /\ sessions[h].cancelled => sessions'[h].cancelled
              /\ \/ sessions'[h].ready = sessions[h].ready
                 \/ h = prep[p].gen /\ prep'[p].pc = "check"
        /\ prep[p].pc = "check" =>
              \/ ~sessions[prep[p].gen].stopped
              \/ sessions'[prep[p].gen].ready = "seekable" => sessions'[prep[p].gen].cancelled
    BY <1>1, <1>11, <2>1, PrepareEffect DEF SessionSteps, castVars
  <2>3. g \in Generations
    BY <1>3, <2>2 DEF Generations
  <2>4. CASE g = prep[p].gen /\ prep'[p].pc = "check"
    BY <2>2, <2>4 DEF IsChecked
  <2>5. CASE ~(g = prep[p].gen /\ prep'[p].pc = "check")
    <3>1. Lives(g)
      BY <1>3, <2>2, <2>3, <2>5 DEF Lives
    <3>2. CASE IsCancelled(g)
      BY <2>2, <3>2 DEF IsCancelled
    <3>3. CASE IsChecked(g)
      <4>1. PICK q \in Preparers : prep[q].gen = g /\ prep[q].pc = "check"
        BY <3>3 DEF IsChecked
      <4>2. q # p
        BY <1>3, <2>2, <2>3, <3>1, <4>1 DEF Lives
      <4> QED
        BY <2>2, <4>1, <4>2 DEF IsChecked
    <3> QED
      BY <1>2, <2>3, <3>1, <3>2, <3>3
  <2> QED
    BY <2>4, <2>5
<1>12. ASSUME NEW h \in Getters, GetterSteps(h)
       PROVE  IsChecked(g)' \/ IsCancelled(g)'
  <2>1. UNCHANGED <<sessions, cast>> /\ prep[h].pc # "check" /\ \E r : prep' = [prep EXCEPT ![h] = r]
    BY <1>12 DEF GetterSteps, RequestArrives, Serves, RequestEnds, castVars
  <2> QED
    BY <1>1, <1>5, <2>1
<1>13. CASE \/ set_dlna_direct \/ toggle_pause \/ UNCHANGED vars
            \/ \E stream \in streams : StreamEnds(stream)
            \/ \E s \in Seekers : SeekSteps(s)
  <2>1. UNCHANGED <<sessions, cast, prep>>
    BY <1>13 DEF set_dlna_direct, toggle_pause, StreamEnds, SeekSteps, SeekBegins, SeekLocks,
       SeekExecutes, SeekReturns, SeekFails, SeekEnds, castVars, sessionVars, vars
  <2> QED
    BY <1>5, <2>1
<1> QED
  BY <1>7, <1>8, <1>9, <1>10, <1>11, <1>12, <1>13 DEF Next

\* Whatever fills the cell of a session while it is being replaced, its cache is
\* cancelled or somebody is about to do so, for any number of requests.
THEOREM OldCachesGo == Spec => []NoOldCache
<1>1. Init => PreparesOnce /\ NoOldCache
  <2> SUFFICES ASSUME Init PROVE PreparesOnce /\ NoOldCache
    OBVIOUS
  <2>1. Casters \subseteq Preparers /\ NotPreparing.pc = "idle"
    BY DlnaCasterAssumption DEF NotPreparing
  <2> QED
    BY <2>1 DEF Init, SessionsInit, PreparesOnce, NoOldCache, Generations
<1>2. TypeOK /\ PreparesOnce /\ NoOldCache /\ [Next]_vars => (PreparesOnce /\ NoOldCache)'
  BY PreparesOnceStep, NoOldCacheStep
<1> QED
  BY <1>1, <1>2, TypeCorrect, PTL DEF Spec

-----------------------------------------------------------------------------
(* The sessions and the song a seek is meant for.                          *)

\* Only the current session is not stopped, and a stopped one stays so.
LEMMA SessionsInOrder ==
    ASSUME TypeOK, OthersStopped, [Next]_vars
    PROVE  /\ OthersStopped'
           /\ \A g \in Generations : g \in Generations' /\ (is_stopped(g) => is_stopped(g)')
<1>1. SessionTypes /\ CastTypes /\ cast \in [Casters -> Cast] /\ Len(sessions) \in Nat
  BY LenProperties DEF TypeOK, SessionTypes, CastTypes
<1>2. CASE UNCHANGED <<sessions, current>>
  BY <1>2 DEF OthersStopped, is_stopped, Generations
<1>3. ASSUME NEW c \in Casters, Activates(c)
      PROVE  /\ OthersStopped'
             /\ \A g \in Generations : g \in Generations' /\ (is_stopped(g) => is_stopped(g)')
  <2>1. UNCHANGED <<sessions, current>> \/ activate(cast[c].song)
    BY <1>3 DEF Activates, sessionVars
  <2>2. CASE activate(cast[c].song)
    <3>1. cast[c].song \in Nat
      BY <1>1 DEF Cast
    <3>2. /\ Len(sessions') = Len(sessions) + 1 /\ current' = Len(sessions')
          /\ \A g \in Generations : sessions'[g].stopped <=> sessions[g].stopped \/ g = current
      BY <1>1, <2>2, <3>1, ActivateEffect
    <3> QED
      BY <1>1, <3>2 DEF OthersStopped, is_stopped, Generations
  <2> QED
    BY <1>2, <2>1, <2>2
<1>4. ASSUME NEW c \in Casters, CancelsPrevious(c)
      PROVE  /\ OthersStopped'
             /\ \A g \in Generations : g \in Generations' /\ (is_stopped(g) => is_stopped(g)')
  <2>1. cast[c] \in Cast /\ cast[c].previous =< Len(sessions) /\ current' = current
    BY <1>1, <1>4 DEF CastTypes, CancelsPrevious
  <2>2. CASE cast[c].previous = NoGeneration
    BY <1>2, <1>4, <2>1, <2>2 DEF CancelsPrevious
  <2>3. CASE cast[c].previous # NoGeneration
    <3> DEFINE v == cast[c].previous
    <3>1. v \in Generations /\ sessions' = CancelCache(v)
      BY <1>1, <1>4, <2>1, <2>3 DEF Generations, NoGeneration, CancelsPrevious, Cast
    <3>2. /\ Len(CancelCache(v)) = Len(sessions)
          /\ \A h \in Generations : h # v => CancelCache(v)[h] = sessions[h]
          /\ CancelCache(v)[v].stopped = sessions[v].stopped
      BY <1>1, <3>1, CancelEffect
    <3> HIDE DEF v
    <3> QED
      BY <2>1, <3>1, <3>2 DEF OthersStopped, is_stopped, Generations
  <2> QED
    BY <2>2, <2>3
<1>5. ASSUME NEW c \in Casters, Stops(c)
      PROVE  /\ OthersStopped'
             /\ \A g \in Generations : g \in Generations' /\ (is_stopped(g) => is_stopped(g)')
  <2>1. CASE UNCHANGED <<sessions, current>>
    BY <1>2, <2>1
  <2>2. CASE clear
    <3>1. /\ Len(sessions') = Len(sessions) /\ current' = NoGeneration
          /\ \A g \in Generations : sessions'[g].stopped <=> sessions[g].stopped \/ g = current
      BY <1>1, <2>2, ClearEffect
    <3> QED
      BY <3>1 DEF OthersStopped, is_stopped, Generations
  <2> QED
    BY <1>5, <2>1, <2>2 DEF Stops
<1>6. CASE SessionSteps
  <2>1. PICK p \in Preparers : PrepareSteps(p)
    BY <1>6 DEF SessionSteps
  <2>2. /\ Len(sessions') = Len(sessions) /\ current' = current
        /\ \A g \in Generations : sessions'[g].stopped = sessions[g].stopped
    BY <1>1, <2>1, PrepareEffect
  <2> QED
    BY <2>2 DEF OthersStopped, is_stopped, Generations
<1>7. ASSUME NEW c \in Casters, CastSteps(c)
      PROVE  /\ OthersStopped'
             /\ \A g \in Generations : g \in Generations' /\ (is_stopped(g) => is_stopped(g)')
  <2>1. CASE Prepared(c) \/ ResolvesDirect(c) \/ Locks(c) \/ SetsUri(c) \/ Plays(c) \/ RestoresPosition(c)
    BY <1>2, <2>1 DEF Prepared, ResolvesDirect, Locks, SetsUri, Plays, RestoresPosition, sessionVars
  <2> QED
    BY <1>3, <1>4, <1>5, <1>7, <2>1 DEF CastSteps
<1>8. CASE \/ play_song \/ set_quality \/ PositionArrives \/ ChecksDirect \/ StoresQuality
           \/ set_dlna_direct \/ toggle_pause \/ IsDropped \/ UNCHANGED vars
           \/ \E h \in Getters : GetterSteps(h)
           \/ \E stream \in streams : StreamEnds(stream)
           \/ \E s \in Seekers : SeekSteps(s)
  BY <1>2, <1>8 DEF play_song, set_quality, PositionArrives, ChecksDirect, StoresQuality,
     IsDropped, set_dlna_direct, toggle_pause, GetterSteps, RequestArrives, Serves, RequestEnds,
     StreamEnds, SeekSteps, SeekBegins, SeekLocks, SeekExecutes, SeekReturns, SeekFails,
     SeekEnds, sessionVars, vars
<1> QED
  BY <1>6, <1>7, <1>8 DEF Next

\* The loads' turns, and what the renderer plays, are one invariant.
TurnInv == OthersStopped /\ LoadedPlays /\ \A c \in Casters : InTurn(c)

LEMMA LoadedStays ==
    ASSUME TypeOK, TurnInv, [Next]_vars, UNCHANGED loaded_generation, device'.gen = device.gen
    PROVE  LoadedPlays'
<1>1. loaded_generation # NoGeneration => loaded_generation \in Generations
  BY LenProperties DEF TypeOK, SessionTypes, CastTypes, Generations, NoGeneration
<1> QED
  BY <1>1, SessionsInOrder DEF TurnInv, LoadedPlays

\* The step of a load that has no session of its own, or keeps the one it had.
LEMMA OthersInTurn ==
    ASSUME TurnInv, NEW c \in Casters, Only(c), UNCHANGED loaded_generation,
           cast'[c].gen \in {NoGeneration, cast[c].gen}
    PROVE  \A d \in Casters \ {c} : InTurn(d)'
BY DEF TurnInv, InTurn, InSession, Only

\* It has sent SetAVTransportURI: the session that was loaded is stopped.
LEMMA UriReplaces ==
    ASSUME TypeOK, TurnInv, [Next]_vars, UNCHANGED loaded_generation,
           NEW c \in Casters, cast[c].pc = "uri", device'.gen = cast[c].gen
    PROVE  LoadedPlays'
<1>1. /\ current \in {0, Len(sessions)} /\ Len(sessions) \in Nat
      /\ loaded_generation \in 0 .. Len(sessions)
      /\ cast[c] \in Cast /\ cast[c].gen =< Len(sessions)
  BY LenProperties DEF TypeOK, SessionTypes, CastTypes, NoGeneration
<1>2. CASE loaded_generation = NoGeneration
  BY <1>2 DEF LoadedPlays
<1>3. CASE loaded_generation # NoGeneration
  <2>1. cast[c].gen # NoGeneration /\ loaded_generation < cast[c].gen
    BY <1>3 DEF TurnInv, InTurn, InSession
  <2>2. loaded_generation \in Generations /\ loaded_generation # current
    BY <1>1, <1>3, <2>1 DEF Generations, NoGeneration, Cast
  <2>3. is_stopped(loaded_generation)
    BY <2>2 DEF TurnInv, OthersStopped
  <2> QED
    BY <2>2, <2>3, SessionsInOrder DEF TurnInv, LoadedPlays
<1> QED
  BY <1>2, <1>3

\* The steps of a load, one after the other.
LEMMA LoadInTurn ==
    ASSUME TypeOK, Transport, TurnInv, [Next]_vars, NEW c \in Casters, CastSteps(c)
    PROVE  LoadedPlays' /\ \A d \in Casters : InTurn(d)'
<1>1. /\ SessionTypes /\ CastTypes /\ cast \in [Casters -> Cast] /\ cast[c] \in Cast
      /\ Len(sessions) \in Nat /\ current \in {0, Len(sessions)}
      /\ loaded_generation \in 0 .. Len(sessions)
      /\ IdleCast.pc = "idle" /\ IdleCast.gen = NoGeneration
      /\ device \in [song : Nat, gen : Nat, playing : BOOLEAN]
      /\ cast[c].song \in Nat /\ cast[c].gen \in Nat
  BY LenProperties DEF TypeOK, SessionTypes, CastTypes, IdleCast, NoGeneration, Cast
<1>2. /\ InTurn(c) /\ (cast[c].pc \in Commanding => \A d \in Casters \ {c} : cast[d].pc \notin Commanding)
      /\ (cast[c].pc \in {"play", "restore"} => device.gen = cast[c].gen)
      /\ \A d \in Casters : cast[d].gen =< Len(sessions) /\ cast[d] \in Cast
  BY <1>1 DEF TurnInv, Transport, CastTypes
<1>3. ASSUME Only(c), cast'[c] = IdleCast, UNCHANGED loaded_generation
      PROVE  \A d \in Casters : InTurn(d)'
  <2>1. InTurn(c)'
    BY <1>1, <1>3 DEF InTurn, InSession
  <2>2. \A d \in Casters \ {c} : InTurn(d)'
    BY <1>1, <1>3, OthersInTurn
  <2> QED
    BY <2>1, <2>2
<1>4. ASSUME NEW pc \in CastPCs, Goes(c, pc), UNCHANGED loaded_generation,
             pc \notin {"query", "set", "store", "activate", "resolve"},
             InSession(c) /\ pc # "restore" => cast[c].gen # loaded_generation,
             InSession(c) /\ pc \in {"stop", "uri", "play"} => loaded_generation < cast[c].gen,
             ~InSession(c) /\ pc \in {"uri", "play"} => loaded_generation = NoGeneration
      PROVE  \A d \in Casters : InTurn(d)'
  <2>1. Only(c) /\ cast'[c].pc = pc /\ cast'[c].gen = cast[c].gen
    BY <1>1, <1>4, GoesEffect
  <2>2. InTurn(c)'
    BY <1>2, <1>4, <2>1 DEF InTurn, InSession, Only
  <2>3. \A d \in Casters \ {c} : InTurn(d)'
    BY <1>4, <2>1, OthersInTurn
  <2> QED
    BY <2>2, <2>3
<1>5. CASE Activates(c)
  <2>1. /\ Only(c) /\ UNCHANGED <<loaded_generation, device>> /\ cast[c].gen = NoGeneration
        /\ \/ cast'[c].pc = "resolve" /\ cast'[c].gen = cast[c].gen
           \/ activate(cast[c].song) /\ cast'[c].pc = "cancel" /\ cast'[c].gen = current'
    BY <1>1, <1>2, <1>5, ActivatesEffect DEF Activates, InTurn, InSession
  <2>2. LoadedPlays'
    BY <2>1, LoadedStays
  <2>3. CASE cast'[c].pc = "resolve" /\ cast'[c].gen = cast[c].gen
    <3>1. InTurn(c)'
      BY <2>1, <2>3 DEF InTurn, InSession
    <3>2. \A d \in Casters \ {c} : InTurn(d)'
      BY <2>1, <2>3, OthersInTurn
    <3> QED
      BY <2>2, <3>1, <3>2
  <2>4. CASE activate(cast[c].song) /\ cast'[c].pc = "cancel" /\ cast'[c].gen = current'
    <3>1. current' = Len(sessions) + 1
      BY <1>1, <2>4, ActivateEffect
    <3>2. InTurn(c)'
      BY <1>1, <1>2, <2>1, <2>4, <3>1 DEF InTurn, InSession, Only
    <3>3. ASSUME NEW d \in Casters, d # c
          PROVE  InTurn(d)'
      <4>1. cast'[d] = cast[d] /\ cast'[d].gen # cast'[c].gen
        BY <1>1, <1>2, <2>1, <2>4, <3>1, <3>3 DEF Only
      <4>2. InTurn(d)
        BY DEF TurnInv
      <4> QED
        BY <2>1, <4>1, <4>2 DEF InTurn, InSession, Only
    <3> QED
      BY <2>2, <3>2, <3>3
  <2> QED
    BY <2>1, <2>3, <2>4
<1>6. CASE CancelsPrevious(c) \/ Prepared(c) \/ ResolvesDirect(c) \/ RestoresPosition(c)
  <2>1. UNCHANGED loaded_generation /\ device'.gen = device.gen
    BY <1>6 DEF CancelsPrevious, Prepared, ResolvesDirect, RestoresPosition
  <2>2. LoadedPlays'
    BY <2>1, LoadedStays
  <2>3. \/ \E pc \in {"prepare", "lock"} : Goes(c, pc) /\ cast[c].pc # "restore"
        \/ \E ok \in BOOLEAN : Returns(c, ok)
    BY <1>6 DEF CancelsPrevious, Prepared, ResolvesDirect, RestoresPosition
  <2>4. CASE \E pc \in {"prepare", "lock"} : Goes(c, pc) /\ cast[c].pc # "restore"
    <3>1. InSession(c) => cast[c].gen # loaded_generation
      BY <1>2, <2>4 DEF InTurn
    <3> QED
      BY <1>4, <2>1, <2>2, <2>4, <3>1 DEF CastPCs
  <2>5. CASE \E ok \in BOOLEAN : Returns(c, ok)
    BY <1>1, <1>3, <2>1, <2>2, <2>5, ReturnsEffect
  <2> QED
    BY <2>3, <2>4, <2>5
<1>7. CASE Locks(c)
  <2>1. /\ UNCHANGED loaded_generation /\ device'.gen = device.gen /\ cast[c].pc = "lock"
        /\ \/ Goes(c, "stop") /\ ~Replaced(c)
           \/ Returns(c, FALSE)
    BY <1>7 DEF Locks
  <2>2. LoadedPlays'
    BY <2>1, LoadedStays
  <2>3. CASE Goes(c, "stop") /\ ~Replaced(c)
    <3>1. InSession(c) => loaded_generation < cast[c].gen
      <4>1. ASSUME InSession(c)
            PROVE  loaded_generation < cast[c].gen
        <5>1. cast[c].gen \in Generations /\ ~is_stopped(cast[c].gen)
          BY <1>1, <1>2, <2>3, <4>1 DEF Generations, Replaced, InSession, NoGeneration
        <5>2. cast[c].gen = Len(sessions)
          BY <1>1, <5>1 DEF TurnInv, OthersStopped, Generations
        <5>3. cast[c].gen # loaded_generation
          BY <1>2, <2>1, <4>1 DEF InTurn
        <5> QED
          BY <1>1, <5>2, <5>3
      <4> QED
        BY <4>1
    <3>2. InSession(c) => cast[c].gen # loaded_generation
      BY <1>2, <2>1 DEF InTurn
    <3> QED
      BY <1>4, <2>1, <2>2, <2>3, <3>1, <3>2 DEF CastPCs
  <2>4. CASE Returns(c, FALSE)
    BY <1>1, <1>3, <2>1, <2>2, <2>4, ReturnsEffect
  <2> QED
    BY <2>1, <2>3, <2>4
<1>8. CASE Stops(c)
  <2>1. /\ cast[c].pc = "stop" /\ device'.gen = device.gen
        /\ \/ Returns(c, FALSE) /\ UNCHANGED loaded_generation
           \/ Goes(c, "uri") /\ InSession(c) /\ UNCHANGED loaded_generation
           \/ Goes(c, "uri") /\ ~InSession(c) /\ loaded_generation' = NoGeneration
    BY <1>1, <1>8, DeviceFields DEF Stops
  <2>2. CASE Returns(c, FALSE) /\ UNCHANGED loaded_generation
    BY <1>1, <1>3, <2>1, <2>2, ReturnsEffect, LoadedStays
  <2>3. CASE Goes(c, "uri") /\ InSession(c) /\ UNCHANGED loaded_generation
    <3>1. loaded_generation < cast[c].gen /\ cast[c].gen # loaded_generation
      BY <1>2, <2>1, <2>3 DEF InTurn
    <3> QED
      BY <1>4, <2>1, <2>3, <3>1, LoadedStays DEF CastPCs
  <2>4. CASE Goes(c, "uri") /\ ~InSession(c) /\ loaded_generation' = NoGeneration
    <3>1. LoadedPlays'
      BY <2>4 DEF LoadedPlays
    <3>2. Only(c) /\ cast'[c].pc = "uri" /\ cast'[c].gen = cast[c].gen
      BY <1>1, <2>4, GoesEffect DEF CastPCs
    <3>3. InTurn(c)'
      BY <2>4, <3>2 DEF InTurn, InSession
    <3>4. ASSUME NEW d \in Casters, d # c
          PROVE  InTurn(d)'
      <4>1. /\ cast'[d] = cast[d] /\ InTurn(d) /\ cast'[c].gen = NoGeneration
            /\ cast[d].pc \notin {"stop", "uri", "play"}
        BY <1>2, <2>1, <2>4, <3>2, <3>4 DEF Only, TurnInv, InSession, Commanding
      <4>2. \A e \in Casters \ {d} : cast'[e].gen = cast[e].gen
        BY <3>2, <3>4 DEF Only
      <4> QED
        BY <2>4, <4>1, <4>2 DEF InTurn, InSession
    <3> QED
      BY <3>1, <3>3, <3>4
  <2> QED
    BY <2>1, <2>2, <2>3, <2>4
<1>9. CASE SetsUri(c)
  <2>1. /\ cast[c].pc = "uri" /\ UNCHANGED loaded_generation
        /\ device'.gen \in {device.gen, cast[c].gen}
        /\ Goes(c, "play") \/ Returns(c, FALSE)
    BY <1>1, <1>9, DeviceFields DEF SetsUri
  <2>2. LoadedPlays'
    BY <2>1, LoadedStays, UriReplaces
  <2>3. CASE Goes(c, "play")
    <3>1. /\ InSession(c) => loaded_generation < cast[c].gen /\ cast[c].gen # loaded_generation
          /\ ~InSession(c) => loaded_generation = NoGeneration
      BY <1>2, <2>1 DEF InTurn
    <3> QED
      BY <1>4, <2>1, <2>2, <2>3, <3>1 DEF CastPCs
  <2>4. CASE Returns(c, FALSE)
    BY <1>1, <1>3, <2>1, <2>2, <2>4, ReturnsEffect
  <2> QED
    BY <2>1, <2>3, <2>4
<1>10. CASE Plays(c)
  <2>1. /\ cast[c].pc = "play" /\ device'.gen = device.gen /\ device.gen = cast[c].gen
        /\ \/ UNCHANGED loaded_generation
           \/ InSession(c) /\ loaded_generation' = cast[c].gen
        /\ Goes(c, "restore") \/ \E ok \in BOOLEAN : Returns(c, ok)
    BY <1>1, <1>2, <1>10, DeviceFields DEF Plays
  <2>2. /\ Only(c) /\ cast'[c].pc \in {"restore", "idle"}
        /\ \/ cast'[c].gen = cast[c].gen /\ cast'[c].pc = "restore"
           \/ cast'[c].gen = NoGeneration
    BY <1>1, <2>1, GoesEffect, ReturnsEffect DEF CastPCs
  <2>3. LoadedPlays'
    BY <2>1, LoadedStays DEF LoadedPlays
  <2>4. InTurn(c)'
    BY <1>2, <2>2 DEF InTurn, InSession, Only
  <2>5. ASSUME NEW d \in Casters, d # c
        PROVE  InTurn(d)'
    <3>1. /\ cast'[d] = cast[d] /\ InTurn(d)
          /\ cast[d].pc \notin {"stop", "uri", "play"}
      BY <1>2, <2>1, <2>2, <2>5 DEF Only, TurnInv, Commanding
    <3>2. \A e \in Casters \ {d} : cast'[e].gen \in {NoGeneration, cast[e].gen}
      BY <2>2, <2>5 DEF Only
    <3>3. InSession(d) => cast[d].gen # loaded_generation' \/ cast[d].pc = "restore"
      BY <2>1, <2>5, <3>1 DEF InTurn, InSession
    <3> QED
      BY <3>1, <3>2, <3>3 DEF InTurn, InSession
  <2> QED
    BY <2>3, <2>4, <2>5
<1> QED
  BY <1>5, <1>6, <1>7, <1>8, <1>9, <1>10 DEF CastSteps

LEMMA TurnStep ==
    ASSUME TypeOK, Transport, TurnInv, [Next]_vars
    PROVE  TurnInv'
<1>1. /\ SessionTypes /\ CastTypes /\ cast \in [Casters -> Cast]
      /\ "player" \in Casters /\ "setter" \in Casters
      /\ IdleCast.pc = "idle" /\ IdleCast.gen = NoGeneration
      /\ device \in [song : Nat, gen : Nat, playing : BOOLEAN]
      /\ cast["player"].song \in Nat /\ cast["player"].gen \in Nat
  BY DEF TypeOK, CastTypes, Casters, IdleCast, Cast
<1>2. SUFFICES LoadedPlays' /\ \A c \in Casters : InTurn(c)'
  BY SessionsInOrder DEF TurnInv
<1>3. ASSUME UNCHANGED <<loaded_generation, cast>>, device'.gen = device.gen
      PROVE  LoadedPlays' /\ \A c \in Casters : InTurn(c)'
  <2>1. \A c \in Casters : InTurn(c)'
    BY <1>3 DEF TurnInv, InTurn, InSession
  <2> QED
    BY <1>3, <2>1, LoadedStays
<1>4. ASSUME NEW c \in Casters, Only(c), cast'[c].gen = NoGeneration,
             cast'[c].pc \notin {"uri", "play"}, UNCHANGED loaded_generation
      PROVE  \A d \in Casters : InTurn(d)'
  <2>1. InTurn(c)'
    BY <1>4 DEF InTurn, InSession
  <2>2. \A d \in Casters \ {c} : InTurn(d)'
    BY <1>4, OthersInTurn
  <2> QED
    BY <2>1, <2>2
<1>5. CASE play_song
  <2>1. /\ Only("player") /\ cast'["player"].pc = "activate" /\ cast'["player"].gen = NoGeneration
        /\ UNCHANGED <<loaded_generation, device>>
    BY <1>1, <1>5, PlaySongEffect DEF play_song
  <2> QED
    BY <1>1, <1>4, <2>1, LoadedStays
<1>6. CASE set_quality \/ PositionArrives \/ ChecksDirect \/ StoresQuality
  <2>1. UNCHANGED <<loaded_generation, device>>
    BY <1>6 DEF set_quality, PositionArrives, ChecksDirect, StoresQuality
  <2>2. InTurn("setter")
    BY <1>1 DEF TurnInv
  <2>3. /\ Only("setter") /\ cast'["setter"].gen = NoGeneration
        /\ cast'["setter"].pc \notin {"uri", "play"}
    BY <1>1, <1>6, <2>2, SetterEffect DEF InTurn, InSession
  <2> QED
    BY <1>1, <1>4, <2>1, <2>3, LoadedStays
<1>7. CASE IsDropped
  <2>1. UNCHANGED loaded_generation /\ Only("player") /\ cast'["player"] = IdleCast
    BY <1>1, <1>7, ReturnsEffect DEF IsDropped
  <2>2. \/ device'.gen = device.gen
        \/ cast["player"].pc = "uri" /\ device'.gen = cast["player"].gen
    BY <1>1, <1>7, DeviceFields DEF IsDropped
  <2>3. LoadedPlays'
    BY <1>1, <2>1, <2>2, LoadedStays, UriReplaces
  <2> QED
    BY <1>1, <1>4, <2>1, <2>3
<1>8. CASE \E c \in Casters : CastSteps(c)
  BY <1>8, LoadInTurn
<1>9. CASE toggle_pause
  BY <1>1, <1>3, <1>9, DeviceFields DEF toggle_pause, castVars
<1>10. CASE \/ set_dlna_direct \/ SessionSteps \/ UNCHANGED vars
            \/ \E h \in Getters : GetterSteps(h)
            \/ \E stream \in streams : StreamEnds(stream)
            \/ \E s \in Seekers : SeekSteps(s)
  <2>1. UNCHANGED <<loaded_generation, cast, device>>
    BY <1>10 DEF set_dlna_direct, SessionSteps, GetterSteps, RequestArrives, Serves, RequestEnds,
       StreamEnds, SeekSteps, SeekBegins, SeekLocks, SeekExecutes, SeekReturns, SeekFails,
       SeekEnds, castVars, vars
  <2> QED
    BY <1>3, <2>1
<1> QED
  BY <1>5, <1>6, <1>7, <1>8, <1>9, <1>10 DEF Next

\* The song of a load is the one it was called for.
LEMMA SongsStep ==
    ASSUME TypeOK, NEW c \in Casters, CastSteps(c)
    PROVE  cast'[c].song \in {NoSong, cast[c].song} /\ UNCHANGED <<current_song, seek_sequence, seek>>
<1>1. SessionTypes /\ CastTypes /\ cast \in [Casters -> Cast] /\ IdleCast.song = NoSong
  BY DEF TypeOK, CastTypes, IdleCast
<1>2. UNCHANGED <<current_song, seek_sequence, seek>>
  BY DEF CastSteps, Activates, CancelsPrevious, Prepared, ResolvesDirect, Locks,
         Stops, SetsUri, Plays, RestoresPosition
<1>3. CASE Activates(c)
  BY <1>1, <1>2, <1>3, ActivatesEffect
<1>4. CASE ~Activates(c)
  <2>1. \/ \E pc \in {"prepare", "lock", "stop", "uri", "play", "restore"} : Goes(c, pc)
        \/ \E ok \in BOOLEAN : Returns(c, ok)
    BY <1>4 DEF CastSteps, CancelsPrevious, Prepared, ResolvesDirect, Locks, Stops, SetsUri,
         Plays, RestoresPosition
  <2> QED
    BY <1>1, <1>2, <2>1, GoesEffect, ReturnsEffect DEF CastPCs
<1> QED
  BY <1>3, <1>4

LEMMA InOrderStep ==
    ASSUME TypeOK, Transport, InOrder, [Next]_vars
    PROVE  InOrder'
<1>1. /\ SessionTypes /\ CastTypes /\ cast \in [Casters -> Cast]
      /\ "player" \in Casters /\ "setter" \in Casters
      /\ current_song \in Nat /\ seek_sequence \in Nat /\ device.song \in Nat
      /\ IdleCast.song = NoSong /\ IdleSeek.pc = "idle" /\ seek \in [Seekers -> Seek]
      /\ \A c \in Casters : cast[c].song \in Nat
      /\ \A s \in Seekers : seek[s].sequence \in Nat /\ seek[s].song \in Nat
      /\ device \in [song : Nat, gen : Nat, playing : BOOLEAN]
  BY DEF TypeOK, CastTypes, Casters, IdleCast, IdleSeek, Cast, SeekTypes, Seek
<1>2. ASSUME NEW c \in Casters, Only(c), cast'[c].song =< current_song', cast'[c].song \in Nat,
             device'.song \in {device.song, cast[c].song},
             UNCHANGED <<current_song, seek_sequence, seek>>
      PROVE  InOrder'
  BY <1>1, <1>2 DEF InOrder, Only
<1>3. CASE UNCHANGED <<current_song, seek_sequence, cast, seek>> /\ device'.song = device.song
  BY <1>3 DEF InOrder
<1>4. CASE play_song
  <2>1. /\ Only("player") /\ cast'["player"].song = current_song + 1
        /\ current_song' = current_song + 1 /\ seek_sequence' = seek_sequence + 1
        /\ UNCHANGED <<device, seek>>
    BY <1>1, <1>4, PlaySongEffect DEF play_song
  <2>2. \A c \in Casters : cast'[c].song =< current_song'
    BY <1>1, <2>1 DEF InOrder, Only
  <2>3. \A s \in Seekers : seek[s].pc = "lock" => seek[s].sequence < seek_sequence'
    BY <1>1, <2>1 DEF InOrder
  <2> QED
    BY <1>1, <2>1, <2>2, <2>3 DEF InOrder
<1>5. CASE set_quality \/ PositionArrives \/ ChecksDirect \/ StoresQuality
  <2>1. UNCHANGED <<current_song, seek_sequence, seek, device>>
    BY <1>5 DEF set_quality, PositionArrives, ChecksDirect, StoresQuality
  <2>2. Only("setter") /\ cast'["setter"].song \in {NoSong, cast["setter"].song, current_song}
    BY <1>1, <1>5, SetterEffect
  <2>3. cast'["setter"].song =< current_song' /\ cast'["setter"].song \in Nat
    BY <1>1, <2>1, <2>2 DEF InOrder, NoSong
  <2> QED
    BY <1>1, <1>2, <2>1, <2>2, <2>3
<1>6. CASE IsDropped
  <2>1. /\ Only("player") /\ cast'["player"] = IdleCast /\ UNCHANGED <<current_song, seek_sequence, seek>>
        /\ device'.song \in {device.song, cast["player"].song}
    BY <1>1, <1>6, ReturnsEffect, DeviceFields DEF IsDropped
  <2> QED
    BY <1>1, <1>2, <2>1 DEF NoSong
<1>7. ASSUME NEW c \in Casters, CastSteps(c)
      PROVE  InOrder'
  <2>1. /\ Only(c) /\ device'.song \in {device.song, cast[c].song}
        /\ cast'[c].song \in {NoSong, cast[c].song} /\ UNCHANGED <<current_song, seek_sequence, seek>>
    BY <1>7, StepCommands, SongsStep DEF Commands
  <2>2. cast'[c].song =< current_song' /\ cast'[c].song \in Nat
    BY <1>1, <2>1 DEF InOrder, NoSong
  <2> QED
    BY <1>2, <2>1, <2>2
<1>8. ASSUME NEW s \in Seekers, SeekSteps(s)
      PROVE  InOrder'
  <2>1. /\ UNCHANGED <<cast, device, current_song>>
        /\ \A t \in Seekers \ {s} : seek'[t] = seek[t]
    BY <1>8, SeekCommands DEF SeekSteps, SeekBegins, SeekLocks, SeekExecutes, SeekReturns,
       SeekFails, SeekEnds, castVars
  <2>2. CASE SeekBegins(s)
    <3>1. /\ seek'[s].song = current_song /\ seek'[s].sequence = seek_sequence + 1
          /\ seek_sequence' = seek_sequence + 1
      BY <2>2, SeekBeginsEffect DEF SeekBegins
    <3>2. \A t \in Seekers \ {s} : seek'[t].pc = "lock" => seek'[t].sequence < seek_sequence'
      BY <1>1, <2>1, <3>1 DEF InOrder
    <3> QED
      BY <1>1, <2>1, <3>1, <3>2 DEF InOrder
  <2>3. CASE ~SeekBegins(s)
    <3>1. seek_sequence' = seek_sequence /\ seek'[s].pc # "lock"
      <4>1. CASE SeekLocks(s)
        BY <1>1, <4>1, SeekLocksEffect DEF SeekLocks
      <4>2. CASE SeekExecutes(s)
        BY <4>2, SeekExecutesEffect DEF SeekExecutes, castVars
      <4>3. CASE SeekReturns(s) \/ SeekFails(s)
        <5>1. seek' = [seek EXCEPT ![s] = IdleSeek] /\ UNCHANGED seek_sequence
          BY <4>3 DEF SeekReturns, SeekFails, SeekEnds
        <5> QED
          BY <1>1, <5>1
      <4> QED
        BY <1>8, <2>3, <4>1, <4>2, <4>3 DEF SeekSteps
    <3> QED
      BY <2>1, <3>1 DEF InOrder
  <2> QED
    BY <2>2, <2>3
<1>9. CASE toggle_pause
  BY <1>1, <1>3, <1>9, DeviceFields DEF toggle_pause, castVars
<1>10. CASE \/ set_dlna_direct \/ SessionSteps \/ UNCHANGED vars
            \/ \E h \in Getters : GetterSteps(h)
            \/ \E stream \in streams : StreamEnds(stream)
  <2>1. UNCHANGED <<current_song, seek_sequence, cast, seek, device>>
    BY <1>10 DEF set_dlna_direct, SessionSteps, GetterSteps, RequestArrives, Serves, RequestEnds,
       StreamEnds, castVars, vars
  <2> QED
    BY <1>3, <2>1
<1> QED
  BY <1>4, <1>5, <1>6, <1>7, <1>8, <1>9, <1>10 DEF Next

\* While a seek has the transport nobody else changes what the renderer plays.
LEMMA SeekKeepsSong ==
    ASSUME TypeOK, Transport, SeekIsOnItsSong, [Next]_vars,
           NEW s \in Seekers, seek[s].pc \in {"sent", "executed"}
    PROVE  device'.song = device.song /\ device'.gen = device.gen
<1>1. /\ transport = s /\ \A c \in Casters : cast[c].pc \notin Commanding
      /\ device \in [song : Nat, gen : Nat, playing : BOOLEAN]
      /\ "player" \in Casters /\ "setter" \in Casters
  BY DlnaCasterAssumption DEF Transport, TypeOK, CastTypes, Casters
<1>2. ASSUME NEW c \in Casters, Commands(c)
      PROVE  device'.song = device.song /\ device'.gen = device.gen
  BY <1>1, <1>2 DEF Commands, Commanding
<1>3. CASE \/ set_dlna_direct \/ SessionSteps \/ UNCHANGED vars
           \/ \E h \in Getters : GetterSteps(h)
           \/ \E stream \in streams : StreamEnds(stream)
           \/ \E t \in Seekers : SeekSteps(t)
  <2>1. UNCHANGED device
    BY <1>3 DEF set_dlna_direct, SessionSteps, GetterSteps, RequestArrives, Serves, RequestEnds,
       StreamEnds, SeekSteps, SeekBegins, SeekLocks, SeekExecutes, SeekReturns, SeekFails,
       SeekEnds, castVars, vars
  <2> QED
    BY <2>1
<1>4. CASE toggle_pause
  BY <1>1, <1>4, DeviceFields DEF toggle_pause
<1>5. CASE \/ play_song \/ IsDropped \/ set_quality \/ PositionArrives \/ ChecksDirect
           \/ StoresQuality \/ \E c \in Casters : CastSteps(c)
  BY <1>1, <1>2, <1>5, PlayerCommands, SetterCommands, StepCommands
<1> QED
  BY <1>3, <1>4, <1>5 DEF Next

LEMMA SeekIsOnItsSongStep ==
    ASSUME TypeOK, Transport, TurnInv, InOrder, SeekIsOnItsSong, [Next]_vars
    PROVE  SeekIsOnItsSong'
<1>1. /\ SeekTypes /\ CastTypes /\ seek \in [Seekers -> Seek] /\ IdleSeek.pc = "idle"
      /\ device.song \in Nat /\ current_song \in Nat
      /\ Len(sessions) \in Nat /\ loaded_generation \in 0 .. Len(sessions)
  BY LenProperties DEF TypeOK, CastTypes, SeekTypes, SessionTypes, IdleSeek
<1>2. ASSUME NEW s \in Seekers, seek'[s].pc \in {"sent", "executed"},
             seek[s].pc \in {"sent", "executed"}, seek'[s].song = seek[s].song,
             seek'[s].in_session = seek[s].in_session, seek'[s].gen = seek[s].gen
      PROVE  /\ device'.song =< seek'[s].song
             /\ seek'[s].in_session => device'.gen = seek'[s].gen
  BY <1>2, SeekKeepsSong DEF SeekIsOnItsSong
<1>3. CASE UNCHANGED seek
  BY <1>2, <1>3 DEF SeekIsOnItsSong
<1>4. ASSUME NEW s \in Seekers, SeekSteps(s)
      PROVE  SeekIsOnItsSong'
  <2>1. (\A t \in Seekers \ {s} : seek'[t] = seek[t]) /\ UNCHANGED device
    BY <1>4, SeekCommands
  <2>2. SUFFICES ASSUME seek'[s].pc \in {"sent", "executed"}
                 PROVE  /\ device'.song =< seek'[s].song
                        /\ seek'[s].in_session => device'.gen = seek'[s].gen
    BY <1>2, <2>1 DEF SeekIsOnItsSong
  <2>3. CASE SeekLocks(s)
    <3>1. /\ seek[s].pc = "lock" /\ seek[s].sequence = seek_sequence
          /\ seek'[s].song = seek[s].song
          /\ \/ ~seek'[s].in_session
             \/ get(loaded_generation) /\ seek'[s].gen = loaded_generation
      BY <1>1, <2>2, <2>3, SeekLocksEffect
    <3>2. seek[s].song = current_song /\ device.song =< current_song
      BY <3>1 DEF InOrder
    <3>3. get(loaded_generation) => device.gen = loaded_generation
      BY DEF get, TurnInv, LoadedPlays
    <3> QED
      BY <2>1, <3>1, <3>2, <3>3
  <2>4. CASE SeekExecutes(s)
    BY <1>2, <2>2, <2>4, SeekExecutesEffect
  <2>5. CASE SeekBegins(s)
    BY <2>2, <2>5, SeekBeginsEffect
  <2>6. CASE SeekReturns(s) \/ SeekFails(s)
    <3>1. seek' = [seek EXCEPT ![s] = IdleSeek]
      BY <2>6 DEF SeekReturns, SeekFails, SeekEnds
    <3> QED
      BY <1>1, <2>2, <3>1
  <2> QED
    BY <1>4, <2>3, <2>4, <2>5, <2>6 DEF SeekSteps
<1>5. CASE ~\E s \in Seekers : SeekSteps(s)
  BY <1>3, <1>5 DEF Next, play_song, set_quality, PositionArrives, ChecksDirect, StoresQuality,
     IsDropped, set_dlna_direct, toggle_pause, SessionSteps, GetterSteps, RequestArrives, Serves,
     RequestEnds, StreamEnds, CastSteps, Activates, CancelsPrevious, Prepared, ResolvesDirect,
     Locks, Stops, SetsUri, Plays, RestoresPosition, vars
<1> QED
  BY <1>4, <1>5

SeekInv == Transport /\ TurnInv /\ InOrder /\ SeekIsOnItsSong

\* However many seeks overtake each other and songs and qualities change, a seek
\* that is sent reaches the session it was checked against and no later song.
THEOREM SeeksHitTheirSong == Spec => []SeekIsOnItsSong
<1>1. Init => SeekInv
  <2> SUFFICES ASSUME Init PROVE SeekInv
    OBVIOUS
  <2>1. /\ \A c \in Casters : cast[c].pc = "idle" /\ cast[c].gen = NoGeneration /\ cast[c].song = 0
        /\ \A s \in Seekers : seek[s].pc = "idle"
        /\ device.song = 0 /\ current_song = 0 /\ Len(sessions) = 0
    BY DEF Init, SessionsInit, IdleCast, IdleSeek, NoSong
  <2>2. Transport /\ InOrder /\ SeekIsOnItsSong
    BY <2>1 DEF Transport, InOrder, SeekIsOnItsSong, Commanding
  <2>3. TurnInv
    BY <2>1 DEF Init, TurnInv, OthersStopped, LoadedPlays, InTurn, InSession, Generations
  <2> QED
    BY <2>2, <2>3 DEF SeekInv
<1>2. TypeOK /\ SeekInv /\ [Next]_vars => SeekInv'
  BY TransportStep, TurnStep, InOrderStep, SeekIsOnItsSongStep DEF SeekInv
<1>3. SeekInv => SeekIsOnItsSong
  BY DEF SeekInv
<1> QED
  BY <1>1, <1>2, <1>3, TypeCorrect, PTL DEF Spec

=============================================================================
