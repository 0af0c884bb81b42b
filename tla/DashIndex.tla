----------------------------- MODULE DashIndex -----------------------------
(***************************************************************************)
(* Reading the metadata of the two DASH sources of a song (dash_index.rs): *)
(* the boxes up to the segment index, then the head of every segment, at   *)
(* most BUFFERED of them in flight, taken in the order of the index.  Both *)
(* sources load at the same time; when one fails the preparation fails and *)
(* the other's requests are dropped with it.                               *)
(* A file is given by its boxes in order, its index and the content of its *)
(* moof boxes.  Memory budgets and the reads that fetch a head which is    *)
(* not in the prefix already are left out.                                 *)
(***************************************************************************)
EXTENDS Mp4Layout

CONSTANTS
    Inputs,     \* pairs of files the two addresses may lead to
    BUFFERED,   \* segment heads in flight per source
    movie_scale \* ticks per second of the movie header

Sources == {"video", "audio"}

\* The index has a size and a duration for each segment, the latter in a time
\* scale of its own.  readable: is it a plain index, of segments and not of other
\* indexes, with a time scale?
IsIndex(sidx) ==
    /\ sidx.sizes \in Seq(Nat) /\ sidx.durations \in Seq(Nat) /\ Len(sidx.sizes) = Len(sidx.durations)
    /\ sidx.position \in Nat /\ sidx.length \in Nat /\ sidx.first_offset \in Nat /\ sidx.earliest \in Nat
    /\ sidx.timescale \in Nat \ {0} /\ sidx.readable \in BOOLEAN

ASSUME DashAssumption ==
    /\ BUFFERED \in Nat \ {0} /\ movie_scale \in Nat \ {0}
    /\ \A pair \in Inputs : \A s \in Sources : IsIndex(pair[s].sidx)

VARIABLES
    files,      \* the video file and the audio file
    loads       \* how far load_source has got with each

NotLoaded == [phase |-> "header", arrived |-> {}, fragments |-> <<>>]

DashInit ==
    /\ files \in Inputs
    /\ loads = [s \in Sources |-> NotLoaded]

\* The segment index counts from its own end.
SegmentStart(sidx, k) ==
    sidx.position + sidx.length + sidx.first_offset
      + SumFunctionOnSet(sidx.sizes, 1..(k - 1))

SegmentAt(sidx, k) == [start |-> SegmentStart(sidx, k), end |-> SegmentStart(sidx, k) + sidx.sizes[k]]

segments(sidx) == [k \in DOMAIN sidx.sizes |-> SegmentAt(sidx, k)]

SegmentsAreValid(sidx, total) ==
    /\ sidx.readable /\ sidx.sizes # <<>>
    /\ \A k \in DOMAIN sidx.sizes :
        sidx.sizes[k] >= 1 /\ sidx.durations[k] > 0 /\ SegmentAt(sidx, k).end <= total

\* The boxes before the index hold the file type and the movie header and no media.
HeaderIsValid(file) ==
    \E k \in DOMAIN file.boxes :
        LET before == {file.boxes[j].kind : j \in 1..(k - 1)}
        IN /\ file.boxes[k].kind = "sidx"
           /\ {"ftyp", "moov"} \subseteq before
           /\ {"moof", "mdat"} \cap before = {}

\* The m-th box is the moof of the segment and the segment ends with its mdat.
IsFragmentOf(file, range, m) ==
    /\ file.boxes[m].kind = "moof"
    /\ \E k \in 1..m : /\ file.boxes[k].start = range.start
                       /\ \A j \in k..(m - 1) : file.boxes[j].kind \notin {"moof", "mdat"}
    /\ m + 1 \in DOMAIN file.boxes
    /\ file.boxes[m + 1].kind = "mdat"
    /\ file.boxes[m + 1].end = range.end

BoxHeader == 1

\* What one of the concurrent requests delivers.
FragmentOf(file, range) ==
    LET m == CHOOSE b \in DOMAIN file.boxes : IsFragmentOf(file, range, b)
    IN [moof |-> file.moofs[m], media |-> [start |-> file.boxes[m + 1].start + BoxHeader, end |-> range.end]]

Fails(s, how) ==
    /\ loads' = [loads EXCEPT ![s].phase = how]
    /\ UNCHANGED files

\* source_length and the boxes up to the index.
ReadsIndex(s) ==
    /\ loads[s].phase = "header"
    /\ IF HeaderIsValid(files[s]) /\ SegmentsAreValid(files[s].sidx, files[s].length)
       THEN loads' = [loads EXCEPT ![s].phase = "fragments"] /\ UNCHANGED files
       ELSE Fails(s, "refused")

InFlight(s) ==
    LET taken == Len(loads[s].fragments)
    IN ((taken + 1)..Min({taken + BUFFERED, Len(files[s].sidx.sizes)})) \ loads[s].arrived

\* The head of segment k has come, before or after the others in flight.
FragmentArrives(s, k) ==
    /\ loads[s].phase = "fragments"
    /\ k \in InFlight(s)
    /\ loads' = [loads EXCEPT ![s].arrived = @ \cup {k}]
    /\ UNCHANGED files

\* The fragment that came first is taken, whatever its place: for checks of the properties.
TakesAnyFragment(s) ==
    /\ loads[s].phase = "fragments"
    /\ \E k \in loads[s].arrived :
        LET range == segments(files[s].sidx)[k]
        IN /\ \E b \in DOMAIN files[s].boxes : IsFragmentOf(files[s], range, b)
           /\ FragmentOf(files[s], range) \notin ToSet(loads[s].fragments)
           /\ loads' = [loads EXCEPT ![s].fragments = Append(@, FragmentOf(files[s], range)),
                   ![s].phase = IF Len(loads[s].fragments) + 1 = Len(files[s].sidx.sizes) THEN "done" ELSE @]
    /\ UNCHANGED files

\* buffered: the next fragment in the order of the index, when it has come.
TakesFragment(s) ==
    LET k == Len(loads[s].fragments) + 1
        range == segments(files[s].sidx)[k]
    IN /\ loads[s].phase = "fragments"
       /\ k \in loads[s].arrived
       /\ IF \E b \in DOMAIN files[s].boxes : IsFragmentOf(files[s], range, b)
          THEN /\ loads' = [loads EXCEPT ![s].fragments = Append(@, FragmentOf(files[s], range)),
                                ![s].phase = IF k = Len(files[s].sidx.sizes) THEN "done" ELSE @]
               /\ UNCHANGED files
          ELSE Fails(s, "refused")

\* A request to the source fails.
FetchFails(s) ==
    /\ loads[s].phase \in {"header", "fragments"}
    /\ Fails(s, "lost")

\* try_join: nothing goes on once one of the two has failed.
Loading == \A s \in Sources : loads[s].phase \notin {"lost", "refused"}

LoadStep ==
    /\ Loading
    /\ \E s \in Sources :
        \/ ReadsIndex(s)
        \/ \E k \in InFlight(s) : FragmentArrives(s, k)
        \/ TakesFragment(s)
        \/ FetchFails(s)

----------------------------------------------------------------------------
(* prepare: the builder runs over the video's fragments, then the audio's. *)

Loaded == \A s \in Sources : loads[s].phase = "done"

\* The track after its first n fragments.
TrackAfter(s, n) == TrackOf(s, files[s].track, SubSeq(loads[s].fragments, 1, n))

Tracks == <<TrackAfter("video", Len(loads["video"].fragments)), TrackAfter("audio", Len(loads["audio"].fragments))>>

EveryFragmentIsValid ==
    \A s \in Sources : \A n \in DOMAIN loads[s].fragments :
        FragmentIsValid(TrackAfter(s, n - 1), loads[s].fragments[n].moof, loads[s].fragments[n].media)

\* No file is made when a fragment is refused, a track is empty or a source too short.
PreparedFile ==
    IF EveryFragmentIsValid /\ CanFinish(Tracks)
       /\ validate_sources(finish(Tracks, movie_scale), [s \in Sources |-> files[s].length])
    THEN <<finish(Tracks, movie_scale)>>
    ELSE <<>>
=============================================================================
