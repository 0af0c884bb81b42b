------------------------------ MODULE Fmp4Mux ------------------------------
(***************************************************************************)
(* The online mux of the two DASH sources into one fragmented MP4          *)
(* (fmp4_mux.rs): the fragments of both go out in the order of their       *)
(* times, those before the start are skipped.  A start is looked up in the *)
(* segment index of each source; where that fails the source is read from  *)
(* its first fragment on.  Patching of track and sequence numbers is       *)
(* abstracted to who a fragment belongs to and its place in the output.    *)
(***************************************************************************)
EXTENDS DashIndex

CONSTANTS
    Starts,     \* the start positions a renderer may ask for, in seconds
    InitSize    \* bytes of the merged initialization

\* The fragments of a file in order, as TrackSource::next_fragment meets them.
MoofBoxes(file) == SelectSeq([b \in DOMAIN file.boxes |-> b], LAMBDA b : file.boxes[b].kind = "moof")

\* TrackSource::open: the kinds of the boxes before the first moof, as far as it looks.
HEADER_BOXES == 32
HeaderBoxes(file) ==
    {file.boxes[b].kind : b \in {x \in DOMAIN file.boxes :
        x <= HEADER_BOXES /\ \A j \in 1..x : file.boxes[j].kind # "moof"}}

\* Has the mux got an index of the source?  One that is missing, or that
\* parse_sidx refuses, is no error.
HasIndex(file) == "sidx" \in HeaderBoxes(file) /\ file.sidx.readable

\* The presentation time at which segment k begins, in the index's own time scale.
SegmentTime(sidx, k) == sidx.earliest + SumFunctionOnSet(sidx.durations, 1..(k - 1))

\* What a mux relies on: the fragments follow each other in time, and, if there
\* is an index, one that lies before a segment of it belongs to an earlier one
\* and begins no later than the index says.
IsIndexed(file) ==
    LET count == Len(MoofBoxes(file))
        Moof(n) == file.moofs[MoofBoxes(file)[n]]
    IN /\ count \in Nat /\ file.track.timescale \in Nat \ {0}
       /\ \A n \in 1..count : Moof(n).decode_time \in Nat /\ Moof(n).offset \in Nat
       /\ \A m, n \in 1..count : m < n => Moof(m).decode_time <= Moof(n).decode_time
       /\ HasIndex(file) =>
            \A k \in DOMAIN file.sidx.sizes :
            \A n \in 1..count : Moof(n).offset < SegmentAt(file.sidx, k).start =>
                \E j \in 1..(k - 1) :
                    Moof(n).decode_time * file.sidx.timescale <= SegmentTime(file.sidx, j) * file.track.timescale

\* What the announced length relies on: the n-th segment of the index is the n-th
\* fragment, that is the moof and the mdat after it and nothing else.
IsListed(file) ==
    LET count == Len(MoofBoxes(file))
    IN /\ count = Len(file.sidx.sizes)
       /\ file.boxes \in Seq([kind : STRING, start : Nat, end : Nat])
       /\ \A n \in 1..count :
            LET b == MoofBoxes(file)[n]
            IN /\ b \in DOMAIN file.boxes
               /\ IsFragmentOf(file, SegmentAt(file.sidx, n), b)
               /\ file.boxes[b].start = SegmentAt(file.sidx, n).start
               /\ file.boxes[b + 1].start = file.boxes[b].end

\* whole: nothing is wrong with the file for one who reads it from front to back.
ASSUME MuxAssumption ==
    /\ Starts \subseteq Nat /\ InitSize \in Nat
    /\ \A pair \in Inputs : \A s \in Sources :
          /\ pair[s].whole => IsIndexed(pair[s])
          /\ pair[s].whole /\ HasIndex(pair[s]) /\ ~pair[s].padded => IsListed(pair[s])

VARIABLE mux    \* the answer being produced: its phase, start, sources left to
                \* seek, next fragment of each source, and what has gone out

NoMux == [phase |-> "idle", start |-> 0, toSeek |-> <<>>, at |-> [s \in Sources |-> 1], out |-> <<>>, length |-> -1]

Fragment(s, n) == files[s].moofs[MoofBoxes(files[s])[n]]
FragmentCount(s) == Len(MoofBoxes(files[s]))
\* The bytes that go out for a fragment: its moof and the next mdat.
FragmentSize(s, n) ==
    LET b == MoofBoxes(files[s])[n]
        payload == Min({k \in DOMAIN files[s].boxes : k > b /\ files[s].boxes[k].kind = "mdat"})
    IN (files[s].boxes[b].end - files[s].boxes[b].start) + (files[s].boxes[payload].end - files[s].boxes[payload].start)

\* The length of the source instead of its media: for checks of the properties.
WholeSource(s) == files[s].length

\* parse_sidx: what the index says of the whole source.
referenced_bytes(s) == SumFunction(files[s].sidx.sizes)
indexed_duration(s) == SumFunction(files[s].sidx.durations)

scale_duration(duration, source_timescale, target_timescale) ==
    (duration * target_timescale) \div source_timescale

\* The index taken to count in the track's time scale: for checks of the properties.
TrackScaledDuration ==
    Max({scale_duration(indexed_duration(s), files[s].track.timescale, movie_scale) : s \in Sources})

\* merge_initialization: the length written into the movie header, in the movie's
\* time scale; without both indexes the video's own one stays.
MergedDuration ==
    IF \A s \in Sources : HasIndex(files[s])
    THEN Max({scale_duration(indexed_duration(s), files[s].sidx.timescale, movie_scale) : s \in Sources})
    ELSE files["video"].movie_duration

\* sidx_offset_for_start: the first segment that begins at or after the start.
sidx_offset_for_start(sidx, start) ==
    LET hits == {k \in DOMAIN sidx.sizes : SegmentTime(sidx, k) >= start * sidx.timescale}
    IN IF hits = {} THEN {} ELSE {SegmentAt(sidx, Min(hits)).start}

\* The first fragment that begins at or after the offset.
FragmentFrom(s, offset) ==
    LET after == {n \in 1..FragmentCount(s) : Fragment(s, n).offset >= offset}
    IN IF after = {} THEN FragmentCount(s) + 1 ELSE Min(after)

\* mux_dash_from: open both sources; the length is known without a start, and
\* with both indexes, only.
MuxOpens(start) ==
    /\ mux.phase = "idle"
    /\ \A s \in Sources : {"ftyp", "moov"} \subseteq HeaderBoxes(files[s])
    /\ mux' = [NoMux EXCEPT !.phase = "muxing", !.start = start,
                    !.toSeek = IF start > 0 THEN <<"video", "audio">> ELSE <<>>,
                    !.length = IF start = 0 /\ \A s \in Sources : HasIndex(files[s])
                               THEN InitSize + referenced_bytes("video") + referenced_bytes("audio") ELSE -1]
    /\ UNCHANGED <<files, loads>>

\* Where a source can be sought: nowhere without an index or outside of it.
SeekOffsets(s) == IF HasIndex(files[s]) THEN sidx_offset_for_start(files[s].sidx, mux.start) ELSE {}

\* seek_to: by the index, or not at all when there is no place in it or the
\* request for the range fails: then the source is read from its first fragment.
MuxSeeks ==
    /\ mux.phase = "muxing" /\ mux.toSeek # <<>>
    /\ LET s == Head(mux.toSeek)
       IN \E n \in {1} \cup {FragmentFrom(s, offset) : offset \in SeekOffsets(s)} :
            mux' = [mux EXCEPT !.at[s] = n, !.toSeek = Tail(@)]
    /\ UNCHANGED <<files, loads>>

Left(s) == mux.at[s] <= FragmentCount(s)
TimeOf(s) == Fragment(s, mux.at[s]).decode_time

\* The video's fragment goes out first whatever its time: for checks of the properties.
VideoAlwaysFirst == Left("video")

\* Is the video's fragment next?  It goes first at equal times.
TakesVideo ==
    \/ Left("video") /\ ~Left("audio")
    \/ /\ Left("video") /\ Left("audio")
       /\ TimeOf("video") * files["audio"].track.timescale <= TimeOf("audio") * files["video"].track.timescale

\* One fragment after the index entry counts as before the start too: for checks of the properties.
IsAfter(s, n) == Fragment(s, n).decode_time > mux.start * files[s].track.timescale

fragment_is_at_or_after(s, n) == Fragment(s, n).decode_time >= mux.start * files[s].track.timescale

\* mux_fragments, one turn: the next fragment goes out, or is skipped.
MuxTakes ==
    LET s == IF TakesVideo THEN "video" ELSE "audio"
        n == mux.at[s]
    IN /\ mux.phase = "muxing" /\ mux.toSeek = <<>>
       /\ Left("video") \/ Left("audio")
       /\ mux' = [mux EXCEPT !.at[s] = n + 1,
                       !.out = IF fragment_is_at_or_after(s, n)
                               THEN Append(@, [track |-> s, number |-> n]) ELSE @]
       /\ UNCHANGED <<files, loads>>

MuxEnds ==
    /\ mux.phase = "muxing" /\ mux.toSeek = <<>>
    /\ ~Left("video") /\ ~Left("audio")
    /\ mux' = [mux EXCEPT !.phase = "done"]
    /\ UNCHANGED <<files, loads>>

\* The renderer closes the connection, or a source breaks off inside a fragment.
MuxBreaks ==
    /\ mux.phase = "muxing"
    /\ mux' = [mux EXCEPT !.phase = "broken"]
    /\ UNCHANGED <<files, loads>>

MuxStep == (\E start \in Starts : MuxOpens(start)) \/ MuxSeeks \/ MuxTakes \/ MuxEnds \/ MuxBreaks

EmittedBytes == InitSize + SumFunction([i \in DOMAIN mux.out |-> FragmentSize(mux.out[i].track, mux.out[i].number)])

\* The time of what went out, in units that do not depend on the track.
RealTime(f) ==
    LET other == IF f.track = "video" THEN "audio" ELSE "video"
    IN Fragment(f.track, f.number).decode_time * files[other].track.timescale

\* What the listener asked for, whatever the mux makes of it.
IsDue(s, n) == Fragment(s, n).decode_time >= mux.start * files[s].track.timescale

----------------------------------------------------------------------------
\* The mux passes a file that is not whole on as it is.
EndedWell == mux.phase = "done" /\ \A s \in Sources : files[s].whole

\* A mux that ran to its end sent every fragment at or after the start once,
\* each track in its order and the tracks mixed by time - whether a source was
\* found by its index, had none or was read from its beginning (mux_fragments,
\* seek_to).
MuxIsWhole ==
    EndedWell =>
        /\ \A s \in Sources :
              {mux.out[i].number : i \in {j \in DOMAIN mux.out : mux.out[j].track = s}} =
              {n \in 1..FragmentCount(s) : IsDue(s, n)}
        /\ \A i, j \in DOMAIN mux.out : i < j =>
              /\ mux.out[i].track = mux.out[j].track => mux.out[i].number < mux.out[j].number
              /\ RealTime(mux.out[i]) <= RealTime(mux.out[j])

\* The renderer hears how much comes before a fragment is read.  The announced
\* length is what a complete answer sends, for sources of moof and mdat pairs:
\* another one leaves the renderer waiting or cuts the song (mux_dash_from).
LengthIsHonest ==
    EndedWell /\ mux.length # -1 /\ (\A s \in Sources : ~files[s].padded) => mux.length = EmittedBytes

\* The time at which the last sample of a source ends, by its fragments.
EndOf(s) ==
    LET moof == Fragment(s, FragmentCount(s))
    IN moof.decode_time
         + SumFunction([r \in DOMAIN moof.runs |->
               SumFunction([i \in DOMAIN moof.runs[r].samples |-> moof.runs[r].samples[i].duration])])

\* The duration in the merged header is the end of the longer source, whatever
\* time scales its track and its index count in.  Players show it, and one that
\* is too short makes them end the song early.  Without both indexes nothing is
\* promised (merge_initialization).
DurationIsTrue ==
    EndedWell /\ (\A s \in Sources : HasIndex(files[s])) =>
        MergedDuration = Max({(EndOf(s) * movie_scale) \div files[s].track.timescale : s \in Sources})
=============================================================================
