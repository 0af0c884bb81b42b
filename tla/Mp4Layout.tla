----------------------------- MODULE Mp4Layout -----------------------------
(***************************************************************************)
(* The layout of the ordinary MP4 that is built over the byte ranges of    *)
(* fragmented sources (seekable_mp4.rs): Mp4Builder collects the samples   *)
(* of every fragment, finish orders them by time and gives each its place  *)
(* in the new file, read_plan maps a range of the new file back to ranges  *)
(* of the sources.  Bytes are positions: a byte of the new file is either  *)
(* a byte of the header or <<source, position in the source>>.  Encoding   *)
(* and decoding of boxes, and which of its boxes a value of a sample is     *)
(* taken from, are left out; sizes count units of eight bytes.             *)
(***************************************************************************)
EXTENDS Integers, Sequences, FiniteSets, FiniteSetsExt, SequencesExt

NoOffset == -1      \* a run without a data offset
NoEdit == -1        \* a track without an edit list

\* A sample of a track: where its bytes are in the source, and its times.
Sample(offset, s, time) ==
    [offset |-> offset, size |-> s.size, duration |-> s.duration, cts |-> s.cts,
     sync |-> s.sync, decode_time |-> time]

\* Where the next fragment of the track has to start.
EndTime(track) ==
    IF track.samples = <<>> THEN 0
    ELSE Last(track.samples).decode_time + Last(track.samples).duration

\* Where the offsets of a fragment's runs count from.
BaseOf(moof) == IF moof.base = "explicit" THEN moof.explicit ELSE moof.offset

\* One run: its samples follow one another from the data offset on, or from
\* the end of the previous run.
AddRun(state, run) ==
    LET AddSample(st, s) ==
            [st EXCEPT !.samples = Append(@, Sample(st.cursor, s, st.time)),
                       !.cursor = @ + s.size, !.time = @ + s.duration]
        from == IF run.at = NoOffset THEN state.cursor ELSE state.base + run.at
    IN FoldLeft(AddSample, [state EXCEPT !.cursor = from], run.samples)

\* The samples a fragment adds to its track.
SamplesOf(moof) ==
    FoldLeft(AddRun, [samples |-> <<>>, base |-> BaseOf(moof), cursor |-> NoOffset, time |-> moof.decode_time],
             moof.runs).samples

\* As FragmentIsValid, but a gap in the decode times is accepted: for checks of the properties.
ToleratesGaps(track, moof, media) ==
    /\ moof.base # "previous"
    /\ moof.runs # <<>> => Head(moof.runs).at # NoOffset
    /\ \A i \in DOMAIN SamplesOf(moof) :
        LET s == SamplesOf(moof)[i]
        IN /\ s.size > 0 /\ s.duration > 0
           /\ s.offset >= media.start /\ s.offset + s.size <= media.end

\* As FragmentIsValid, but samples may lie outside the media payload: for checks of the properties.
TrustsOffsets(track, moof, media) ==
    /\ moof.base # "previous"
    /\ moof.decode_time = EndTime(track)
    /\ moof.runs # <<>> => Head(moof.runs).at # NoOffset
    /\ \A i \in DOMAIN SamplesOf(moof) : SamplesOf(moof)[i].size > 0 /\ SamplesOf(moof)[i].duration > 0

\* Everything add_fragment_in_media refuses a fragment for: offsets relative to
\* a previous track fragment, a gap in the decode times, a first run without an
\* offset, empty samples, samples outside the segment's media payload.
FragmentIsValid(track, moof, media) ==
    /\ moof.base # "previous"
    /\ moof.decode_time = EndTime(track)
    /\ moof.runs # <<>> => Head(moof.runs).at # NoOffset
    /\ \A i \in DOMAIN SamplesOf(moof) :
        LET s == SamplesOf(moof)[i]
        IN /\ s.size > 0 /\ s.duration > 0
           /\ s.offset >= media.start /\ s.offset + s.size <= media.end

\* add_source and add_fragment: a track of one of the sources, with the samples
\* of the fragments that were added to it.
TrackOf(source, description, fragments) ==
    [source |-> source, video |-> description.video, timescale |-> description.timescale,
     edit |-> description.edit,
     samples |-> FlattenSeq([n \in DOMAIN fragments |-> SamplesOf(fragments[n].moof)])]

----------------------------------------------------------------------------
(* finish: the samples in the order of the new file. *)

SamplePlaces(tracks) == UNION {{<<t, i>> : i \in DOMAIN tracks[t].samples} : t \in DOMAIN tracks}
SampleAt(tracks, p) == tracks[p[1]].samples[p[2]]

\* The comparison ignores that tracks count time in different units: for checks of the properties.
ComesBeforeInTicks(tracks, p, q) ==
    LET left == SampleAt(tracks, p).decode_time
        right == SampleAt(tracks, q).decode_time
    IN \/ left < right
       \/ left = right /\ p[1] < q[1]
       \/ left = right /\ p[1] = q[1] /\ p[2] < q[2]

\* Real time first, cross-multiplied with the other track's time scale; then
\* the order of the tracks.
ComesBefore(tracks, p, q) ==
    LET left == SampleAt(tracks, p).decode_time * tracks[q[1]].timescale
        right == SampleAt(tracks, q).decode_time * tracks[p[1]].timescale
    IN \/ left < right
       \/ left = right /\ p[1] < q[1]
       \/ left = right /\ p[1] = q[1] /\ p[2] < q[2]

InOrder(tracks) ==
    LET places == SamplePlaces(tracks)
        Rank(p) == 1 + Cardinality({q \in places : ComesBefore(tracks, q, p)})
    IN [k \in 1..Cardinality(places) |-> CHOOSE p \in places : Rank(p) = k]

\* The first byte of the sample, when the payload starts at start.
OffsetIn(tracks, start, p) ==
    start + SumFunctionOnSet([q \in SamplePlaces(tracks) |-> SampleAt(tracks, q).size],
                             {q \in SamplePlaces(tracks) : ComesBefore(tracks, q, p)})

\* run_table: equal neighbours become one entry <<count, value>>.
run_table(values) ==
    LET AddValue(runs, v) ==
            IF runs # <<>> /\ Last(runs)[2] = v
            THEN Append(Front(runs), <<Last(runs)[1] + 1, v>>)
            ELSE Append(runs, <<1, v>>)
    IN FoldLeft(AddValue, <<>>, values)

\* What a run-length table says of the i-th sample: the value of the run it falls
\* into.  For the properties; the code writes these tables only.
Counted(runs, k) == SumFunctionOnSet([j \in DOMAIN runs |-> runs[j][1]], 1..k)
ValueOf(runs, i) ==
    runs[CHOOSE k \in DOMAIN runs : Counted(runs, k - 1) < i /\ i <= Counted(runs, k)][2]

Attribute(track, Value(_)) == [i \in DOMAIN track.samples |-> Value(track.samples[i])]

TotalTicks(track) == SumFunction(Attribute(track, LAMBDA s : s.duration))

\* The track's length in movie ticks, rounded up.
Scaled(track, movie_scale) ==
    (TotalTicks(track) * movie_scale + track.timescale - 1) \div track.timescale

\* The sync samples, in order.
Keyframes(track) ==
    LET keys == {i \in DOMAIN track.samples : track.samples[i].sync}
    IN [k \in 1..Cardinality(keys) |-> CHOOSE i \in keys : Cardinality({j \in keys : j < i}) = k - 1]

\* The tables of one track in the new movie header.  Samples are chunks of their
\* own, so that the chunk offsets are the places of the samples.  A list of the
\* sync samples, which may be empty, is there when not all of them are.
TablesOf(track, movie_scale, offsets) ==
    [duration |-> TotalTicks(track),
     movie_duration |-> Scaled(track, movie_scale),
     edit |-> IF track.edit = 0 THEN Scaled(track, movie_scale) ELSE track.edit,
     stts |-> run_table(Attribute(track, LAMBDA s : s.duration)),
     ctts |-> IF \E i \in DOMAIN track.samples : track.samples[i].cts # 0
              THEN run_table(Attribute(track, LAMBDA s : s.cts)) ELSE <<>>,
     stsz |-> Attribute(track, LAMBDA s : s.size),
     co64 |-> offsets,
     stss |-> IF \E i \in DOMAIN track.samples : ~track.samples[i].sync THEN <<Keyframes(track)>> ELSE <<>>]

build_moov(tracks, movie_scale, offsets) ==
    [t \in DOMAIN tracks |-> TablesOf(tracks[t], movie_scale, offsets[t])]

\* The length of the encoded header: table entries have a fixed width.
MoovSize(moov) ==
    LET Listed(stss) == IF stss = <<>> THEN 0 ELSE Len(stss[1])
        Entries(t) == Len(t.stts) + Len(t.ctts) + Len(t.stsz) + Len(t.co64) + Listed(t.stss)
    IN 1 + SumFunction([t \in DOMAIN moov |-> Entries(moov[t])])

FtypSize == 1
MdatHeader == 2

\* The times of the keyframes in milliseconds, with their places in the new file.
SeekPoints(track, offsets) ==
    LET keys == Keyframes(track)
    IN [k \in DOMAIN keys |->
          [ms |-> (track.samples[keys[k]].decode_time * 1000) \div track.timescale, offset |-> offsets[keys[k]]]]

\* The track whose keyframes are the seek points: the first video track, else the first.
SeekTrack(tracks) ==
    LET videos == {t \in DOMAIN tracks : tracks[t].video} IN IF videos = {} THEN 1 ELSE Min(videos)

\* The places of all samples once the payload starts at start.
Places(tracks, start) ==
    [t \in DOMAIN tracks |-> [i \in DOMAIN tracks[t].samples |-> OffsetIn(tracks, start, <<t, i>>)]]

\* finish refuses a file with an empty track.
CanFinish(tracks) == tracks # <<>> /\ \A t \in DOMAIN tracks : tracks[t].samples # <<>>

\* The header is built twice: its size does not depend on the offsets in it.
finish(tracks, movie_scale) ==
    LET start == FtypSize + MoovSize(build_moov(tracks, movie_scale, Places(tracks, 0))) + MdatHeader
        offsets == Places(tracks, start)
        order == InOrder(tracks)
        ExtentOf(p) == [start |-> offsets[p[1]][p[2]], end |-> offsets[p[1]][p[2]] + SampleAt(tracks, p).size,
                        source |-> tracks[p[1]].source, source_start |-> SampleAt(tracks, p).offset]
        extents == [k \in DOMAIN order |-> ExtentOf(order[k])]
    IN [header |-> start, len |-> Last(extents).end, extents |-> extents,
        moov |-> build_moov(tracks, movie_scale, offsets),
        seek_points |-> SeekPoints(tracks[SeekTrack(tracks)], offsets[SeekTrack(tracks)])]

\* validate_sources: no sample reaches beyond its source.
validate_sources(mp4, lengths) ==
    \A k \in DOMAIN mp4.extents :
        LET e == mp4.extents[k] IN e.source_start + (e.end - e.start) <= lengths[e.source]

----------------------------------------------------------------------------
(* Reading the new file. *)

\* Warm-up starts at the next keyframe: for checks of the properties.
WarmsFromNext(mp4, seconds, window) ==
    LET index == Cardinality({k \in DOMAIN mp4.seek_points : mp4.seek_points[k].ms <= seconds * 1000})
        start == IF mp4.seek_points = <<>> THEN mp4.header
                 ELSE mp4.seek_points[Min({index + 1, Len(mp4.seek_points)})].offset
    IN [start |-> start, end |-> Min({start + window, mp4.len})]

\* The window that is warmed before a seek: from the last keyframe that is not
\* after the target (the first one when all are).
seek_warmup_range(mp4, seconds, window) ==
    LET index == Cardinality({k \in DOMAIN mp4.seek_points : mp4.seek_points[k].ms <= seconds * 1000})
        start == IF mp4.seek_points = <<>> THEN mp4.header
                 ELSE mp4.seek_points[Max({index, 1})].offset
    IN [start |-> start, end |-> Min({start + window, mp4.len})]

HeaderPart(from, upto) == [source |-> "header", start |-> from, end |-> upto]
SourcePart(source, from, upto) == [source |-> source, start |-> from, end |-> upto]

\* Two parts of the same source are joined without a look at their places: for checks of the properties.
JoinsBySource(parts, part) ==
    IF parts # <<>> /\ Last(parts).source = part.source
    THEN Append(Front(parts), [Last(parts) EXCEPT !.end = @ + (part.end - part.start)])
    ELSE Append(parts, part)

\* A part that continues the previous one in the same source is joined to it.
Joined(parts, part) ==
    IF parts # <<>> /\ Last(parts).source = part.source /\ Last(parts).end = part.start
    THEN Append(Front(parts), [Last(parts) EXCEPT !.end = part.end])
    ELSE Append(parts, part)

\* Does the range lie in the file?
Covers(mp4, range) == range.start <= range.end /\ range.end <= mp4.len

\* The piece of extent e that lies in the range.
Piece(e, range) ==
    LET from == Max({e.start, range.start})
        upto == Min({e.end, range.end})
    IN SourcePart(e.source, e.source_start + (from - e.start), e.source_start + (upto - e.start))

\* read_plan: the header's share of the range, then the pieces of the extents.
\* Extents follow one another, so that those that end before the range come first
\* (partition_point) and those that begin after it come last.
read_plan(mp4, range) ==
    LET upto == Min({mp4.header, range.end})
        head == IF range.start < upto THEN <<HeaderPart(range.start, upto)>> ELSE <<>>
        before == Cardinality({k \in DOMAIN mp4.extents : mp4.extents[k].end <= range.start})
        begun == Cardinality({k \in DOMAIN mp4.extents : mp4.extents[k].start < range.end})
        touched == IF range.start < range.end THEN SubSeq(mp4.extents, before + 1, begun) ELSE <<>>
    IN FoldLeft(Joined, head, [k \in DOMAIN touched |-> Piece(touched[k], range)])
=============================================================================
