--------------------------- MODULE MediaDelivery ---------------------------
(***************************************************************************)
(* How a song of two DASH sources reaches the renderer: as an ordinary MP4 *)
(* over the ranges of the sources (dash_index.rs, seekable_mp4.rs,         *)
(* virtual_mp4_http.rs), or muxed while it is sent (fmp4_mux.rs).  The     *)
(* media session decides which (see DlnaCaster); both are modelled here    *)
(* for the same sources.                                                   *)
(***************************************************************************)
EXTENDS Fmp4Mux

CONSTANTS
    Edges,      \* the byte positions requests begin or end with
    Seconds,    \* the targets of seeks that warm the cache
    BLOCK_BYTES,    \* the longest read of a source at a time
    WARMUP      \* the length of the warm-up window

\* The heads of a file's segments in the order of the index, if each is found, and
\* the track they make until the k-th.
HeadsOf(file) == [k \in DOMAIN segments(file.sidx) |-> FragmentOf(file, segments(file.sidx)[k])]
HeadsAreFound(file) ==
    \A k \in DOMAIN segments(file.sidx) :
        \E b \in DOMAIN file.boxes : IsFragmentOf(file, segments(file.sidx)[k], b)
TrackUntil(source, file, k) == TrackOf(source, file.track, SubSeq(HeadsOf(file), 1, k))

\* Every sample takes space and time, and lies in the payload of its fragment.
SamplesLieInside(file) ==
    \A k \in DOMAIN HeadsOf(file) : \A i \in DOMAIN SamplesOf(HeadsOf(file)[k].moof) :
        LET s == SamplesOf(HeadsOf(file)[k].moof)[i]
        IN /\ s.size > 0 /\ s.duration > 0
           /\ s.offset >= HeadsOf(file)[k].media.start /\ s.offset + s.size <= HeadsOf(file)[k].media.end

\* Each fragment begins where the one before it ends.
HasNoGap(source, file) ==
    \A k \in DOMAIN HeadsOf(file) : HeadsOf(file)[k].moof.decode_time = EndTime(TrackUntil(source, file, k - 1))

\* What the prepared file relies on.  truth lists the samples of a source.  When
\* the ranges of the index each hold one fragment with its samples in its own
\* payload, these samples are the truth, in order; when the fragments also follow
\* each other without a gap, time goes on from sample to sample.
IsDecoded(source, file) ==
    LET samples == TrackUntil(source, file, Len(segments(file.sidx))).samples
        truth == file.truth
    IN /\ file.track.timescale \in Nat \ {0} /\ file.track.edit \in Nat \cup {NoEdit}
       /\ truth \in Seq([start : Nat, size : Nat \ {0}, time : Nat, cts : Int, sync : BOOLEAN])
       /\ \A i, j \in DOMAIN truth : i < j => truth[i].start < truth[j].start
       /\ HeadsAreFound(file) /\ SamplesLieInside(file) =>
            /\ Len(samples) = Len(truth) /\ DOMAIN samples = DOMAIN truth
            /\ \A i \in DOMAIN truth :
                 /\ samples[i].offset = truth[i].start /\ samples[i].size = truth[i].size
                 /\ samples[i].decode_time = truth[i].time /\ samples[i].duration \in Nat \ {0}
                 /\ samples[i].cts = truth[i].cts /\ samples[i].sync = truth[i].sync
            /\ HasNoGap(source, file) =>
                 \A i \in DOMAIN truth :
                   truth[i].time = IF i = 1 THEN 0 ELSE truth[i - 1].time + samples[i - 1].duration

\* Nothing is wrong with the file when one reads it on its own from front to back.
IsSound(source, file) ==
    LET samples == TrackUntil(source, file, Len(segments(file.sidx))).samples
    IN /\ HeaderIsValid(file) /\ SegmentsAreValid(file.sidx, file.length)
       /\ HeadsAreFound(file) /\ SamplesLieInside(file) /\ HasNoGap(source, file)
       /\ \A k \in DOMAIN HeadsOf(file) :
             LET moof == HeadsOf(file)[k].moof
             IN moof.base # "previous" /\ (moof.runs # <<>> => Head(moof.runs).at # NoOffset)
       /\ samples # <<>>
       /\ \A i \in DOMAIN samples : samples[i].offset + samples[i].size <= file.length

ASSUME MediaAssumption ==
    /\ Seconds \subseteq Nat /\ Edges \subseteq Nat /\ BLOCK_BYTES \in Nat \ {0}
    /\ \A pair \in Inputs :
          /\ \A s \in Sources : IsDecoded(s, pair[s]) /\ (pair[s].broken <=> ~IsSound(s, pair[s]))
          /\ pair["video"].track.video

Http == INSTANCE HttpRange

VARIABLES
    mp4,        \* <<>> or the prepared file
    prepared,   \* has prepare ended
    answer      \* the last answer: status and parts

vars == <<files, loads, mux, mp4, prepared, answer>>

NoRange == [kind |-> "none", first |-> 0, last |-> 0]
NoAnswer == [status |-> 0, header |-> NoRange, get |-> TRUE, sameFile |-> TRUE, parts |-> <<>>, length |-> 0]

Init == DashInit /\ mux = NoMux /\ mp4 = <<>> /\ prepared = FALSE /\ answer = NoAnswer

Prepares ==
    /\ Loaded /\ ~prepared
    /\ mp4' = PreparedFile
    /\ prepared' = TRUE
    /\ UNCHANGED <<files, loads, mux, answer>>

\* Reads of a source are cut into blocks.
SplitPart(part) ==
    IF part.source = "header" THEN <<part>>
    ELSE LET count == (part.end - part.start + BLOCK_BYTES - 1) \div BLOCK_BYTES
         IN [k \in 1..count |-> SourcePart(part.source, part.start + (k - 1) * BLOCK_BYTES,
                                           Min({part.end, part.start + k * BLOCK_BYTES}))]

Split(parts) == FlattenSeq([k \in DOMAIN parts |-> SplitPart(parts[k])])

\* The tag of another file is not looked at: for checks of the properties.
IgnoresTheTag(get, sameFile, header) == IF get THEN header ELSE NoRange

\* A range counts for a GET only, and only when If-Range, if it is there, names
\* this very file.
CountingRange(get, sameFile, header) == IF get /\ sameFile THEN header ELSE NoRange

\* serve: the answer to a request with the Range header; 500 when read_plan finds
\* the range outside the file.  It leaves nothing behind, so that one request of
\* each kind shows all there is.
Serves(get, sameFile, header) ==
    LET requested == Http!resolve_range(CountingRange(get, sameFile, header), mp4[1].len)
        bytes == Http!Bytes(requested, mp4[1].len)
        fails == get /\ requested.kind # "unsatisfiable" /\ ~Covers(mp4[1], bytes)
    IN /\ mp4 # <<>> /\ answer = NoAnswer
       /\ answer' = [status |-> IF fails THEN 500 ELSE Http!Status(requested),
                     header |-> header, get |-> get, sameFile |-> sameFile,
                     length |-> IF fails THEN 0 ELSE bytes.end - bytes.start,
                     parts |-> IF requested.kind = "unsatisfiable" \/ ~get \/ fails THEN <<>>
                               ELSE Split(read_plan(mp4[1], bytes))]
       /\ UNCHANGED <<files, loads, mux, mp4, prepared>>

\* Requests are for one range; without a first byte for the last ones.
Headers == {NoRange} \cup
           [kind : {"bytes"}, first : Edges \cup {Http!NoNumber}, last : Edges \cup {Http!NoNumber}]

\* The online mux starts instead of the preparation, not beside it: the two
\* share no state, so that mixing them shows nothing.
Next ==
    \/ mux = NoMux /\ LoadStep /\ UNCHANGED <<mux, mp4, prepared, answer>>
    \/ Prepares
    \/ \E header \in Headers, get, sameFile \in BOOLEAN : Serves(get, sameFile, header)
    \/ loads = [s \in Sources |-> NotLoaded] /\ MuxStep /\ UNCHANGED <<mp4, prepared, answer>>

Spec == Init /\ [][Next]_vars

----------------------------------------------------------------------------
(* What a reader of the answer gets, byte by byte. *)

BytesOf(parts) ==
    FlattenSeq([k \in DOMAIN parts |->
        [i \in 1..(parts[k].end - parts[k].start) |-> <<parts[k].source, parts[k].start + i - 1>>]])

\* The byte at position p of the new file, by the sample tables of its header.
ByteAt(p) ==
    IF p < mp4[1].header THEN <<"header", p>>
    ELSE LET Holds(t, i) == mp4[1].moov[t].co64[i] <= p /\ p < mp4[1].moov[t].co64[i] + mp4[1].moov[t].stsz[i]
             t == CHOOSE u \in DOMAIN mp4[1].moov : \E i \in DOMAIN mp4[1].moov[u].co64 : Holds(u, i)
             i == CHOOSE j \in DOMAIN mp4[1].moov[t].co64 : Holds(t, j)
             s == IF t = 1 THEN "video" ELSE "audio"
         IN <<s, files[s].truth[i].start + (p - mp4[1].moov[t].co64[i])>>

\* What the header asks for by RFC 9110: the positions the answer has to hold.
\* Without a range that is understood it is the whole file.
Asked(header, length) ==
    LET all == 0..(length - 1)
    IN CASE header.kind = "none"                        -> all
         [] header.first = -1 /\ header.last = -1       -> all
         [] header.first = -1 /\ header.last # -1       -> {p \in all : p >= length - header.last}
         [] header.first # -1 /\ header.last = -1       -> {p \in all : p >= header.first}
         [] OTHER -> IF header.last < header.first THEN all ELSE all \cap header.first..header.last

\* What the request has to be answered with: a range of a file the renderer saw
\* under another tag would mix two files.
Wanted ==
    IF answer.get /\ answer.sameFile THEN Asked(answer.header, mp4[1].len) ELSE 0..(mp4[1].len - 1)

\* Every answer holds exactly the bytes that were asked for, each the byte that
\* the sample tables in the header promise at that position, taken from the
\* sample's true place in its source; 416 is for ranges without a byte in the
\* file, and for those only; no range fails (resolve_range, read_plan, serve).
AnswersAreExact ==
    answer.status # 0 =>
      /\ answer.status = 416 <=> Wanted = {}
      /\ answer.status # 416 =>
        /\ answer.status \in {200, 206} /\ answer.length = Cardinality(Wanted)
        /\ answer.get => BytesOf(answer.parts) = [k \in 1..Cardinality(Wanted) |-> ByteAt(Min(Wanted) + k - 1)]

\* The header of the prepared file describes the songs' samples as the sources
\* have them: sizes, times, keyframes; the edit is never empty and no track is
\* longer than the movie (add_fragment, build_moov, run_table).
HeaderTellsTheTruth ==
    mp4 # <<>> => \A t \in DOMAIN mp4[1].moov :
        LET s == IF t = 1 THEN "video" ELSE "audio"
            table == mp4[1].moov[t]
            truth == files[s].truth
        IN /\ table.stsz = [i \in DOMAIN truth |-> truth[i].size]
           /\ Counted(table.stts, Len(table.stts)) = Len(truth)
           /\ \A i \in DOMAIN truth :
                SumFunctionOnSet([j \in DOMAIN truth |-> ValueOf(table.stts, j)], 1..(i - 1)) = truth[i].time
           /\ table.ctts # <<>> => Counted(table.ctts, Len(table.ctts)) = Len(truth)
           /\ \A i \in DOMAIN truth : (IF table.ctts = <<>> THEN 0 ELSE ValueOf(table.ctts, i)) = truth[i].cts
           /\ {i \in DOMAIN truth : truth[i].sync} =
                (IF table.stss = <<>> THEN DOMAIN truth ELSE ToSet(table.stss[1]))
           /\ table.edit # NoEdit => table.edit > 0
           /\ table.movie_duration * files[s].track.timescale >= table.duration * movie_scale

\* In the order of the file time never goes back: a player that reads from start
\* to end has both tracks of a moment together (finish).
PlaysWithoutJumps ==
    mp4 # <<>> => \A i, j \in DOMAIN mp4[1].extents :
        LET e == mp4[1].extents[i]
            f == mp4[1].extents[j]
            TimeAt(x) == LET k == CHOOSE n \in DOMAIN files[x.source].truth : files[x.source].truth[n].start = x.source_start
                             other == IF x.source = "video" THEN "audio" ELSE "video"
                         IN files[x.source].truth[k].time * files[other].track.timescale
        IN i < j => e.end <= f.start /\ TimeAt(e) <= TimeAt(f)

\* A warm-up begins with a keyframe of the video, the last one that is not after
\* the target if there is one.  Times are compared in whole milliseconds, so one
\* that is less than a millisecond late counts as in time (seek_warmup_range).
WarmsFromKeyframe ==
    mp4 # <<>> => \A seconds \in Seconds :
        LET start == seek_warmup_range(mp4[1], seconds, WARMUP).start
            truth == files["video"].truth
            table == mp4[1].moov[1]
            keys == {i \in DOMAIN truth : truth[i].sync}
            target == seconds * 1000
            early == {i \in keys : truth[i].time * 1000 < (target + 1) * files["video"].track.timescale}
        IN early # {} => start = table.co64[Max(early)]

\* A preparation fails because of a request that failed or a file that is
\* broken, never because of the order in which the segment heads arrived; and
\* a broken file is never served (load_source, add_fragment_in_media).
OnlyBrokenFilesAreRefused ==
    /\ (\E s \in Sources : loads[s].phase = "refused") => \E s \in Sources : files[s].broken
    /\ prepared => (mp4 = <<>> <=> \E s \in Sources : files[s].broken)
=============================================================================
