---------------------------- MODULE MediaProofs ----------------------------
(***************************************************************************)
(* Proofs about the way of a song's media, for all sources, starts and     *)
(* bounds: the heads of the segments are taken in the order of the index,  *)
(* the prepared file plays in time and is warmed from its keyframes, its   *)
(* header tells what the sources hold, it is refused for a broken source   *)
(* only, its answers hold the bytes that the header promises, the          *)
(* online mux sends what is asked for, in order, and without padding in    *)
(* the sources the bytes and the length announced are those sent.          *)
(***************************************************************************)
EXTENDS MediaDelivery, LayoutProofs

-----------------------------------------------------------------------------
(* The heads of the segments.                                              *)

\* What a request for the head of segment k delivers.
HeadOf(s, k) == FragmentOf(files[s], segments(files[s].sidx)[k])

Heads(s, n) == [k \in 1..n |-> HeadOf(s, k)]

Segments(s) == Len(files[s].sidx.sizes)

\* The heads of the segments are kept in the order of the index, whatever order
\* they arrived in, and a source is ready with the heads of all segments: the
\* tables of the file are built from them as they come.  No more than BUFFERED
\* heads are ahead of those that were taken (load_source, buffered).
HeadsFollowIndex ==
    \A s \in Sources :
        LET taken == Len(loads[s].fragments)
        IN /\ loads[s].fragments = Heads(s, taken)
           /\ loads[s].phase = "done" => taken = Segments(s)
           /\ loads[s].arrived \subseteq 1..(taken + BUFFERED)

\* The range of segment k holds a fragment.
IsFound(s, k) == \E b \in DOMAIN files[s].boxes : IsFragmentOf(files[s], segments(files[s].sidx)[k], b)

\* How far a source has come.
Progress(s) ==
    LET taken == Len(loads[s].fragments)
    IN /\ taken \in 0..Segments(s)
       /\ loads[s].fragments = Heads(s, taken)
       /\ loads[s].phase = "header" => taken = 0
       /\ loads[s].phase = "fragments" => taken < Segments(s)
       /\ loads[s].phase = "done" => taken = Segments(s)
       /\ loads[s].arrived \subseteq 1..(taken + BUFFERED)
       /\ \A k \in 1..taken : IsFound(s, k)

LoadsShape == loads = [s \in Sources |-> [phase |-> loads[s].phase, arrived |-> loads[s].arrived,
                                        fragments |-> loads[s].fragments]]

LoadsInv ==
    /\ files \in Inputs
    /\ LoadsShape
    /\ \A s \in Sources : Progress(s)

\* Taking one more head.
LEMMA OneMoreHead ==
    ASSUME NEW s, NEW n \in Nat
    PROVE  /\ Len(Heads(s, n)) = n
           /\ Append(Heads(s, n), HeadOf(s, n + 1)) = Heads(s, n + 1)
<1> DEFINE H == {HeadOf(s, k) : k \in 1..(n + 1)}
<1>1. \A k \in 1..(n + 1) : HeadOf(s, k) \in H
    OBVIOUS
<1> HIDE DEF H
<1>2. ASSUME NEW m \in {n, n + 1} PROVE Heads(s, m) \in Seq(H) /\ Len(Heads(s, m)) = m
    <2>1. Heads(s, m) \in [1..m -> H]
        BY <1>1 DEF Heads
    <2> QED
        BY <2>1, SeqDef
<1>4. \A k \in 1..n : Heads(s, n)[k] = HeadOf(s, k)
    BY DEF Heads
<1>5. \A k \in 1..(n + 1) : Heads(s, n + 1)[k] = HeadOf(s, k)
    BY DEF Heads
<1>6. Append(Heads(s, n), HeadOf(s, n + 1)) = Heads(s, n + 1)
    BY <1>1, <1>2, <1>4, <1>5, SeqEqual, AppendProperties
<1> QED
    BY <1>2, <1>6

\* A head in flight is one of the next BUFFERED.
LEMMA FlightIsShort ==
    ASSUME LoadsInv, NEW s \in Sources, NEW k \in InFlight(s)
    PROVE  k \in 1..(Len(loads[s].fragments) + BUFFERED)
<1> DEFINE taken == Len(loads[s].fragments)
           most == Segments(s)
           T == {taken + BUFFERED, most}
<1>1. taken \in 0..most /\ most \in Nat /\ BUFFERED \in Nat \ {0}
    <2>1. files[s].sidx.sizes \in Seq(Nat)
        BY DashAssumption DEF LoadsInv, IsIndex
    <2>2. Progress(s)
        BY DEF LoadsInv
    <2> QED
        BY <2>1, <2>2, DashAssumption DEF Progress, Segments
<1>2. k \in (taken + 1)..Min(T)
    BY DEF InFlight, Segments
<1> HIDE DEF taken, most
<1>3. CASE most = 0
    <2>1. Min(T) = 0
        <3>1. taken = 0
            BY <1>1, <1>3
        <3>2. \A x \in T : 0 <= x
            BY <1>1, <1>3, <3>1
        <3>3. \A x \in T : (\A y \in T : x <= y) => x = 0
            BY <1>1, <1>3, <3>1
        <3> QED
            BY <1>3, <3>2, <3>3 DEF Min
    <2> QED
        BY <1>1, <1>2, <2>1
<1>4. CASE most # 0
    <2> DEFINE n == taken + BUFFERED + most
    <2>1. n \in Nat /\ T \in SUBSET (1..n) /\ T # {}
        BY <1>1, <1>4
    <2> HIDE DEF T, n
    <2>2. Min(T) \in T /\ \A m \in T : Min(T) <= m
        BY <2>1, LeastExists
    <2>3. Min(T) <= taken + BUFFERED /\ Min(T) \in Nat
        BY <2>1, <2>2 DEF T
    <2> QED
        BY <1>1, <1>2, <2>3 DEF taken
<1> QED
    BY <1>3, <1>4

\* Nothing has been read at the start.
LEMMA LoadsInit == Init => LoadsInv
<1> SUFFICES ASSUME Init PROVE LoadsInv
    OBVIOUS
<1>1. files \in Inputs /\ loads = [s \in Sources |-> NotLoaded]
    BY DEF Init, DashInit
<1>2. ASSUME NEW s \in Sources PROVE Progress(s)
    <2>1. Segments(s) \in Nat /\ BUFFERED \in Nat
        BY <1>1, DashAssumption DEF Segments, IsIndex
    <2>2. Heads(s, 0) = <<>>
        BY DEF Heads
    <2> QED
        BY <1>1, <2>1, <2>2 DEF Progress, NotLoaded
<1> QED
    BY <1>1, <1>2 DEF LoadsInv, LoadsShape, NotLoaded

\* Two fields of one source change.
LoadTakes(s, how, more) == loads' = [loads EXCEPT ![s].fragments = more, ![s].phase = how]

LEMMA LoadChanges ==
    ASSUME LoadsInv, NEW s \in Sources, NEW how, NEW more, LoadTakes(s, how, more)
    PROVE  /\ loads'[s].phase = how /\ loads'[s].fragments = more /\ loads'[s].arrived = loads[s].arrived
           /\ \A r \in Sources : r # s => loads'[r] = loads[r]
           /\ LoadsShape'
<1> DEFINE mid == [loads EXCEPT ![s].fragments = more]
<1>1. loads[s] = [phase |-> loads[s].phase, arrived |-> loads[s].arrived, fragments |-> loads[s].fragments]
      /\ DOMAIN loads = Sources
    BY DEF LoadsInv, LoadsShape
<1>2. loads' = [mid EXCEPT ![s].phase = how]
    BY Zenon DEF LoadTakes
<1>3. /\ mid[s] = [phase |-> loads[s].phase, arrived |-> loads[s].arrived, fragments |-> more]
      /\ DOMAIN mid = Sources /\ \A r \in Sources : r # s => mid[r] = loads[r]
    BY <1>1
<1> HIDE DEF mid
<1>4. loads'[s] = [mid[s] EXCEPT !.phase = how]
    BY <1>2, <1>3, Zenon
<1>5. DOMAIN loads' = Sources /\ \A r \in Sources : r # s => loads'[r] = loads[r]
    BY <1>2, <1>3, Zenon
<1>6. loads'[s] = [phase |-> how, arrived |-> loads[s].arrived, fragments |-> more]
    BY <1>3, <1>4
<1>7. \A r \in Sources : loads'[r] = [phase |-> loads'[r].phase, arrived |-> loads'[r].arrived,
                                     fragments |-> loads'[r].fragments]
    BY <1>5, <1>6 DEF LoadsInv, LoadsShape
<1>8. loads' = [r \in Sources |-> loads'[r]]
    BY <1>2, <1>5
<1> QED
    BY <1>5, <1>6, <1>7, <1>8 DEF LoadsShape

\* Every step keeps it.
LEMMA LoadsStep == LoadsInv /\ [Next]_vars => LoadsInv'
<1> SUFFICES ASSUME LoadsInv, [Next]_vars PROVE LoadsInv'
    OBVIOUS
<1>1. CASE UNCHANGED <<files, loads>>
    BY <1>1 DEF LoadsInv, LoadsShape, Progress, Heads, HeadOf, Segments, IsFound
<1>2. ASSUME NEW s \in Sources, ReadsIndex(s) \/ FetchFails(s) \/ TakesFragment(s)
                 \/ \E k \in InFlight(s) : FragmentArrives(s, k)
      PROVE  LoadsInv'
    <2> DEFINE taken == Len(loads[s].fragments)
               range == segments(files[s].sidx)[taken + 1]
    <2>1. files' = files /\ (\A r \in Sources : Segments(r)' = Segments(r))
          /\ (\A r, n : Heads(r, n)' = Heads(r, n)) /\ \A r, k : IsFound(r, k)' <=> IsFound(r, k)
        BY <1>2 DEF ReadsIndex, FetchFails, TakesFragment, FragmentArrives, Fails, Heads, HeadOf, Segments, IsFound
    <2>2. /\ taken \in 0..Segments(s) /\ loads[s].fragments = Heads(s, taken)
          /\ loads[s].arrived \subseteq 1..(taken + BUFFERED)
          /\ loads[s].phase = "header" => taken = 0
          /\ loads[s].phase = "fragments" => taken < Segments(s)
          /\ \A k \in 1..taken : IsFound(s, k)
          /\ Segments(s) \in Nat /\ BUFFERED \in Nat
        <3>1. files[s].sidx.sizes \in Seq(Nat)
            BY DashAssumption DEF LoadsInv, IsIndex
        <3>2. Progress(s)
            BY DEF LoadsInv
        <3> QED
            BY <3>1, <3>2, DashAssumption DEF Progress, Segments
    <2>3. ASSUME NEW r \in Sources, loads'[r] = loads[r] PROVE Progress(r)'
        BY <2>1, <2>3 DEF LoadsInv, Progress
    <2>4. ASSUME NEW how \in {"fragments", "lost", "refused"}, loads' = [loads EXCEPT ![s].phase = how],
                 how = "fragments" => taken < Segments(s)
          PROVE  LoadsInv'
        <3>1. /\ loads'[s].phase = how /\ loads'[s].fragments = loads[s].fragments
              /\ loads'[s].arrived = loads[s].arrived
              /\ \A r \in Sources : r # s => loads'[r] = loads[r]
              /\ LoadsShape'
            BY <2>4 DEF LoadsInv, LoadsShape
        <3>2. Progress(s)'
            BY <2>1, <2>2, <2>4, <3>1 DEF Progress
        <3> QED
            BY <2>1, <2>3, <3>1, <3>2 DEF LoadsInv
    <2>5. CASE FetchFails(s)
        BY <2>4, <2>5 DEF FetchFails, Fails
    <2>6. CASE ReadsIndex(s)
        <3>1. CASE HeaderIsValid(files[s]) /\ SegmentsAreValid(files[s].sidx, files[s].length)
            <4>1. loads' = [loads EXCEPT ![s].phase = "fragments"] /\ loads[s].phase = "header"
                BY <2>6, <3>1 DEF ReadsIndex
            <4>2. files[s].sidx.sizes # <<>> /\ files[s].sidx.sizes \in Seq(Nat)
                BY <3>1, DashAssumption DEF SegmentsAreValid, LoadsInv, IsIndex
            <4>3. Segments(s) # 0
                BY <4>2 DEF Segments
            <4> QED
                BY <2>2, <2>4, <4>1, <4>3
        <3>2. CASE ~(HeaderIsValid(files[s]) /\ SegmentsAreValid(files[s].sidx, files[s].length))
            BY <2>4, <2>6, <3>2 DEF ReadsIndex, Fails
        <3> QED
            BY <3>1, <3>2
    <2>7. CASE TakesFragment(s)
        <3>1. CASE \E b \in DOMAIN files[s].boxes : IsFragmentOf(files[s], range, b)
            <4>1. /\ loads[s].phase = "fragments"
                  /\ loads' = [loads EXCEPT ![s].fragments = Append(loads[s].fragments, FragmentOf(files[s], range)),
                                  ![s].phase = IF taken + 1 = Len(files[s].sidx.sizes) THEN "done" ELSE loads[s].phase]
                BY <2>7, <3>1 DEF TakesFragment
            <4>2. /\ loads'[s].phase = (IF taken + 1 = Segments(s) THEN "done" ELSE "fragments")
                  /\ loads'[s].fragments = Append(loads[s].fragments, HeadOf(s, taken + 1))
                  /\ loads'[s].arrived = loads[s].arrived
                  /\ \A r \in Sources : r # s => loads'[r] = loads[r]
                  /\ LoadsShape'
                <5> DEFINE how == IF taken + 1 = Len(files[s].sidx.sizes) THEN "done" ELSE loads[s].phase
                           more == Append(loads[s].fragments, FragmentOf(files[s], range))
                <5>1. how = (IF taken + 1 = Segments(s) THEN "done" ELSE "fragments")
                      /\ more = Append(loads[s].fragments, HeadOf(s, taken + 1))
                    BY <4>1 DEF Segments, HeadOf
                <5>2. LoadTakes(s, how, more)
                    BY <4>1, Zenon DEF LoadTakes
                <5> HIDE DEF how, more
                <5>3. /\ loads'[s].phase = how /\ loads'[s].fragments = more /\ loads'[s].arrived = loads[s].arrived
                      /\ \A r \in Sources : r # s => loads'[r] = loads[r]
                      /\ LoadsShape'
                    BY <5>2, LoadChanges
                <5> QED
                    BY <5>1, <5>3
            <4>3. taken < Segments(s)
                BY <2>2, <4>1
            <4>4. loads'[s].fragments = Heads(s, taken + 1) /\ Len(loads'[s].fragments) = taken + 1
                <5>1. taken \in Nat /\ taken + 1 \in Nat
                    BY <2>2
                <5> HIDE DEF taken
                <5>2. Append(Heads(s, taken), HeadOf(s, taken + 1)) = Heads(s, taken + 1)
                      /\ Len(Heads(s, taken + 1)) = taken + 1
                    BY <5>1, OneMoreHead
                <5> QED
                    BY <2>2, <4>2, <5>2
            <4>5. Progress(s)'
                <5>1. taken + 1 \in 0..Segments(s) /\ 1..(taken + BUFFERED) \subseteq 1..(taken + 1 + BUFFERED)
                    BY <2>2, <4>3
                <5>2. \A k \in 1..(taken + 1) : IsFound(s, k)
                    <6>1. \A k \in 1..(taken + 1) : k \in 1..taken \/ k = taken + 1
                        BY <2>2
                    <6> QED
                        BY <2>2, <3>1, <6>1 DEF IsFound
                <5> HIDE DEF taken
                <5> QED
                    BY <2>1, <2>2, <4>2, <4>3, <4>4, <5>1, <5>2 DEF Progress
            <4> QED
                BY <2>1, <2>3, <4>2, <4>5 DEF LoadsInv
        <3>2. CASE ~(\E b \in DOMAIN files[s].boxes : IsFragmentOf(files[s], range, b))
            <4>1. loads' = [loads EXCEPT ![s].phase = "refused"]
                BY <2>7, <3>2 DEF TakesFragment, Fails
            <4> QED
                BY <2>4, <4>1
        <3> QED
            BY <3>1, <3>2
    <2>8. ASSUME NEW k \in InFlight(s), FragmentArrives(s, k) PROVE LoadsInv'
        <3>1. /\ loads'[s].phase = loads[s].phase /\ loads'[s].fragments = loads[s].fragments
              /\ loads'[s].arrived = loads[s].arrived \cup {k}
              /\ \A r \in Sources : r # s => loads'[r] = loads[r]
              /\ LoadsShape'
            <4>1. loads' = [loads EXCEPT ![s].arrived = loads[s].arrived \cup {k}]
                BY <2>8 DEF FragmentArrives
            <4>2. loads[s] = [phase |-> loads[s].phase, arrived |-> loads[s].arrived,
                              fragments |-> loads[s].fragments] /\ DOMAIN loads = Sources
                BY DEF LoadsInv, LoadsShape
            <4>3. loads'[s] = [phase |-> loads[s].phase, arrived |-> loads[s].arrived \cup {k},
                               fragments |-> loads[s].fragments]
                  /\ DOMAIN loads' = Sources /\ \A r \in Sources : r # s => loads'[r] = loads[r]
                BY <4>1, <4>2
            <4>4. \A r \in Sources : loads'[r] = [phase |-> loads'[r].phase, arrived |-> loads'[r].arrived,
                                                fragments |-> loads'[r].fragments]
                BY <4>3 DEF LoadsInv, LoadsShape
            <4>5. loads' = [r \in Sources |-> loads'[r]]
                BY <4>1, <4>3
            <4> QED
                BY <4>3, <4>4, <4>5 DEF LoadsShape
        <3>2. k \in 1..(taken + BUFFERED)
            BY FlightIsShort
        <3>3. Progress(s)'
            BY <2>1, <2>2, <3>1, <3>2 DEF Progress, LoadsInv
        <3> QED
            BY <2>1, <2>3, <3>1, <3>3 DEF LoadsInv
    <2> QED
        BY <1>2, <2>5, <2>6, <2>7, <2>8
<1>3. CASE LoadStep
    <2>1. PICK s \in Sources : ReadsIndex(s) \/ FetchFails(s) \/ TakesFragment(s)
                \/ \E k \in InFlight(s) : FragmentArrives(s, k)
        BY <1>3, ZenonT(30) DEF LoadStep
    <2> QED
        BY <1>2, <2>1
<1>4. CASE MuxStep
    <2>1. UNCHANGED <<files, loads>>
        BY <1>4, ZenonT(30) DEF MuxStep, MuxOpens, MuxSeeks, MuxTakes, MuxEnds, MuxBreaks
    <2> QED
        BY <1>1, <2>1
<1>5. CASE Prepares \/ \E header \in Headers, get, sameFile \in BOOLEAN : Serves(get, sameFile, header)
    <2>1. UNCHANGED <<files, loads>>
        BY <1>5, ZenonT(30) DEF Prepares, Serves
    <2> QED
        BY <1>1, <2>1
<1>6. UNCHANGED vars => LoadsInv'
    BY <1>1 DEF vars
<1> QED
    BY <1>3, <1>4, <1>5, <1>6 DEF Next

\* Whatever the order in which heads arrive, they are taken in that of the index.
THEOREM HeadsStayInOrder == Spec => []HeadsFollowIndex
<1>1. LoadsInv => HeadsFollowIndex
    BY DEF LoadsInv, Progress, HeadsFollowIndex
<1> QED
    BY LoadsInit, LoadsStep, <1>1, PTL DEF Spec

-----------------------------------------------------------------------------
(* The prepared file.                                                      *)

\* Both sources are read and their fragments make two tracks.
HasTracks == Loaded /\ EveryFragmentIsValid /\ CanFinish(Tracks)

\* It is the file of all fragments, and it stays that.
FileInv ==
    /\ LoadsInv
    /\ mp4 # <<>> => HasTracks /\ mp4 = <<finish(Tracks, movie_scale)>>

\* The tracks and what is made of them depend on the sources only.
LEMMA TracksStay ==
    ASSUME UNCHANGED <<files, loads>>
    PROVE  /\ Loaded' <=> Loaded
           /\ HasTracks' <=> HasTracks
           /\ finish(Tracks, movie_scale)' = finish(Tracks, movie_scale)
           /\ PreparedFile' = PreparedFile
<1>1. \A s, n : TrackAfter(s, n)' = TrackAfter(s, n)
    BY DEF TrackAfter
<1>2. (Loaded' <=> Loaded) /\ (EveryFragmentIsValid' <=> EveryFragmentIsValid) /\ Tracks' = Tracks
    BY <1>1 DEF Loaded, EveryFragmentIsValid, Tracks
<1>3. CanFinish(Tracks)' <=> CanFinish(Tracks)
    BY <1>2 DEF CanFinish
<1>4. finish(Tracks, movie_scale)' = finish(Tracks, movie_scale)
    BY <1>2 DEF finish
<1>5. PreparedFile' = PreparedFile
    BY <1>2, <1>3, <1>4 DEF PreparedFile, validate_sources
<1> QED
    BY <1>2, <1>3, <1>4, <1>5 DEF HasTracks

\* No source is read on once both are.
LEMMA LoadStepIsEarly == LoadStep => ~Loaded
<1> SUFFICES ASSUME LoadStep PROVE ~Loaded
    OBVIOUS
<1>1. PICK s \in Sources : ReadsIndex(s) \/ FetchFails(s) \/ TakesFragment(s)
            \/ \E k \in InFlight(s) : FragmentArrives(s, k)
    BY ZenonT(30) DEF LoadStep
<1>2. loads[s].phase \in {"header", "fragments"}
    BY <1>1 DEF ReadsIndex, FetchFails, TakesFragment, FragmentArrives
<1> QED
    BY <1>2 DEF Loaded

LEMMA FileStep == FileInv /\ [Next]_vars => FileInv'
<1> SUFFICES ASSUME FileInv, [Next]_vars PROVE FileInv'
    OBVIOUS
<1>1. LoadsInv'
    BY LoadsStep DEF FileInv
<1>2. CASE UNCHANGED <<files, loads, mp4>>
    BY <1>1, <1>2, TracksStay DEF FileInv
<1>3. CASE LoadStep /\ UNCHANGED mp4
    BY <1>1, <1>3, LoadStepIsEarly DEF FileInv, HasTracks
<1>4. CASE Prepares
    <2>1. UNCHANGED <<files, loads>> /\ Loaded /\ mp4' = PreparedFile
        BY <1>4 DEF Prepares
    <2>2. mp4' # <<>> => HasTracks /\ mp4' = <<finish(Tracks, movie_scale)>>
        BY <2>1 DEF PreparedFile, HasTracks
    <2> QED
        BY <1>1, <2>1, <2>2, TracksStay DEF FileInv
<1>5. CASE MuxStep /\ UNCHANGED mp4
    <2>1. UNCHANGED <<files, loads>>
        BY <1>5, ZenonT(30) DEF MuxStep, MuxOpens, MuxSeeks, MuxTakes, MuxEnds, MuxBreaks
    <2> QED
        BY <1>2, <1>5, <2>1
<1>6. CASE \E header \in Headers, get, sameFile \in BOOLEAN : Serves(get, sameFile, header)
    <2>1. UNCHANGED <<files, loads, mp4>>
        BY <1>6, ZenonT(30) DEF Serves
    <2> QED
        BY <1>2, <2>1
<1>7. UNCHANGED vars => FileInv'
    BY <1>2 DEF vars
<1> QED
    BY <1>3, <1>4, <1>5, <1>6, <1>7 DEF Next

\* The samples of the file are those of its sources.
TrackTells(track, s) ==
    LET truth == files[s].truth
    IN /\ track.source = s /\ track.timescale = files[s].track.timescale
       /\ track.video = files[s].track.video /\ track.edit = files[s].track.edit
       /\ Len(track.samples) = Len(truth) /\ DOMAIN track.samples = DOMAIN truth
       /\ \A i \in DOMAIN truth :
            /\ track.samples[i].offset = truth[i].start /\ track.samples[i].size = truth[i].size
            /\ track.samples[i].decode_time = truth[i].time /\ track.samples[i].duration \in Nat \ {0}
            /\ track.samples[i].cts = truth[i].cts /\ track.samples[i].sync = truth[i].sync
       /\ \A i \in DOMAIN truth :
            truth[i].time = IF i = 1 THEN 0 ELSE truth[i - 1].time + track.samples[i - 1].duration

\* The heads that were taken are those of the file.
LEMMA HeadsAreTaken ==
    ASSUME LoadsInv, NEW s \in Sources, loads[s].phase = "done"
    PROVE  /\ Segments(s) \in Nat /\ DOMAIN segments(files[s].sidx) = 1..Segments(s)
           /\ Len(segments(files[s].sidx)) = Segments(s)
           /\ loads[s].fragments = HeadsOf(files[s]) /\ Len(loads[s].fragments) = Segments(s)
           /\ DOMAIN HeadsOf(files[s]) = 1..Segments(s)
           /\ HeadsAreFound(files[s])
           /\ \A k : TrackAfter(s, k) = TrackUntil(s, files[s], k)
<1> DEFINE ranges == segments(files[s].sidx)
           n == Segments(s)
<1>1. n \in Nat /\ DOMAIN ranges = 1..n
    <2>1. files[s].sidx.sizes \in Seq(Nat)
        BY DashAssumption DEF LoadsInv, IsIndex
    <2> QED
        BY <2>1 DEF segments, Segments
<1>2. Len(ranges) = n
    <2>1. ranges = [k \in 1..n |-> ranges[k]]
        BY <1>1 DEF segments
    <2> HIDE DEF ranges, n
    <2> QED
        BY <1>1, <2>1, LenOf
<1>3. Progress(s)
    BY DEF LoadsInv
<1>4. Len(loads[s].fragments) = n /\ loads[s].fragments = Heads(s, n) /\ \A k \in 1..n : IsFound(s, k)
    BY <1>3 DEF Progress
<1>5. HeadsOf(files[s]) = Heads(s, n)
    BY <1>1 DEF Heads, HeadOf, HeadsOf
<1>6. DOMAIN Heads(s, n) = 1..n
    BY DEF Heads
<1>7. HeadsAreFound(files[s])
    BY <1>1, <1>4, Zenon DEF IsFound, HeadsAreFound
<1>8. \A k : TrackAfter(s, k) = TrackUntil(s, files[s], k)
    BY <1>4, <1>5 DEF TrackAfter, TrackUntil
<1> QED
    BY <1>1, <1>2, <1>4, <1>5, <1>6, <1>7, <1>8

LEMMA TracksTellTheTruth ==
    ASSUME LoadsInv, HasTracks, NEW s \in Sources
    PROVE  TrackTells(TrackAfter(s, Len(loads[s].fragments)), s)
<1> DEFINE file == files[s]
           heads == HeadsOf(file)
           n == Segments(s)
           track == TrackUntil(s, file, n)
           truth == file.truth
<1>1. IsDecoded(s, file)
    BY MediaAssumption DEF LoadsInv
<1>2. /\ n \in Nat /\ Len(segments(file.sidx)) = n /\ loads[s].fragments = heads
      /\ Len(loads[s].fragments) = n /\ DOMAIN heads = 1..n /\ HeadsAreFound(file)
      /\ \A k : TrackAfter(s, k) = TrackUntil(s, file, k)
    BY HeadsAreTaken DEF HasTracks, Loaded
<1>3. \A k \in 1..n : FragmentIsValid(TrackUntil(s, file, k - 1), heads[k].moof, heads[k].media)
    <2>1. \A k \in DOMAIN loads[s].fragments :
             FragmentIsValid(TrackAfter(s, k - 1), loads[s].fragments[k].moof, loads[s].fragments[k].media)
        BY DEF HasTracks, EveryFragmentIsValid
    <2> HIDE DEF heads, n
    <2> QED
        BY <1>2, <2>1
<1>4. SamplesLieInside(file) /\ HasNoGap(s, file)
    BY <1>2, <1>3 DEF FragmentIsValid, SamplesLieInside, HasNoGap
<1>5. /\ Len(track.samples) = Len(truth) /\ DOMAIN track.samples = DOMAIN truth
      /\ \A i \in DOMAIN truth :
           /\ track.samples[i].offset = truth[i].start /\ track.samples[i].size = truth[i].size
           /\ track.samples[i].decode_time = truth[i].time /\ track.samples[i].duration \in Nat \ {0}
           /\ track.samples[i].cts = truth[i].cts /\ track.samples[i].sync = truth[i].sync
      /\ \A i \in DOMAIN truth :
           truth[i].time = IF i = 1 THEN 0 ELSE truth[i - 1].time + track.samples[i - 1].duration
    BY <1>1, <1>2, <1>4, Zenon DEF IsDecoded
<1>6. TrackAfter(s, Len(loads[s].fragments)) = track
    BY <1>2
<1>7. /\ track.source = s /\ track.timescale = file.track.timescale
      /\ track.video = file.track.video /\ track.edit = file.track.edit
    BY DEF TrackUntil, TrackOf
<1> HIDE DEF track
<1> QED
    BY <1>5, <1>6, <1>7, Zenon DEF TrackTells

LEMMA TracksAreTwo ==
    ASSUME LoadsInv, HasTracks
    PROVE  /\ DOMAIN Tracks = 1..2 /\ Len(Tracks) = 2
           /\ TrackTells(Tracks[1], "video") /\ TrackTells(Tracks[2], "audio")
<1> DEFINE T(s) == TrackAfter(s, Len(loads[s].fragments))
<1>1. TrackTells(T("video"), "video") /\ TrackTells(T("audio"), "audio")
    BY TracksTellTheTruth DEF Sources
<1>2. Tracks = <<T("video"), T("audio")>>
    BY DEF Tracks
<1> HIDE DEF T
<1> QED
    BY <1>1, <1>2

\* The sources by their numbers.
SourceOf(t) == IF t = 1 THEN "video" ELSE "audio"

LEMMA TruthIs ==
    ASSUME LoadsInv, NEW s \in Sources
    PROVE  /\ Len(files[s].truth) \in Nat /\ DOMAIN files[s].truth = 1..Len(files[s].truth)
           /\ files[s].track.timescale \in Nat \ {0}
           /\ \A i \in DOMAIN files[s].truth :
                 /\ files[s].truth[i].size \in Nat \ {0} /\ files[s].truth[i].time \in Nat
                 /\ files[s].truth[i].start \in Nat /\ files[s].truth[i].sync \in BOOLEAN
           /\ \A i, j \in DOMAIN files[s].truth : i < j => files[s].truth[i].start < files[s].truth[j].start
<1> DEFINE R == [start : Nat, size : Nat \ {0}, time : Nat, cts : Int, sync : BOOLEAN]
           truth == files[s].truth
<1>1. /\ files[s].track.timescale \in Nat \ {0} /\ truth \in Seq(R)
      /\ \A i, j \in DOMAIN truth : i < j => truth[i].start < truth[j].start
    <2>1. IsDecoded(s, files[s])
        BY MediaAssumption DEF LoadsInv
    <2> QED
        BY <2>1, Zenon DEF IsDecoded
<1> HIDE DEF truth
<1>2. Len(truth) \in Nat /\ DOMAIN truth = 1..Len(truth) /\ \A i \in DOMAIN truth : truth[i] \in R
    <2> HIDE DEF R
    <2> QED
        BY <1>1
<1> QED
    BY <1>1, <1>2 DEF truth

LEMMA TracksAreTracks ==
    ASSUME LoadsInv, HasTracks
    PROVE  /\ IsTracks(Tracks) /\ CanFinish(Tracks) /\ DOMAIN Tracks = 1..2
           /\ \A t \in 1..2 : SourceOf(t) \in Sources /\ TrackTells(Tracks[t], SourceOf(t))
<1>1. /\ DOMAIN Tracks = 1..2 /\ Len(Tracks) = 2
      /\ \A t \in 1..2 : SourceOf(t) \in Sources /\ TrackTells(Tracks[t], SourceOf(t))
    <2>1. \A t \in 1..2 : t = 1 \/ t = 2
        OBVIOUS
    <2> QED
        BY <2>1, TracksAreTwo DEF SourceOf, Sources
<1>2. ASSUME NEW t \in 1..2 PROVE IsTrack(Tracks[t])
    <2>1. PICK s \in Sources : TrackTells(Tracks[t], s)
        BY <1>1
    <2>2. /\ Len(files[s].truth) \in Nat /\ DOMAIN files[s].truth = 1..Len(files[s].truth)
          /\ files[s].track.timescale \in Nat \ {0}
          /\ \A i \in DOMAIN files[s].truth :
                files[s].truth[i].size \in Nat \ {0} /\ files[s].truth[i].time \in Nat
        BY TruthIs
    <2> PICK track : track = Tracks[t]
        OBVIOUS
    <2> PICK truth : truth = files[s].truth
        OBVIOUS
    <2>3. /\ track.timescale = files[s].track.timescale
          /\ Len(track.samples) = Len(truth) /\ DOMAIN track.samples = DOMAIN truth
          /\ \A i \in DOMAIN truth : track.samples[i].size = truth[i].size /\ track.samples[i].decode_time = truth[i].time
        BY <2>1, Zenon DEF TrackTells
    <2>4. IsTrack(track)
        BY <2>2, <2>3 DEF IsTrack
    <2> QED
        BY <2>4
<1>3. IsTracks(Tracks)
    BY <1>1, <1>2 DEF IsTracks
<1>4. CanFinish(Tracks)
    BY DEF HasTracks
<1> QED
    BY <1>1, <1>3, <1>4

LEMMA TracksAreGood ==
    ASSUME FileInv, mp4 # <<>>
    PROVE  /\ LoadsInv /\ HasTracks /\ DOMAIN Tracks = 1..2 /\ IsTracks(Tracks)
           /\ mp4[1] = finish(Tracks, movie_scale)
           /\ FillsItsFile(Tracks, mp4[1]) /\ PointsToSamples(Tracks, mp4[1])
           /\ \A t \in 1..2 : SourceOf(t) \in Sources /\ TrackTells(Tracks[t], SourceOf(t))
<1>1. LoadsInv /\ HasTracks /\ mp4[1] = finish(Tracks, movie_scale)
    BY DEF FileInv
<1> QED
    BY <1>1, TracksAreTracks, SamplesAreLaidOut

\* Each sample ends after it begins, so time goes on.
LEMMA TimeGoesOn ==
    ASSUME NEW n \in Nat, NEW time, NEW lasts,
           \A i \in 1..n : time[i] \in Nat /\ lasts[i] \in Nat \ {0},
           \A i \in 1..n : time[i] = IF i = 1 THEN 0 ELSE time[i - 1] + lasts[i - 1],
           NEW i \in 1..n, NEW j \in 1..n, i < j
    PROVE  time[i] < time[j]
<1> DEFINE Bad == {k \in 1..n : i < k /\ ~(time[i] < time[k])}
<1> SUFFICES ASSUME Bad # {} PROVE FALSE
    OBVIOUS
<1>1. PICK m \in Bad : \A k \in Bad : m <= k
    <2>1. Bad \in SUBSET (1..n)
        OBVIOUS
    <2> HIDE DEF Bad
    <2> QED
        BY <2>1, LeastExists
<1>2. m \in 1..n /\ i < m /\ ~(time[i] < time[m]) /\ m - 1 \in 1..n /\ m - 1 \notin Bad
    BY <1>1
<1>3. time[m] = time[m - 1] + lasts[m - 1] /\ time[m - 1] < time[m]
    BY <1>2
<1>4. time[i] <= time[m - 1]
    <2>1. CASE m - 1 = i
        BY <1>2, <2>1
    <2>2. CASE m - 1 # i
        <3>1. i < m - 1
            BY <1>2, <2>2
        <3> QED
            BY <1>2, <3>1
    <2> QED
        BY <2>1, <2>2
<1> QED
    BY <1>2, <1>3, <1>4

LEMMA TruthGoesOn ==
    ASSUME FileInv, mp4 # <<>>, NEW t \in 1..2,
           NEW i \in DOMAIN files[SourceOf(t)].truth, NEW j \in DOMAIN files[SourceOf(t)].truth, i < j
    PROVE  files[SourceOf(t)].truth[i].time < files[SourceOf(t)].truth[j].time
<1> DEFINE truth == files[SourceOf(t)].truth
           samples == Tracks[t].samples
           time == [k \in DOMAIN truth |-> truth[k].time]
           lasts == [k \in DOMAIN truth |-> samples[k].duration]
           n == Len(truth)
<1>1. SourceOf(t) \in Sources /\ TrackTells(Tracks[t], SourceOf(t))
    BY TracksAreGood
<1>2. /\ \A k \in DOMAIN truth : samples[k].duration \in Nat \ {0}
      /\ \A k \in DOMAIN truth : truth[k].time = IF k = 1 THEN 0 ELSE truth[k - 1].time + samples[k - 1].duration
    BY <1>1, Zenon DEF TrackTells
<1>3. n \in Nat /\ DOMAIN truth = 1..n /\ \A k \in DOMAIN truth : truth[k].time \in Nat
    BY <1>1, TruthIs DEF FileInv
<1> HIDE DEF n, samples, truth
<1>4. \A k \in 1..n : time[k] = truth[k].time /\ lasts[k] = samples[k].duration
    BY <1>3
<1>5. \A k \in 1..n : time[k] \in Nat /\ lasts[k] \in Nat \ {0}
    BY <1>2, <1>3, <1>4
<1>6. \A k \in 1..n : time[k] = IF k = 1 THEN 0 ELSE time[k - 1] + lasts[k - 1]
    <2> SUFFICES ASSUME NEW k \in 1..n PROVE time[k] = IF k = 1 THEN 0 ELSE time[k - 1] + lasts[k - 1]
        OBVIOUS
    <2>1. time[k] = IF k = 1 THEN 0 ELSE truth[k - 1].time + samples[k - 1].duration
        BY <1>2, <1>3, <1>4
    <2>2. k # 1 => time[k - 1] = truth[k - 1].time /\ lasts[k - 1] = samples[k - 1].duration
        <3>1. k # 1 => k - 1 \in 1..n
            BY <1>3
        <3> QED
            BY <1>4, <3>1
    <2> QED
        BY <2>1, <2>2
<1>7. i \in 1..n /\ j \in 1..n
    BY <1>3 DEF truth
<1>8. time[i] < time[j]
    <2> HIDE DEF time, lasts
    <2> QED
        BY <1>3, <1>5, <1>6, <1>7, TimeGoesOn
<1> QED
    BY <1>4, <1>7, <1>8 DEF truth

LEMMA Cancels ==
    ASSUME NEW a \in Nat, NEW b \in Nat, NEW c \in Nat \ {0}, a * c <= b * c
    PROVE  a <= b
<1> SUFFICES ASSUME b < a PROVE FALSE
    OBVIOUS
<1>1. a * c \in Nat /\ b * c \in Nat /\ b * c < a * c
    BY TimesKeepsStrictly
<1> DEFINE x == a * c
           y == b * c
<1> HIDE DEF x, y
<1> QED
    BY <1>1 DEF x, y

LEMMA FilePlays == FileInv => PlaysWithoutJumps
<1> SUFFICES ASSUME FileInv, mp4 # <<>>, NEW i \in DOMAIN mp4[1].extents, NEW j \in DOMAIN mp4[1].extents, i < j
             PROVE  LET e == mp4[1].extents[i]
                        f == mp4[1].extents[j]
                        TimeAt(x) == LET k == CHOOSE n \in DOMAIN files[x.source].truth :
                                                files[x.source].truth[n].start = x.source_start
                                         other == IF x.source = "video" THEN "audio" ELSE "video"
                                     IN files[x.source].truth[k].time * files[other].track.timescale
                    IN e.end <= f.start /\ TimeAt(e) <= TimeAt(f)
    BY DEF PlaysWithoutJumps
<1> DEFINE E == mp4[1].extents
           P == SamplePlaces(Tracks)
           order == InOrder(Tracks)
           n == Cardinality(P)
           Other(s) == IF s = "video" THEN "audio" ELSE "video"
           At(x) == CHOOSE m \in DOMAIN files[x.source].truth : files[x.source].truth[m].start = x.source_start
           TimeAt(x) == files[x.source].truth[At(x)].time * files[Other(x.source)].track.timescale
           Scale(t) == Tracks[t].timescale
           Own(k) == SampleAt(Tracks, order[k]).decode_time
<1>1. /\ IsTracks(Tracks) /\ \A t \in 1..2 : SourceOf(t) \in Sources /\ TrackTells(Tracks[t], SourceOf(t))
      /\ DOMAIN Tracks = 1..2
    BY TracksAreGood, Zenon
<1>2. /\ DOMAIN E = 1..n
      /\ \A k \in 1..n : order[k] \in P /\ E[k].source = Tracks[order[k][1]].source
                         /\ E[k].source_start = SampleAt(Tracks, order[k]).offset
      /\ \A k, m \in 1..n : k < m => /\ E[k].end <= E[m].start
                                     /\ Own(k) * Scale(order[m][1]) <= Own(m) * Scale(order[k][1])
    BY TracksAreGood, Zenon DEF FillsItsFile
\* The sample an extent is taken from.
<1>3. ASSUME NEW k \in 1..n
      PROVE  /\ order[k][1] \in 1..2 /\ E[k].source = SourceOf(order[k][1])
             /\ Own(k) \in Nat /\ Scale(order[k][1]) \in Nat \ {0}
             /\ Scale(order[k][1]) = files[SourceOf(order[k][1])].track.timescale
             /\ TimeAt(E[k]) = Own(k) * files[Other(SourceOf(order[k][1]))].track.timescale
    <2>1. order[k] \in P
        BY <1>2
    <2> PICK t, m : t = order[k][1] /\ m = order[k][2]
        OBVIOUS
    <2>2. t \in 1..2 /\ m \in DOMAIN Tracks[t].samples
        BY <1>1, <2>1, PlacesAre
    <2> PICK s \in Sources : s = SourceOf(t)
        BY <1>1, <2>2
    <2>3. TrackTells(Tracks[t], s)
        BY <1>1, <2>2
    <2> DEFINE truth == files[s].truth
    <2>4. /\ Len(truth) \in Nat /\ DOMAIN truth = 1..Len(truth)
          /\ files[s].track.timescale \in Nat \ {0}
          /\ \A x \in DOMAIN truth : truth[x].time \in Nat /\ truth[x].start \in Nat
          /\ \A x, y \in DOMAIN truth : x < y => truth[x].start < truth[y].start
        BY TruthIs DEF FileInv
    <2>5. m \in DOMAIN truth /\ Tracks[t].samples[m].offset = truth[m].start
          /\ Tracks[t].samples[m].decode_time = truth[m].time
          /\ Tracks[t].source = s /\ Tracks[t].timescale = files[s].track.timescale
        BY <2>2, <2>3, Zenon DEF TrackTells
    <2>6. E[k].source = s /\ E[k].source_start = truth[m].start
        BY <1>2, <2>5, Zenon DEF SampleAt
    <2>7. \A x \in DOMAIN truth : truth[x].start = truth[m].start => x = m
        <3>1. ASSUME NEW x \in DOMAIN truth, truth[x].start = truth[m].start PROVE x = m
            <4> HIDE DEF truth
            <4>1. x \in Nat /\ m \in Nat
                <5>1. x \in 1..Len(truth) /\ m \in 1..Len(truth)
                    BY <2>4, <2>5
                <5> QED
                    BY <2>4, <5>1
            <4>2. ~(x < m) /\ ~(m < x)
                BY <2>4, <2>5, <3>1
            <4> QED
                BY <4>1, <4>2
        <3> QED
            BY <3>1
    <2>8. At(E[k]) = m
        <3>1. At(E[k]) = CHOOSE x \in DOMAIN truth : truth[x].start = truth[m].start
            BY <2>6
        <3> HIDE DEF truth, At
        <3> QED
            BY <2>5, <2>7, <3>1
    <2>9. TimeAt(E[k]) = truth[m].time * files[Other(s)].track.timescale
        <3> HIDE DEF At, E, Other
        <3> QED
            BY <2>6, <2>8
    <2> HIDE DEF TimeAt
    <2> QED
        BY <2>2, <2>4, <2>5, <2>6, <2>9 DEF SampleAt
<1>4. i \in 1..n /\ j \in 1..n
    BY <1>2
<1>5. E[i].end <= E[j].start /\ Own(i) * Scale(order[j][1]) <= Own(j) * Scale(order[i][1])
    BY <1>2, <1>4
<1>6. TimeAt(E[i]) <= TimeAt(E[j])
    <2> PICK t \in 1..2, u \in 1..2 : t = order[i][1] /\ u = order[j][1]
        BY <1>3, <1>4, Zenon
    <2> PICK a \in Nat, b \in Nat, c \in Nat \ {0}, d \in Nat \ {0} :
            a = Own(i) /\ b = Own(j) /\ c = Scale(u) /\ d = Scale(t)
        BY <1>3, <1>4
    <2>1. a * c <= b * d
        BY <1>5
    <2>2. /\ TimeAt(E[i]) = a * files[Other(SourceOf(t))].track.timescale
          /\ TimeAt(E[j]) = b * files[Other(SourceOf(u))].track.timescale
          /\ d = files[SourceOf(t)].track.timescale /\ c = files[SourceOf(u)].track.timescale
        BY <1>3, <1>4
    <2> HIDE DEF TimeAt, E, Own, Scale
    <2>3. CASE t = u
        <3>1. a <= b
            BY <2>1, <2>2, <2>3, Cancels
        <3>2. PICK o \in Nat : o = files[Other(SourceOf(t))].track.timescale
            <4>1. Other(SourceOf(t)) \in Sources
                BY DEF SourceOf, Sources
            <4> QED
                BY <4>1, TruthIs DEF FileInv
        <3>3. a * o <= b * o
            BY <3>1, TimesKeepsOrder
        <3> QED
            BY <2>2, <2>3, <3>2, <3>3
    <2>4. CASE t # u
        <3>1. Other(SourceOf(t)) = SourceOf(u) /\ Other(SourceOf(u)) = SourceOf(t)
            BY <2>4 DEF SourceOf
        <3>2. TimeAt(E[i]) = a * c /\ TimeAt(E[j]) = b * d
            BY <2>2, <3>1
        <3> QED
            BY <2>1, <3>2
    <2> QED
        BY <2>3, <2>4, Zenon
<1> QED
    BY <1>5, <1>6, Zenon

\* Whatever the tracks' time scales and fragments: in the order of the prepared
\* file time never goes back, and no sample overlaps the next.
THEOREM FileStaysInTime == Spec => []PlaysWithoutJumps
<1>1. Init => FileInv
    BY LoadsInit DEF Init, FileInv
<1> QED
    BY <1>1, FileStep, FilePlays, PTL DEF Spec

\* A time counts as in time when its whole milliseconds are.
CountsAsInTime(a, t, x) == (a * 1000) \div t <= x <=> a * 1000 < (x + 1) * t

LEMMA InTime ==
    ASSUME NEW a \in Nat, NEW t \in Nat \ {0}, NEW x \in Nat
    PROVE  CountsAsInTime(a, t, x)
<1> DEFINE b == a * 1000
           q == b \div t
<1>1. b \in Nat
    OBVIOUS
<1> HIDE DEF b
<1>2. q \in Nat /\ q * t <= b /\ b < (q + 1) * t
    BY <1>1
<1> HIDE DEF q
<1>3. CASE q <= x
    <2>1. (q + 1) * t <= (x + 1) * t
        BY <1>2, <1>3, TimesKeepsOrder
    <2>2. (q + 1) * t \in Nat /\ (x + 1) * t \in Nat
        BY <1>2
    <2> DEFINE u == (q + 1) * t
               v == (x + 1) * t
    <2> HIDE DEF u, v
    <2>3. b < v
        BY <1>1, <1>2, <2>1, <2>2 DEF u, v
    <2> QED
        BY <1>3, <2>3 DEF q, b, v, CountsAsInTime
<1>4. CASE ~(q <= x)
    <2>1. (x + 1) * t <= q * t
        BY <1>2, <1>4, TimesKeepsOrder
    <2>2. q * t \in Nat /\ (x + 1) * t \in Nat
        BY <1>2
    <2> DEFINE u == q * t
               v == (x + 1) * t
    <2> HIDE DEF u, v
    <2>3. ~(b < v)
        BY <1>1, <1>2, <2>1, <2>2 DEF u, v
    <2> QED
        BY <1>4, <2>3 DEF q, b, v, CountsAsInTime
<1> QED
    BY <1>3, <1>4

\* The seek points are the keyframes of the video.
LEMMA SeekPointsAre ==
    ASSUME FileInv, mp4 # <<>>
    PROVE  LET track == Tracks[1]
               keys == Keyframes(track)
               points == mp4[1].seek_points
           IN /\ IsTrack(track) /\ DOMAIN points = DOMAIN keys
              /\ points = [k \in DOMAIN keys |-> points[k]]
              /\ \A k \in DOMAIN keys :
                    /\ points[k].ms = (track.samples[keys[k]].decode_time * 1000) \div track.timescale
                    /\ points[k].offset = mp4[1].moov[1].co64[keys[k]]
<1> DEFINE offsets == Places(Tracks, mp4[1].header)
           videos == {t \in DOMAIN Tracks : Tracks[t].video}
           track == Tracks[1]
           keys == Keyframes(track)
           points == mp4[1].seek_points
<1>1. IsTracks(Tracks) /\ mp4[1] = finish(Tracks, movie_scale) /\ DOMAIN Tracks = 1..2
    BY TracksAreGood, Zenon
<1>2. 1 \in videos /\ videos \in SUBSET (1..2)
    <2>1. Tracks[1].video = files["video"].track.video
        BY TracksAreGood, TracksAreTwo DEF TrackTells
    <2>2. files["video"].track.video
        BY MediaAssumption DEF FileInv, LoadsInv
    <2>3. Tracks[1].video
        BY <2>1, <2>2, Zenon
    <2>4. 1 \in DOMAIN Tracks
        BY <1>1
    <2>5. 1 \in videos
        BY <2>3, <2>4, Zenon
    <2>6. videos \in SUBSET (1..2)
        BY <1>1
    <2> QED
        BY <2>5, <2>6
<1>3. SeekTrack(Tracks) = 1
    <2>1. SeekTrack(Tracks) = Min(videos)
        BY <1>2 DEF SeekTrack
    <2> HIDE DEF videos
    <2>2. Min(videos) \in videos /\ \A m \in videos : Min(videos) <= m
        BY <1>2, LeastExists
    <2>3. Min(videos) \in 1..2 /\ Min(videos) <= 1
        BY <1>2, <2>2
    <2>4. Min(videos) = 1
        BY <2>3
    <2> QED
        BY <2>1, <2>4
<1>4. mp4[1].seek_points = SeekPoints(Tracks[1], offsets[1]) /\ mp4[1].moov = build_moov(Tracks, movie_scale, offsets)
    BY <1>1, <1>3, FinishMakes
<1>5. mp4[1].moov[1].co64 = offsets[1]
    BY <1>1, <1>4 DEF build_moov, TablesOf
<1>6. IsTrack(Tracks[1])
    BY <1>1 DEF IsTracks
<1> HIDE DEF offsets
<1>7. points = [k \in DOMAIN keys |-> [ms |-> (track.samples[keys[k]].decode_time * 1000) \div track.timescale,
                                     offset |-> offsets[1][keys[k]]]]
    BY <1>4 DEF SeekPoints
<1> HIDE DEF keys, track, points
<1>8. /\ DOMAIN points = DOMAIN keys /\ points = [k \in DOMAIN keys |-> points[k]]
      /\ \A k \in DOMAIN keys : /\ points[k].ms = (track.samples[keys[k]].decode_time * 1000) \div track.timescale
                                /\ points[k].offset = mp4[1].moov[1].co64[keys[k]]
    BY <1>5, <1>7
<1> QED
    BY <1>6, <1>8 DEF keys, track, points

LEMMA FileWarms == FileInv => WarmsFromKeyframe
<1> SUFFICES ASSUME FileInv, mp4 # <<>>, NEW seconds \in Seconds
             PROVE  LET start == seek_warmup_range(mp4[1], seconds, WARMUP).start
                        truth == files["video"].truth
                        table == mp4[1].moov[1]
                        keys == {i \in DOMAIN truth : truth[i].sync}
                        target == seconds * 1000
                        early == {i \in keys : truth[i].time * 1000 < (target + 1) * files["video"].track.timescale}
                    IN early # {} => start = table.co64[Max(early)]
    BY DEF WarmsFromKeyframe
<1> DEFINE truth == files["video"].truth
           table == mp4[1].moov[1]
           K == {i \in DOMAIN truth : truth[i].sync}
           scale == files["video"].track.timescale
           target == seconds * 1000
           bound == (target + 1) * scale
           early == {i \in K : truth[i].time * 1000 < bound}
           track == Tracks[1]
           keys == Keyframes(track)
           points == mp4[1].seek_points
           m == Cardinality(K)
           S == {k \in DOMAIN points : points[k].ms <= target}
           index == Cardinality(S)
<1>1. /\ DOMAIN points = DOMAIN keys /\ points = [k \in DOMAIN keys |-> points[k]]
      /\ \A k \in DOMAIN keys : /\ points[k].ms = (track.samples[keys[k]].decode_time * 1000) \div track.timescale
                                /\ points[k].offset = table.co64[keys[k]]
      /\ IsTrack(track)
    BY SeekPointsAre
<1>2. /\ track.timescale = scale /\ DOMAIN track.samples = DOMAIN truth
      /\ \A i \in DOMAIN truth : track.samples[i].decode_time = truth[i].time /\ track.samples[i].sync = truth[i].sync
      /\ \A i, j \in DOMAIN truth : i < j => truth[i].time < truth[j].time
    <2>1. 1 \in 1..2 /\ SourceOf(1) = "video"
        BY DEF SourceOf
    <2>2. \A i, j \in DOMAIN truth : i < j => truth[i].time < truth[j].time
        BY <2>1, TruthGoesOn
    <2>3. TrackTells(track, "video")
        BY TracksAreGood, TracksAreTwo
    <2> HIDE DEF track
    <2> QED
        BY <2>2, <2>3, Zenon DEF TrackTells
<1>3. /\ scale \in Nat \ {0} /\ target \in Nat
      /\ Len(truth) \in Nat /\ DOMAIN truth = 1..Len(truth)
      /\ \A i \in DOMAIN truth : truth[i].time \in Nat
    BY TruthIs, MediaAssumption DEF FileInv, Sources
<1> HIDE DEF bound, truth, scale, target, track
<1>4. K = {i \in DOMAIN track.samples : track.samples[i].sync}
    BY <1>2
<1>5. /\ m \in Nat /\ DOMAIN keys = 1..m
      /\ \A k \in 1..m : keys[k] \in K
      /\ \A i \in K : \E k \in 1..m : keys[k] = i
      /\ \A j, k \in 1..m : j < k => keys[j] < keys[k]
    <2> DEFINE L == {i \in DOMAIN track.samples : track.samples[i].sync}
    <2>1. ListsInOrder(keys, L)
        <3>1. IsTrack(track)
            BY <1>1
        <3> QED
            BY <3>1, KeyframesInOrder, Zenon
    <2>2. K = L
        BY <1>4
    <2> HIDE DEF K, L, keys
    <2> QED
        BY <2>1, <2>2 DEF ListsInOrder
<1>6. \A i \in K : i \in Nat /\ i \in DOMAIN truth
    BY <1>3
<1>7. ASSUME NEW k \in 1..m PROVE k \in S <=> keys[k] \in early
    <2>1. keys[k] \in K /\ keys[k] \in DOMAIN truth
        BY <1>5, <1>6
    <2>2. points[k].ms = (truth[keys[k]].time * 1000) \div scale
        BY <1>1, <1>2, <1>5, <2>1
    <2> PICK a \in Nat : a = truth[keys[k]].time
        BY <1>3, <2>1
    <2>3. (a * 1000) \div scale <= target <=> a * 1000 < bound
        <3> PICK t \in Nat \ {0}, x \in Nat : t = scale /\ x = target
            BY <1>3
        <3>1. CountsAsInTime(a, t, x)
            BY InTime
        <3>2. CountsAsInTime(a, scale, target)
            BY <3>1
        <3> QED
            BY <3>2 DEF CountsAsInTime, bound
    <2> HIDE DEF K, keys, points
    <2> QED
        BY <1>1, <1>5, <2>1, <2>2, <2>3
<1>8. ASSUME NEW j \in 1..m, NEW k \in 1..m, j < k, keys[k] \in early PROVE keys[j] \in early
    <2>1. keys[j] \in K /\ keys[k] \in K /\ keys[j] < keys[k]
        BY <1>5, <1>8
    <2>2. truth[keys[j]].time < truth[keys[k]].time
        BY <1>2, <1>6, <2>1
    <2> PICK a \in Nat, b \in Nat : a = truth[keys[j]].time /\ b = truth[keys[k]].time
        BY <1>3, <1>6, <2>1
    <2>3. bound \in Nat
        BY <1>3 DEF bound
    <2> HIDE DEF K, keys
    <2>4. b * 1000 < bound
        <3>1. truth[keys[k]].time * 1000 < bound
            BY <1>8, Zenon
        <3> QED
            BY <3>1, Zenon
    <2>5. a < b
        BY <2>2
    <2>6. a * 1000 < bound
        BY ONLY <2>3, <2>4, <2>5, a \in Nat, b \in Nat
    <2> QED
        BY <2>1, <2>6
<1> HIDE DEF K, early, points, keys
<1>9. index \in 0..m /\ S = 1..index
    <2>1. S \in SUBSET (1..m)
        BY <1>1, <1>5
    <2>2. ASSUME NEW k \in S PROVE 1..k \subseteq S
        <3>1. k \in 1..m /\ keys[k] \in early
            BY <1>7, <2>1
        <3>2. ASSUME NEW j \in 1..k PROVE j \in S
            <4>1. j \in 1..m /\ (j = k \/ j < k)
                BY <1>5, <3>1
            <4> QED
                BY <1>7, <1>8, <3>1, <4>1
        <3> QED
            BY <3>2
    <2> HIDE DEF S
    <2> QED
        BY <1>5, <2>1, <2>2, Initial
<1> SUFFICES ASSUME early # {} PROVE seek_warmup_range(mp4[1], seconds, WARMUP).start = table.co64[Max(early)]
    BY DEF early, K, truth, table, target, scale, bound
<1>10. index \in 1..m
    <2>1. PICK i \in early : TRUE
        OBVIOUS
    <2>2. PICK k \in 1..m : keys[k] = i
        BY <1>5, <2>1 DEF early
    <2>3. k \in S
        BY <1>7, <2>1, <2>2
    <2> HIDE DEF S, index
    <2> QED
        BY <1>5, <1>9, <2>3
<1> HIDE DEF S, index
<1>11. Max(early) = keys[index]
    <2>1. index \in S
        <3> HIDE DEF S, index
        <3> QED
            BY <1>9, <1>10
    <2>2. keys[index] \in early /\ keys[index] \in Nat
        <3>1. keys[index] \in early
            BY <1>7, <1>10, <2>1
        <3> QED
            BY <1>5, <1>6, <1>10, <3>1
    <2> HIDE DEF S, index
    <2>3. ASSUME NEW i \in early PROVE i \in Nat /\ i <= keys[index]
        <3>1. PICK k \in 1..m : keys[k] = i
            BY <1>5 DEF early
        <3>2. k \in S /\ keys[k] \in Nat
            BY <1>5, <1>6, <1>7, <3>1
        <3>3. k = index \/ k < index
            BY <1>9, <1>10, <3>2
        <3> QED
            BY <1>5, <1>10, <2>2, <3>1, <3>2, <3>3
    <2>4. \A x \in early : (\A y \in early : x >= y) => x = keys[index]
        BY <2>2, <2>3
    <2>5. \A y \in early : keys[index] >= y
        BY <2>2, <2>3
    <2> QED
        BY <2>2, <2>4, <2>5 DEF Max
<1>12. seek_warmup_range(mp4[1], seconds, WARMUP).start = points[index].offset
    <2>1. points # <<>>
        BY <1>1, <1>5, <1>10
    <2>2. Max({index, 1}) = index
        <3> HIDE DEF index
        <3>1. index \in Nat /\ index >= 1
            BY <1>5, <1>10
        <3>2. \A x \in {index, 1} : (\A y \in {index, 1} : x >= y) => x = index
            BY <3>1
        <3>3. \A y \in {index, 1} : index >= y
            BY <3>1
        <3> QED
            BY <3>2, <3>3 DEF Max
    <2>3. Cardinality({k \in DOMAIN mp4[1].seek_points : mp4[1].seek_points[k].ms <= seconds * 1000}) = index
        BY DEF index, S, points, target
    <2> HIDE DEF index, S
    <2> QED
        BY <2>1, <2>2, <2>3 DEF seek_warmup_range, points
<1>13. points[index].offset = table.co64[keys[index]]
    BY <1>1, <1>5, <1>10
<1> QED
    BY <1>11, <1>12, <1>13, Zenon

\* For every target that has a keyframe in time, the warm-up begins with the last
\* of them: binary search and rounding to milliseconds included.
THEOREM WarmUpStaysOnKeyframes == Spec => []WarmsFromKeyframe
<1>1. Init => FileInv
    BY LoadsInit DEF Init, FileInv
<1> QED
    BY <1>1, FileStep, FileWarms, PTL DEF Spec

\* The tables of the prepared file are those of its tracks.
LEMMA TablesTell ==
    ASSUME FileInv, mp4 # <<>>, NEW t \in 1..2
    PROVE  TellTheTrack(mp4[1].moov[t], Tracks[t], movie_scale)
<1> DEFINE offsets == Places(Tracks, mp4[1].header)
<1>1. IsTracks(Tracks) /\ mp4[1] = finish(Tracks, movie_scale) /\ DOMAIN Tracks = 1..2
    BY TracksAreGood, Zenon
<1>2. mp4[1].moov = build_moov(Tracks, movie_scale, offsets)
    BY <1>1, FinishMakes
<1> HIDE DEF offsets
<1>3. mp4[1].moov[t] = TablesOf(Tracks[t], movie_scale, offsets[t])
    BY <1>1, <1>2 DEF build_moov
<1> PICK s \in Sources : s = SourceOf(t)
    BY TracksAreGood
<1> PICK track : track = Tracks[t]
    OBVIOUS
<1>4. TrackTells(track, s)
    BY TracksAreGood
<1>5. IsTrack(track) /\ track.samples # <<>>
    BY <1>1, TracksAreGood DEF IsTracks, HasTracks, CanFinish
<1>6. \A i \in DOMAIN track.samples : track.samples[i].duration \in Nat \ {0}
    BY <1>4, Zenon DEF TrackTells
<1>7. track.edit \in Nat \cup {NoEdit}
    <2>1. IsDecoded(s, files[s])
        BY MediaAssumption DEF FileInv, LoadsInv
    <2>2. files[s].track.edit \in Nat \cup {NoEdit}
        BY <2>1, Zenon DEF IsDecoded
    <2> QED
        BY <1>4, <2>2, Zenon DEF TrackTells
<1>8. movie_scale \in Nat \ {0}
    BY DashAssumption
<1> PICK places : places = offsets[t]
    OBVIOUS
<1>9. TellTheTrack(TablesOf(track, movie_scale, places), track, movie_scale)
    BY <1>5, <1>6, <1>7, <1>8, TablesTellTheTrack
<1> QED
    BY <1>3, <1>9

LEMMA FileTells == FileInv => HeaderTellsTheTruth
<1> SUFFICES ASSUME FileInv, mp4 # <<>>, NEW t \in DOMAIN mp4[1].moov
             PROVE  LET s == IF t = 1 THEN "video" ELSE "audio"
                        table == mp4[1].moov[t]
                        truth == files[s].truth
                    IN /\ table.stsz = [i \in DOMAIN truth |-> truth[i].size]
                       /\ Counted(table.stts, Len(table.stts)) = Len(truth)
                       /\ \A i \in DOMAIN truth :
                            SumFunctionOnSet([j \in DOMAIN truth |-> ValueOf(table.stts, j)], 1..(i - 1)) = truth[i].time
                       /\ table.ctts # <<>> => Counted(table.ctts, Len(table.ctts)) = Len(truth)
                       /\ \A i \in DOMAIN truth : (IF table.ctts = <<>> THEN 0 ELSE ValueOf(table.ctts, i)) = truth[i].cts
                       /\ {i \in DOMAIN truth : truth[i].sync} =
                            (IF table.stss = <<>> THEN DOMAIN truth ELSE ToSet(table.stss[1]))
                       /\ table.edit # NoEdit => table.edit > 0
                       /\ table.movie_duration * files[s].track.timescale >= table.duration * movie_scale
    BY Zenon DEF HeaderTellsTheTruth
<1>1. t \in 1..2
    BY TracksAreGood DEF PointsToSamples
<1> PICK s \in Sources : s = SourceOf(t)
    BY <1>1, TracksAreGood
<1> DEFINE table == mp4[1].moov[t]
           track == Tracks[t]
           truth == files[s].truth
           n == Len(truth)
           lasts == [j \in DOMAIN truth |-> ValueOf(table.stts, j)]
           time == [j \in DOMAIN truth |-> truth[j].time]
<1>2. /\ n \in Nat /\ DOMAIN truth = 1..n
      /\ \A i \in DOMAIN truth : truth[i].time \in Nat
    BY TruthIs DEF FileInv
<1>3. TrackTells(track, s)
    BY <1>1, TracksAreGood
<1>4. /\ Len(track.samples) = n /\ track.timescale = files[s].track.timescale
      /\ \A i \in DOMAIN truth :
           /\ track.samples[i].size = truth[i].size /\ track.samples[i].duration \in Nat \ {0}
           /\ track.samples[i].cts = truth[i].cts /\ track.samples[i].sync = truth[i].sync
      /\ \A i \in DOMAIN truth :
           truth[i].time = IF i = 1 THEN 0 ELSE truth[i - 1].time + track.samples[i - 1].duration
    BY <1>3, Zenon DEF TrackTells
<1>5. TellTheTrack(table, track, movie_scale)
    BY <1>1, TablesTell
<1> HIDE DEF n, table, track, truth
<1>6. /\ table.stsz = [i \in 1..n |-> track.samples[i].size]
      /\ Counted(table.stts, Len(table.stts)) = n
      /\ \A i \in 1..n : ValueOf(table.stts, i) = track.samples[i].duration
      /\ table.ctts # <<>> => Counted(table.ctts, Len(table.ctts)) = n
      /\ \A i \in 1..n : (IF table.ctts = <<>> THEN 0 ELSE ValueOf(table.ctts, i)) = track.samples[i].cts
      /\ {i \in 1..n : track.samples[i].sync} = (IF table.stss = <<>> THEN 1..n ELSE ToSet(table.stss[1]))
      /\ table.edit # NoEdit => table.edit > 0
      /\ table.movie_duration * track.timescale >= table.duration * movie_scale
    BY <1>4, <1>5, Zenon DEF TellTheTrack
<1>7. table.stsz = [i \in DOMAIN truth |-> truth[i].size]
    BY <1>2, <1>4, <1>6
<1>8. \A i \in DOMAIN truth : (IF table.ctts = <<>> THEN 0 ELSE ValueOf(table.ctts, i)) = truth[i].cts
    BY <1>2, <1>4, <1>6, Zenon
<1>9. {i \in DOMAIN truth : truth[i].sync} = (IF table.stss = <<>> THEN DOMAIN truth ELSE ToSet(table.stss[1]))
    <2>1. {i \in DOMAIN truth : truth[i].sync} = {i \in 1..n : track.samples[i].sync}
        BY <1>2, <1>4
    <2> QED
        BY <1>2, <1>6, <2>1, Zenon
<1>10. \A i \in DOMAIN truth : SumFunctionOnSet(lasts, 1..(i - 1)) = truth[i].time
    <2> SUFFICES ASSUME NEW i \in DOMAIN truth PROVE SumFunctionOnSet(lasts, 1..(i - 1)) = truth[i].time
        OBVIOUS
    <2>1. \A j \in 1..n : lasts[j] = track.samples[j].duration /\ time[j] = truth[j].time
        BY <1>2, <1>6
    <2>2. lasts \in [1..n -> Nat] /\ \A j \in 1..n : time[j] \in Nat
        BY <1>2, <1>4, <2>1
    <2>3. \A j \in 1..n : time[j] = IF j = 1 THEN 0 ELSE time[j - 1] + lasts[j - 1]
        <3> SUFFICES ASSUME NEW j \in 1..n PROVE time[j] = IF j = 1 THEN 0 ELSE time[j - 1] + lasts[j - 1]
            OBVIOUS
        <3>1. time[j] = IF j = 1 THEN 0 ELSE truth[j - 1].time + track.samples[j - 1].duration
            BY <1>2, <1>4, <2>1
        <3>2. j # 1 => time[j - 1] = truth[j - 1].time /\ lasts[j - 1] = track.samples[j - 1].duration
            <4>1. j # 1 => j - 1 \in 1..n
                BY <1>2
            <4> HIDE DEF lasts, time
            <4> QED
                BY <2>1, <4>1
        <3> QED
            BY <3>1, <3>2
    <2>4. i \in 1..n /\ time[i] = truth[i].time
        BY <1>2
    <2> HIDE DEF lasts, time
    <2> QED
        BY <1>2, <2>2, <2>3, <2>4, TimesAddUp, ZenonT(30)
<1>11. SourceOf(t) = (IF t = 1 THEN "video" ELSE "audio") /\ s = SourceOf(t)
    BY DEF SourceOf
<1>12. s = (IF t = 1 THEN "video" ELSE "audio")
    BY <1>11
<1> HIDE DEF lasts
<1>13. /\ Counted(table.stts, Len(table.stts)) = Len(truth)
       /\ table.ctts # <<>> => Counted(table.ctts, Len(table.ctts)) = Len(truth)
       /\ table.edit # NoEdit => table.edit > 0
       /\ table.movie_duration * files[s].track.timescale >= table.duration * movie_scale
    BY <1>4, <1>6, Zenon DEF n
<1> QED
    BY <1>7, <1>8, <1>9, <1>10, <1>12, <1>13, Zenon DEF table, truth, lasts

\* Whatever the sources' fragments, times and keyframes: the header of the prepared
\* file tells them.
THEOREM HeaderStaysTrue == Spec => []HeaderTellsTheTruth
<1>1. Init => FileInv
    BY LoadsInit DEF Init, FileInv
<1> QED
    BY <1>1, FileStep, FileTells, PTL DEF Spec

\* A source is refused for what is wrong with it, and what is read on has a header
\* and an index that are right.
RefusedWell(s) ==
    /\ loads[s].phase = "refused" => ~IsSound(s, files[s])
    /\ loads[s].phase \in {"fragments", "done"} =>
          HeaderIsValid(files[s]) /\ SegmentsAreValid(files[s].sidx, files[s].length)

\* Once prepare has ended, the file is what the sources make, or there is none.
RefusalInv ==
    /\ FileInv
    /\ \A s \in Sources : RefusedWell(s)
    /\ prepared => Loaded /\ mp4 = PreparedFile

\* A head that is not found is missing in the file.
LEMMA MissingHead ==
    ASSUME LoadsInv, NEW s \in Sources, loads[s].phase = "fragments",
           ~IsFound(s, Len(loads[s].fragments) + 1)
    PROVE  ~IsSound(s, files[s])
<1>1. Len(loads[s].fragments) + 1 \in 1..Segments(s) /\ DOMAIN segments(files[s].sidx) = 1..Segments(s)
    <2>1. files[s].sidx.sizes \in Seq(Nat)
        BY DashAssumption DEF LoadsInv, IsIndex
    <2>2. Len(loads[s].fragments) \in 0..Segments(s) /\ Len(loads[s].fragments) < Segments(s)
        BY DEF LoadsInv, Progress
    <2>3. DOMAIN segments(files[s].sidx) = 1..Segments(s) /\ Segments(s) \in Nat
        BY <2>1 DEF segments, Segments
    <2> QED
        BY <2>2, <2>3
<1>2. ~HeadsAreFound(files[s])
    BY <1>1, Zenon DEF HeadsAreFound, IsFound
<1> QED
    BY <1>2, Zenon DEF IsSound

LEMMA LoadsRefuseWell ==
    ASSUME LoadsInv, \A s \in Sources : RefusedWell(s), LoadStep
    PROVE  (\A s \in Sources : RefusedWell(s))'
<1>1. PICK s \in Sources : ReadsIndex(s) \/ FetchFails(s) \/ TakesFragment(s)
            \/ \E k \in InFlight(s) : FragmentArrives(s, k)
    BY ZenonT(30) DEF LoadStep
<1>2. files' = files
    BY <1>1 DEF ReadsIndex, FetchFails, TakesFragment, FragmentArrives, Fails
<1>3. ASSUME NEW r \in Sources, loads'[r].phase = loads[r].phase PROVE RefusedWell(r)'
    BY <1>2, <1>3 DEF RefusedWell
<1>4. ASSUME NEW how, NEW more, LoadTakes(s, how, more),
             how = "refused" => ~IsSound(s, files[s]),
             how \in {"fragments", "done"} =>
                HeaderIsValid(files[s]) /\ SegmentsAreValid(files[s].sidx, files[s].length)
      PROVE  (\A r \in Sources : RefusedWell(r))'
    <2>1. loads'[s].phase = how /\ \A r \in Sources : r # s => loads'[r] = loads[r]
        BY <1>4, LoadChanges
    <2>2. RefusedWell(s)'
        BY <1>2, <1>4, <2>1 DEF RefusedWell
    <2>3. \A r \in Sources : r # s => RefusedWell(r)'
        BY <1>3, <2>1
    <2> QED
        BY <2>2, <2>3
\* A step that changes the phase only.
<1>5. ASSUME NEW how, loads' = [loads EXCEPT ![s].phase = how]
      PROVE  LoadTakes(s, how, loads[s].fragments)
    <2>1. DOMAIN loads = Sources /\ loads[s] = [phase |-> loads[s].phase, arrived |-> loads[s].arrived,
                                                fragments |-> loads[s].fragments]
        BY DEF LoadsInv, LoadsShape
    <2>2. [loads EXCEPT ![s].fragments = loads[s].fragments] = loads
        BY <2>1 DEF LoadsInv, LoadsShape
    <2> QED
        BY <1>5, <2>2 DEF LoadTakes
<1>6. CASE ReadsIndex(s)
    <2>1. CASE HeaderIsValid(files[s]) /\ SegmentsAreValid(files[s].sidx, files[s].length)
        <3>1. loads' = [loads EXCEPT ![s].phase = "fragments"]
            BY <1>6, <2>1 DEF ReadsIndex
        <3> QED
            BY <1>4, <1>5, <2>1, <3>1
    <2>2. CASE ~(HeaderIsValid(files[s]) /\ SegmentsAreValid(files[s].sidx, files[s].length))
        <3>1. loads' = [loads EXCEPT ![s].phase = "refused"]
            BY <1>6, <2>2 DEF ReadsIndex, Fails
        <3>2. ~IsSound(s, files[s])
            BY <2>2, Zenon DEF IsSound
        <3> QED
            BY <1>4, <1>5, <3>1, <3>2
    <2> QED
        BY <2>1, <2>2
<1>7. CASE FetchFails(s)
    <2>1. loads' = [loads EXCEPT ![s].phase = "lost"]
        BY <1>7 DEF FetchFails, Fails
    <2> QED
        BY <1>4, <1>5, <2>1
<1>8. CASE TakesFragment(s)
    <2> DEFINE k == Len(loads[s].fragments) + 1
               range == segments(files[s].sidx)[k]
               how == IF k = Len(files[s].sidx.sizes) THEN "done" ELSE loads[s].phase
               more == Append(loads[s].fragments, FragmentOf(files[s], range))
    <2>1. loads[s].phase = "fragments"
        BY <1>8 DEF TakesFragment
    <2>2. CASE IsFound(s, k)
        <3>1. loads' = [loads EXCEPT ![s].fragments = more, ![s].phase = how]
            BY <1>8, <2>2 DEF TakesFragment, IsFound
        <3>2. LoadTakes(s, how, more)
            BY <3>1, Zenon DEF LoadTakes
        <3>3. how \in {"fragments", "done"}
            BY <2>1
        <3>4. HeaderIsValid(files[s]) /\ SegmentsAreValid(files[s].sidx, files[s].length)
            BY <2>1 DEF RefusedWell
        <3> HIDE DEF how, more
        <3> QED
            BY <1>4, <3>2, <3>3, <3>4
    <2>3. CASE ~IsFound(s, k)
        <3>1. loads' = [loads EXCEPT ![s].phase = "refused"]
            BY <1>8, <2>3 DEF TakesFragment, IsFound, Fails
        <3>2. ~IsSound(s, files[s])
            BY <2>1, <2>3, MissingHead
        <3> QED
            BY <1>4, <1>5, <3>1, <3>2
    <2> QED
        BY <2>2, <2>3
<1>9. CASE \E k \in InFlight(s) : FragmentArrives(s, k)
    <2>1. PICK k : loads' = [loads EXCEPT ![s].arrived = @ \cup {k}]
        BY <1>9 DEF FragmentArrives
    <2>2. \A r \in Sources : loads'[r].phase = loads[r].phase
        BY <2>1 DEF LoadsInv, LoadsShape
    <2> QED
        BY <1>3, <2>2
<1> QED
    BY <1>1, <1>6, <1>7, <1>8, <1>9

LEMMA RefusalStep == RefusalInv /\ [Next]_vars => RefusalInv'
<1> SUFFICES ASSUME RefusalInv, [Next]_vars PROVE RefusalInv'
    OBVIOUS
<1>1. FileInv' /\ FileInv /\ LoadsInv
    BY FileStep DEF RefusalInv, FileInv
<1>2. ASSUME UNCHANGED <<files, loads>> PROVE (\A s \in Sources : RefusedWell(s))'
    BY <1>2 DEF RefusalInv, RefusedWell
<1>3. CASE UNCHANGED <<files, loads, mp4, prepared>>
    BY <1>1, <1>2, <1>3, TracksStay DEF RefusalInv
<1>4. CASE LoadStep /\ UNCHANGED <<mux, mp4, prepared, answer>>
    <2>1. (\A s \in Sources : RefusedWell(s))'
        BY <1>1, <1>4, LoadsRefuseWell DEF RefusalInv
    <2>2. ~prepared'
        BY <1>4, LoadStepIsEarly DEF RefusalInv
    <2> QED
        BY <1>1, <2>1, <2>2 DEF RefusalInv
<1>5. CASE Prepares
    <2>1. UNCHANGED <<files, loads>> /\ Loaded /\ mp4' = PreparedFile
        BY <1>5 DEF Prepares
    <2> QED
        BY <1>1, <1>2, <2>1, TracksStay DEF RefusalInv
<1>6. CASE MuxStep /\ UNCHANGED <<mp4, prepared, answer>>
    <2>1. UNCHANGED <<files, loads>>
        BY <1>6, ZenonT(30) DEF MuxStep, MuxOpens, MuxSeeks, MuxTakes, MuxEnds, MuxBreaks
    <2> QED
        BY <1>3, <1>6, <2>1
<1>7. CASE \E header \in Headers, get, sameFile \in BOOLEAN : Serves(get, sameFile, header)
    <2>1. UNCHANGED <<files, loads, mp4, prepared>>
        BY <1>7, ZenonT(30) DEF Serves
    <2> QED
        BY <1>3, <2>1
<1>8. UNCHANGED vars => RefusalInv'
    BY <1>3 DEF vars
<1> QED
    BY <1>4, <1>5, <1>6, <1>7, <1>8 DEF Next

\* Everything add_fragment refuses a fragment for, for all fragments of a file.
FragmentsAreSound(s, file) ==
    /\ SamplesLieInside(file) /\ HasNoGap(s, file)
    /\ \A k \in DOMAIN HeadsOf(file) :
          LET moof == HeadsOf(file)[k].moof
          IN moof.base # "previous" /\ (moof.runs # <<>> => Head(moof.runs).at # NoOffset)

\* Does every sample of the track end before the file does?
SamplesFit(samples, file) == \A i \in DOMAIN samples : samples[i].offset + samples[i].size <= file.length

SamplesIn(s) == TrackUntil(s, files[s], Len(segments(files[s].sidx))).samples

LEMMA SoundIs ==
    ASSUME NEW s
    PROVE  IsSound(s, files[s]) <=>
             /\ HeaderIsValid(files[s]) /\ SegmentsAreValid(files[s].sidx, files[s].length)
             /\ HeadsAreFound(files[s]) /\ FragmentsAreSound(s, files[s])
             /\ SamplesIn(s) # <<>> /\ SamplesFit(SamplesIn(s), files[s])
<1> DEFINE file == files[s]
           runs == \A k \in DOMAIN HeadsOf(file) :
                      LET moof == HeadsOf(file)[k].moof
                      IN moof.base # "previous" /\ (moof.runs # <<>> => Head(moof.runs).at # NoOffset)
           fit == SamplesFit(SamplesIn(s), file)
<1>1. fit <=> \A i \in DOMAIN SamplesIn(s) : SamplesIn(s)[i].offset + SamplesIn(s)[i].size <= file.length
    BY DEF SamplesFit
<1>2. FragmentsAreSound(s, file) <=> SamplesLieInside(file) /\ HasNoGap(s, file) /\ runs
    BY Zenon DEF FragmentsAreSound
<1>3. IsSound(s, file) <=>
             /\ HeaderIsValid(file) /\ SegmentsAreValid(file.sidx, file.length)
             /\ HeadsAreFound(file) /\ SamplesLieInside(file) /\ HasNoGap(s, file) /\ runs
             /\ SamplesIn(s) # <<>>
             /\ \A i \in DOMAIN SamplesIn(s) : SamplesIn(s)[i].offset + SamplesIn(s)[i].size <= file.length
    BY Zenon DEF IsSound, SamplesIn
<1> HIDE DEF runs, fit
<1> QED
    BY <1>1, <1>2, <1>3, Zenon DEF fit

LEMMA FragmentsOfSources ==
    ASSUME LoadsInv, Loaded
    PROVE  EveryFragmentIsValid <=> \A s \in Sources : FragmentsAreSound(s, files[s])
<1>1. ASSUME NEW s \in Sources
      PROVE  FragmentsAreSound(s, files[s]) <=>
                \A n \in DOMAIN loads[s].fragments :
                   FragmentIsValid(TrackAfter(s, n - 1), loads[s].fragments[n].moof, loads[s].fragments[n].media)
    <2> DEFINE heads == HeadsOf(files[s])
    <2>1. loads[s].fragments = heads /\ \A k : TrackAfter(s, k) = TrackUntil(s, files[s], k)
        BY HeadsAreTaken DEF Loaded
    <2>2. (\A n \in DOMAIN loads[s].fragments :
              FragmentIsValid(TrackAfter(s, n - 1), loads[s].fragments[n].moof, loads[s].fragments[n].media))
          <=> \A n \in DOMAIN heads : FragmentIsValid(TrackUntil(s, files[s], n - 1), heads[n].moof, heads[n].media)
        <3> HIDE DEF heads
        <3> QED
            BY <2>1
    <2>3. FragmentsAreSound(s, files[s])
          <=> \A n \in DOMAIN heads : FragmentIsValid(TrackUntil(s, files[s], n - 1), heads[n].moof, heads[n].media)
        BY DEF FragmentsAreSound, FragmentIsValid, SamplesLieInside, HasNoGap
    <2> QED
        BY <2>2, <2>3, Zenon
<1> QED
    BY <1>1, Zenon DEF EveryFragmentIsValid

LEMMA TracksOfSources ==
    ASSUME LoadsInv, Loaded
    PROVE  /\ CanFinish(Tracks) <=> \A s \in Sources : SamplesIn(s) # <<>>
           /\ Tracks[1].samples = SamplesIn("video") /\ Tracks[2].samples = SamplesIn("audio")
<1> DEFINE T(s) == TrackAfter(s, Len(loads[s].fragments))
<1>1. ASSUME NEW s \in Sources PROVE T(s).samples = SamplesIn(s)
    BY HeadsAreTaken DEF Loaded, SamplesIn
<1>2. Tracks = <<T("video"), T("audio")>>
    BY DEF Tracks
<1> HIDE DEF T
<1>3. /\ Tracks # <<>> /\ DOMAIN Tracks = 1..2
      /\ Tracks[1].samples = SamplesIn("video") /\ Tracks[2].samples = SamplesIn("audio")
    BY <1>1, <1>2 DEF Sources
<1>4. CanFinish(Tracks) <=> Tracks[1].samples # <<>> /\ Tracks[2].samples # <<>>
    BY <1>3 DEF CanFinish
<1> QED
    BY <1>3, <1>4 DEF Sources

\* validate_sources looks at the extents of the new file, which are the samples.
LEMMA ExtentsOfSources ==
    ASSUME LoadsInv, HasTracks
    PROVE  validate_sources(finish(Tracks, movie_scale), [s \in Sources |-> files[s].length])
             <=> \A s \in Sources : SamplesFit(SamplesIn(s), files[s])
<1> DEFINE file == finish(Tracks, movie_scale)
           order == InOrder(Tracks)
           n == Cardinality(SamplePlaces(Tracks))
           Fits(t, i) == Tracks[t].samples[i].offset + Tracks[t].samples[i].size <= files[SourceOf(t)].length
<1>1. /\ DOMAIN Tracks = 1..2 /\ FillsItsFile(Tracks, file)
      /\ \A t \in 1..2 : SourceOf(t) \in Sources /\ TrackTells(Tracks[t], SourceOf(t))
    BY TracksAreTracks, SamplesAreLaidOut
<1>2. /\ DOMAIN file.extents = 1..n
      /\ \A k \in 1..n : order[k] \in SamplePlaces(Tracks)
      /\ \A p \in SamplePlaces(Tracks) : \E k \in 1..n : order[k] = p
      /\ \A k \in 1..n : /\ file.extents[k].start \in Nat
                         /\ file.extents[k].end = file.extents[k].start + SampleAt(Tracks, order[k]).size
                         /\ file.extents[k].source = Tracks[order[k][1]].source
                         /\ file.extents[k].source_start = SampleAt(Tracks, order[k]).offset
    BY <1>1, Zenon DEF FillsItsFile
<1> HIDE DEF file
<1>3. ASSUME NEW k \in 1..n
      PROVE  (file.extents[k].source_start + (file.extents[k].end - file.extents[k].start)
                <= [s \in Sources |-> files[s].length][file.extents[k].source]) <=> Fits(order[k][1], order[k][2])
    <2>1. order[k] \in SamplePlaces(Tracks)
        BY <1>2
    <2> PICK t, i : t = order[k][1] /\ i = order[k][2]
        OBVIOUS
    <2>2. t \in 1..2 /\ i \in DOMAIN Tracks[t].samples
        BY <1>1, <2>1, PlacesAre
    <2> PICK s \in Sources : s = SourceOf(t)
        BY <1>1, <2>2
    <2>3. TrackTells(Tracks[t], s)
        BY <1>1, <2>2
    <2>4. /\ Tracks[t].source = s /\ i \in DOMAIN files[s].truth
          /\ Tracks[t].samples[i].size = files[s].truth[i].size
        BY <2>2, <2>3, ZenonT(30) DEF TrackTells
    <2>5. PICK size \in Nat, from \in Nat : size = Tracks[t].samples[i].size /\ from = file.extents[k].start
        BY <1>2, <2>4, TruthIs
    <2>6. SampleAt(Tracks, order[k]) = Tracks[t].samples[i]
        BY Zenon DEF SampleAt
    <2>7. file.extents[k].end = from + size /\ file.extents[k].source = s
          /\ file.extents[k].source_start = Tracks[t].samples[i].offset
        BY <1>2, <2>4, <2>5, <2>6
    <2>8. file.extents[k].end - file.extents[k].start = size
        BY <2>5, <2>7
    <2>9. [r \in Sources |-> files[r].length][file.extents[k].source] = files[s].length
        BY <2>7
    <2> QED
        BY <2>5, <2>7, <2>8, <2>9
<1>4. validate_sources(file, [s \in Sources |-> files[s].length]) <=> \A k \in 1..n : Fits(order[k][1], order[k][2])
    <2> DEFINE lengths == [s \in Sources |-> files[s].length]
    <2>1. validate_sources(file, lengths) <=>
             \A k \in 1..n : file.extents[k].source_start + (file.extents[k].end - file.extents[k].start)
                               <= lengths[file.extents[k].source]
        BY <1>2 DEF validate_sources
    <2> HIDE DEF n, order, Fits
    <2> QED
        BY <1>3, <2>1
<1>5. (\A k \in 1..n : Fits(order[k][1], order[k][2])) <=> \A t \in 1..2 : \A i \in DOMAIN Tracks[t].samples : Fits(t, i)
    <2> HIDE DEF n, order, Fits
    <2>1. \A k \in 1..n : order[k][1] \in 1..2 /\ order[k][2] \in DOMAIN Tracks[order[k][1]].samples
        BY <1>1, <1>2, PlacesAre
    <2>2. ASSUME NEW t \in 1..2, NEW i \in DOMAIN Tracks[t].samples
          PROVE  \E k \in 1..n : order[k][1] = t /\ order[k][2] = i
        <3>1. <<t, i>> \in SamplePlaces(Tracks)
            BY <1>1, <2>2 DEF SamplePlaces
        <3>2. PICK k \in 1..n : order[k] = <<t, i>>
            BY <1>2, <3>1
        <3> QED
            BY <3>2
    <2> QED
        BY <2>1, <2>2
<1>6. (\A t \in 1..2 : \A i \in DOMAIN Tracks[t].samples : Fits(t, i)) <=> \A s \in Sources : SamplesFit(SamplesIn(s), files[s])
    <2>1. Tracks[1].samples = SamplesIn("video") /\ Tracks[2].samples = SamplesIn("audio")
        BY TracksOfSources DEF HasTracks
    <2>2. SourceOf(1) = "video" /\ SourceOf(2) = "audio"
        BY DEF SourceOf
    <2>3. (\A i \in DOMAIN Tracks[1].samples : Fits(1, i)) <=> SamplesFit(SamplesIn("video"), files["video"])
        BY <2>1, <2>2 DEF SamplesFit
    <2>4. (\A i \in DOMAIN Tracks[2].samples : Fits(2, i)) <=> SamplesFit(SamplesIn("audio"), files["audio"])
        BY <2>1, <2>2 DEF SamplesFit
    <2> HIDE DEF Fits
    <2>5. \A t \in 1..2 : t = 1 \/ t = 2
        OBVIOUS
    <2> QED
        BY <2>3, <2>4, <2>5 DEF Sources
<1> QED
    BY <1>4, <1>5, <1>6, Zenon DEF file

\* A file is made of sources with nothing wrong, and of them only.
LEMMA SoundSourcesMakeTheFile ==
    ASSUME LoadsInv, Loaded, \A s \in Sources : RefusedWell(s)
    PROVE  PreparedFile # <<>> <=> \A s \in Sources : IsSound(s, files[s])
<1> DEFINE fits == validate_sources(finish(Tracks, movie_scale), [s \in Sources |-> files[s].length])
<1>1. PreparedFile # <<>> <=> HasTracks /\ fits
    BY DEF PreparedFile, HasTracks
<1>2. ASSUME NEW s \in Sources
      PROVE  /\ HeaderIsValid(files[s]) /\ SegmentsAreValid(files[s].sidx, files[s].length)
             /\ HeadsAreFound(files[s])
    BY HeadsAreTaken DEF Loaded, RefusedWell
<1>3. HasTracks <=> \A s \in Sources : FragmentsAreSound(s, files[s]) /\ SamplesIn(s) # <<>>
    BY FragmentsOfSources, TracksOfSources, Zenon DEF HasTracks
<1>4. HasTracks => (fits <=> \A s \in Sources : SamplesFit(SamplesIn(s), files[s]))
    BY ExtentsOfSources
<1>5. \A s \in Sources : IsSound(s, files[s]) <=>
         FragmentsAreSound(s, files[s]) /\ SamplesIn(s) # <<>> /\ SamplesFit(SamplesIn(s), files[s])
    BY <1>2, SoundIs, Zenon
<1> HIDE DEF fits
<1> QED
    BY <1>1, <1>3, <1>4, <1>5, Zenon

LEMMA OnlyBrokenRefused == RefusalInv => OnlyBrokenFilesAreRefused
<1> SUFFICES ASSUME RefusalInv PROVE OnlyBrokenFilesAreRefused
    OBVIOUS
<1>1. \A s \in Sources : files[s].broken <=> ~IsSound(s, files[s])
    BY MediaAssumption DEF RefusalInv, FileInv, LoadsInv
<1>2. (\E s \in Sources : loads[s].phase = "refused") => \E s \in Sources : files[s].broken
    BY <1>1 DEF RefusalInv, RefusedWell
<1>3. prepared => (mp4 = <<>> <=> \E s \in Sources : files[s].broken)
    <2> SUFFICES ASSUME prepared PROVE mp4 = <<>> <=> \E s \in Sources : files[s].broken
        OBVIOUS
    <2>1. PreparedFile # <<>> <=> \A s \in Sources : IsSound(s, files[s])
        BY SoundSourcesMakeTheFile DEF RefusalInv, FileInv
    <2>2. mp4 = PreparedFile
        BY DEF RefusalInv
    <2> QED
        BY <1>1, <2>1, <2>2, Zenon
<1> QED
    BY <1>2, <1>3 DEF OnlyBrokenFilesAreRefused

\* Whatever the order of the heads and of the sources: a file that nothing is wrong
\* with is never refused for its content, and one that is broken is never served.
THEOREM OnlyBrokenStayRefused == Spec => []OnlyBrokenFilesAreRefused
<1>1. Init => RefusalInv
    <2> SUFFICES ASSUME Init PROVE RefusalInv
        OBVIOUS
    <2>1. FileInv /\ ~prepared
        BY LoadsInit DEF Init, FileInv
    <2>2. \A s \in Sources : RefusedWell(s)
        BY DEF Init, DashInit, NotLoaded, RefusedWell
    <2> QED
        BY <2>1, <2>2 DEF RefusalInv
<1> QED
    BY <1>1, RefusalStep, OnlyBrokenRefused, PTL DEF Spec

-----------------------------------------------------------------------------
(* The answers of the virtual file.                                        *)

\* The bytes of a source, each at its own place.
SourceBytes(source) == [q \in Nat |-> <<source, q>>]

LEMMA PartReads ==
    ASSUME NEW p, NEW s, p.start \in Nat, p.end \in Nat, p.source = s
    PROVE  PartBytes(p) = Reading(SourceBytes(s), p.start, p.end)
<1> DEFINE m == p.end - p.start
<1>1. \A k \in 1..m : p.start + k - 1 \in Nat
    OBVIOUS
<1>2. \A k \in 1..m : SourceBytes(s)[p.start + k - 1] = <<s, p.start + k - 1>>
    BY <1>1 DEF SourceBytes
<1> QED
    BY <1>2 DEF PartBytes, Reading

LEMMA BlocksOfPart ==
    ASSUME NEW x \in Nat, NEW y \in Nat, x <= y, NEW b \in Nat \ {0}, NEW count, count = (y - x + b - 1) \div b
    PROVE  /\ count \in Nat /\ x + count * b >= y
           /\ \A k \in 1..count : /\ x + (k - 1) * b \in Nat /\ x + (k - 1) * b <= y
                                  /\ x + k * b \in Nat /\ x + (k - 1) * b <= x + k * b
<1> DEFINE c == y - x + b - 1
<1>1. c \in Nat /\ c - (b - 1) = y - x
    OBVIOUS
<1> HIDE DEF c
<1>2. c \div b \in Nat /\ (c \div b) * b <= c /\ c < ((c \div b) + 1) * b
    BY <1>1
<1>3. count = c \div b
    BY DEF c
<1>4. count \in Nat /\ count * b <= c /\ c < (count + 1) * b
    BY <1>2, <1>3
<1>5. \A k \in Nat : k * b \in Nat /\ (k + 1) * b = k * b + b
    OBVIOUS
<1>6. \A k \in Nat : k <= count => k * b <= count * b
    BY <1>4
<1>7. count * b >= y - x
    <2> PICK z \in Nat : z = count * b
        BY <1>4, <1>5
    <2>1. (count + 1) * b = z + b
        BY <1>4, <1>5
    <2> QED
        BY <1>1, <1>4, <2>1
<1>8. ASSUME NEW k \in 1..count
      PROVE  /\ x + (k - 1) * b \in Nat /\ x + (k - 1) * b <= y
             /\ x + k * b \in Nat /\ x + (k - 1) * b <= x + k * b
    <2>1. k - 1 \in Nat /\ k \in Nat /\ (k - 1) + 1 = k /\ k <= count
        BY <1>4
    <2>2. (k - 1) * b \in Nat /\ k * b = (k - 1) * b + b /\ k * b <= count * b
        BY <1>5, <1>6, <2>1
    <2> PICK v \in Nat, w \in Nat, z \in Nat : v = (k - 1) * b /\ w = k * b /\ z = count * b
        BY <1>4, <1>5, <2>1, <2>2
    <2>3. w = v + b /\ w <= z /\ z <= c
        BY <1>4, <2>2
    <2> QED
        BY <1>1, <2>3
<1>9. x + count * b >= y
    <2> PICK z \in Nat : z = count * b
        BY <1>4, <1>5
    <2> QED
        BY <1>7
<1> QED
    BY <1>4, <1>8, <1>9

\* Blocks of a part are read as the part.
LEMMA SplitPartSpells ==
    ASSUME NEW Names, NEW p \in PartsOf(Names)
    PROVE  SplitPart(p) \in Seq(PartsOf(Names)) /\ Spelled(SplitPart(p)) = PartBytes(p)
<1>1. CASE p.source = "header"
    <2>1. SplitPart(p) = <<p>>
        BY <1>1 DEF SplitPart
    <2> QED
        BY <2>1, SpelledOne, Zenon
<1>2. CASE p.source # "header"
    <2> DEFINE All == PartsOf(Names)
               x == p.start
               y == p.end
               b == BLOCK_BYTES
               count == (y - x + b - 1) \div b
               cut == [k \in 0..count |-> IF y <= x + k * b THEN y ELSE x + k * b]
               byte == SourceBytes(p.source)
               w == SplitPart(p)
               Block(k) == SourcePart(p.source, x + (k - 1) * b, Min({y, x + k * b}))
    <2>1. p.source \in Names /\ x \in Nat /\ y \in Nat /\ x <= y /\ b \in Nat \ {0}
        BY PartBytesAre, MediaAssumption
    <2>2. w = [k \in 1..count |-> Block(k)]
        BY <1>2 DEF SplitPart
    <2> HIDE DEF x, y, b, w
    <2>3. /\ count \in Nat /\ x + count * b >= y
          /\ \A k \in 1..count : /\ x + (k - 1) * b \in Nat /\ x + (k - 1) * b <= y
                                 /\ x + k * b \in Nat /\ x + (k - 1) * b <= x + k * b
        BY <2>1, BlocksOfPart
    <2> HIDE DEF count
    <2>4. ASSUME NEW k \in 1..count
          PROVE  /\ cut[k] = Min({y, x + k * b}) /\ cut[k - 1] = x + (k - 1) * b
                 /\ cut[k - 1] \in Nat /\ cut[k] \in Nat /\ cut[k - 1] <= cut[k]
        <3> PICK v \in Nat, z \in Nat : v = x + (k - 1) * b /\ z = x + k * b
            BY <2>3
        <3>1. v <= y /\ v <= z
            BY <2>3
        <3>2. k \in 0..count /\ k - 1 \in 0..count
            BY <2>3
        <3>3. cut[k] = IF y <= z THEN y ELSE z
            BY <3>2
        <3>4. cut[k - 1] = IF y <= v THEN y ELSE v
            BY <3>2
        <3>5. Min({y, z}) = IF y <= z THEN y ELSE z
            <4>1. y \in Int /\ z \in Int
                BY <2>1
            <4> QED
                BY <4>1, OfTwo
        <3> HIDE DEF cut
        <3> QED
            BY <2>1, <3>1, <3>3, <3>4, <3>5
    <2>5. cut[0] = x /\ cut[count] = y
        <3>1. 0 \in 0..count /\ count \in 0..count /\ x + 0 * b = x
            BY <2>1, <2>3
        <3>2. cut[0] = IF y <= x + 0 * b THEN y ELSE x + 0 * b
            BY <3>1
        <3>3. cut[count] = IF y <= x + count * b THEN y ELSE x + count * b
            BY <3>1
        <3>4. y <= x + count * b
            <4> PICK z \in Int : z = x + count * b
                BY <2>1, <2>3
            <4> QED
                BY <2>1, <2>3
        <3> QED
            BY <2>1, <3>1, <3>2, <3>3, <3>4
    <2>6. cut \in [0..count -> Nat]
        <3>1. \A k \in 0..count : cut[k] \in Nat
            <4> SUFFICES ASSUME NEW k \in 0..count PROVE cut[k] \in Nat
                OBVIOUS
            <4>1. k = 0 \/ k \in 1..count
                BY <2>3
            <4> HIDE DEF cut
            <4> QED
                BY <2>1, <2>4, <2>5, <4>1
        <3>2. cut = [k \in 0..count |-> cut[k]]
            OBVIOUS
        <3> HIDE DEF cut
        <3> QED
            BY <3>1, <3>2
    <2> HIDE DEF cut
    <2>7. ASSUME NEW k \in 1..count
          PROVE  w[k] \in All /\ PartBytes(w[k]) = Reading(byte, cut[k - 1], cut[k])
        <3>1. w[k] = [source |-> p.source, start |-> cut[k - 1], end |-> cut[k]]
            BY <2>2, <2>4 DEF SourcePart
        <3>2. w[k] \in All
            <4> PICK u \in Nat, v \in Nat : u = cut[k - 1] /\ v = cut[k] /\ u <= v
                BY <2>4
            <4>1. w[k] = [source |-> p.source, start |-> u, end |-> v]
                BY <3>1
            <4> QED
                BY <2>1, <4>1 DEF PartsOf
        <3>3. w[k].start = cut[k - 1] /\ w[k].end = cut[k] /\ w[k].source = p.source
            BY <3>1
        <3>4. PartBytes(w[k]) = Reading(SourceBytes(p.source), w[k].start, w[k].end)
            BY <2>4, <3>3, PartReads
        <3> QED
            BY <3>2, <3>3, <3>4
    <2>8. w \in Seq(All) /\ Len(w) = count
        <3>1. w = [k \in 1..count |-> w[k]]
            BY <2>2
        <3>2. Len(w) = count
            BY <2>3, <3>1, LenOf
        <3> HIDE DEF All
        <3>3. w \in [1..count -> All]
            BY <2>7, <3>1
        <3>4. count \in Nat
            BY <2>3
        <3> QED
            BY <3>2, <3>3, <3>4
    <2>9. CutBy(w, byte, cut, Names)
        BY <2>4, <2>6, <2>7, <2>8 DEF CutBy
    <2>10. Spelled(w) = Reading(byte, x, y)
        BY <2>5, <2>8, <2>9, CutsJoin
    <2>11. PartBytes(p) = Reading(byte, x, y)
        BY <2>1, PartReads DEF x, y
    <2> QED
        BY <2>8, <2>10, <2>11 DEF w
<1> QED
    BY <1>1, <1>2

\* So are the blocks of several parts.
LEMMA SplitSpells ==
    ASSUME NEW Names, NEW parts \in Seq(PartsOf(Names))
    PROVE  Spelled(Split(parts)) = Spelled(parts)
<1> DEFINE All == PartsOf(Names)
           V == BytesIn(Names)
           n == Len(parts)
           s == [k \in 1..n |-> SplitPart(parts[k])]
<1>1. n \in Nat /\ DOMAIN parts = 1..n /\ \A i \in 1..n : parts[i] \in All
    <2> HIDE DEF All
    <2> QED
        BY DEF All
<1>2. Split(parts) = FlattenSeq(s)
    BY <1>1 DEF Split
<1>3. PICK e : SpelledSteps(e, parts, n, Names)
    BY SpelledBySteps
<1> HIDE DEF n
<1>4. /\ e \in [0..n -> Seq(V)] /\ e[0] = <<>> /\ Spelled(parts) = e[n]
      /\ \A k \in 1..n : e[k] = e[k - 1] \o PartBytes(parts[k])
    BY <1>3, Zenon DEF SpelledSteps
<1>5. \A k \in 1..n : /\ s[k] = SplitPart(parts[k]) /\ SplitPart(parts[k]) \in Seq(All)
                      /\ Spelled(SplitPart(parts[k])) = PartBytes(parts[k])
    BY <1>1, SplitPartSpells
<1>6. s = [k \in 1..n |-> s[k]]
    BY <1>5
<1> HIDE DEF s, All
<1>7. \A k \in 1..n : s[k] \in Seq(All)
    BY <1>5
<1>8. PICK c : Concats(c, s, n, All) /\ FlattenSeq(s) = c[n]
    BY <1>1, <1>6, <1>7, FlattenUnfolds, ZenonT(30)
<1>9. /\ c \in [0..n -> Seq(All)] /\ c[0] = <<>>
      /\ \A k \in 1..n : c[k] = c[k - 1] \o s[k]
    BY <1>8, Zenon DEF Concats
<1> DEFINE T == {i \in 0..n : Spelled(c[i]) = e[i]}
<1>10. 0 \in T
    <2>1. 0 \in 0..n
        BY <1>1
    <2> QED
        BY <1>4, <1>9, <2>1, SpelledNone
<1>11. ASSUME NEW k \in 1..n, k - 1 \in T PROVE k \in T
    <2>1. k \in 0..n /\ k - 1 \in 0..n
        BY <1>1
    <2>2. c[k - 1] \in Seq(All) /\ s[k] \in Seq(All)
        BY <1>7, <1>9, <2>1
    <2>3. Spelled(c[k - 1] \o s[k]) = Spelled(c[k - 1]) \o Spelled(s[k])
        BY <2>2, SpelledJoins DEF All
    <2>4. Spelled(c[k - 1]) = e[k - 1]
        BY <1>11
    <2>5. Spelled(c[k]) = e[k - 1] \o PartBytes(parts[k])
        BY <1>5, <1>9, <2>3, <2>4, Zenon
    <2> QED
        BY <1>4, <2>1, <2>5
<1>12. n \in T /\ n \in 0..n
    <2>1. GoesUp(T, n)
        <3> HIDE DEF T
        <3> QED
            BY <1>10, <1>11 DEF GoesUp
    <2>2. n \in 0..n
        BY <1>1
    <2> HIDE DEF T
    <2> QED
        BY <1>1, <2>1, <2>2, UpTo
<1> QED
    BY <1>2, <1>4, <1>8, <1>12

LEMMA BytesOfSpells ==
    ASSUME NEW parts
    PROVE  BytesOf(parts) = Spelled(parts)
    BY DEF BytesOf, Spelled, PartBytes

\* What an answer of the prepared file is made of, and what it has to hold.
FileNames == Sources \cup {"header"}
FileByte == [p \in Nat |-> ByteAt(p)]
Samples == Cardinality(SamplePlaces(Tracks))

LEMMA ExtentsAre ==
    ASSUME FileInv, mp4 # <<>>
    PROVE  LET E == mp4[1].extents
               order == InOrder(Tracks)
           IN /\ Samples \in Nat \ {0} /\ DOMAIN E = 1..Samples /\ Len(E) = Samples
              /\ mp4[1].header \in Nat /\ mp4[1].len = E[Samples].end /\ E[1].start = mp4[1].header
              /\ \A k \in 1..Samples : k + 1 <= Samples => E[k + 1].start = E[k].end
              /\ \A j, k \in 1..Samples : j < k => E[j].end <= E[k].start
              /\ \A p \in SamplePlaces(Tracks) : \E k \in 1..Samples : order[k] = p
              /\ \A k \in 1..Samples :
                   LET t == order[k][1]
                       i == order[k][2]
                       truth == files[SourceOf(t)].truth
                   IN /\ t \in 1..2 /\ SourceOf(t) \in Sources /\ order[k] = <<t, i>> /\ i \in DOMAIN truth
                      /\ E[k].start \in Nat /\ truth[i].size \in Nat \ {0} /\ truth[i].start \in Nat
                      /\ E[k].end = E[k].start + truth[i].size /\ E[k].start >= mp4[1].header
                      /\ E[k].source = SourceOf(t) /\ E[k].source_start = truth[i].start
                      /\ mp4[1].moov[t].co64[i] = E[k].start
<1> DEFINE E == mp4[1].extents
           order == InOrder(Tracks)
           n == Samples
<1>1. /\ LoadsInv /\ DOMAIN Tracks = 1..2 /\ PointsToSamples(Tracks, mp4[1]) /\ FillsItsFile(Tracks, mp4[1])
      /\ \A t \in 1..2 : SourceOf(t) \in Sources /\ TrackTells(Tracks[t], SourceOf(t))
    BY TracksAreGood, Zenon
<1>2. /\ n \in Nat \ {0} /\ DOMAIN E = 1..n /\ Len(E) = n
      /\ mp4[1].header \in Nat /\ mp4[1].len = E[n].end /\ E[1].start = mp4[1].header
      /\ \A k \in 1..n : k + 1 <= n => E[k + 1].start = E[k].end
      /\ \A j, k \in 1..n : j < k => E[j].end <= E[k].start
      /\ \A p \in SamplePlaces(Tracks) : \E k \in 1..n : order[k] = p
      /\ \A k \in 1..n : /\ order[k] \in SamplePlaces(Tracks)
                         /\ E[k].start \in Nat /\ E[k].start >= mp4[1].header
                         /\ E[k].end = E[k].start + SampleAt(Tracks, order[k]).size
                         /\ E[k].source = Tracks[order[k][1]].source
                         /\ E[k].source_start = SampleAt(Tracks, order[k]).offset
    BY <1>1, Zenon DEF FillsItsFile, Samples
<1> HIDE DEF n, E, order
<1>3. ASSUME NEW k \in 1..n
      PROVE  LET t == order[k][1]
                 i == order[k][2]
                 truth == files[SourceOf(t)].truth
             IN /\ t \in 1..2 /\ SourceOf(t) \in Sources /\ order[k] = <<t, i>> /\ i \in DOMAIN truth
                /\ E[k].start \in Nat /\ truth[i].size \in Nat \ {0} /\ truth[i].start \in Nat
                /\ E[k].end = E[k].start + truth[i].size /\ E[k].start >= mp4[1].header
                /\ E[k].source = SourceOf(t) /\ E[k].source_start = truth[i].start
                /\ mp4[1].moov[t].co64[i] = E[k].start
    <2> DEFINE t == order[k][1]
               i == order[k][2]
               truth == files[SourceOf(t)].truth
    <2>1. order[k] = <<t, i>> /\ t \in 1..2 /\ i \in DOMAIN Tracks[t].samples
        <3>1. order[k] \in SamplePlaces(Tracks)
            BY <1>2
        <3> QED
            BY <1>1, <3>1, PlacesAre, Zenon
    <2>2. SourceOf(t) \in Sources /\ TrackTells(Tracks[t], SourceOf(t))
        BY <1>1, <2>1
    <2>3. mp4[1].moov[t].co64[i] = E[k].start
        <3>1. k \in DOMAIN mp4[1].extents
            BY <1>2 DEF E
        <3> QED
            BY <1>1, <3>1, Zenon DEF PointsToSamples, order, E
    <2>4. SampleAt(Tracks, order[k]) = Tracks[t].samples[i]
        BY DEF SampleAt
    <2> HIDE DEF t, i
    <2>5. /\ Tracks[t].source = SourceOf(t) /\ i \in DOMAIN truth
          /\ Tracks[t].samples[i].offset = truth[i].start /\ Tracks[t].samples[i].size = truth[i].size
        BY <2>1, <2>2, Zenon DEF TrackTells
    <2>6. truth[i].size \in Nat \ {0} /\ truth[i].start \in Nat
        BY <1>1, <2>2, <2>5, TruthIs
    <2>7. /\ E[k].start \in Nat /\ E[k].start >= mp4[1].header
          /\ E[k].end = E[k].start + Tracks[t].samples[i].size
          /\ E[k].source = Tracks[t].source /\ E[k].source_start = Tracks[t].samples[i].offset
        <3>1. order[k][1] = t
            BY DEF t
        <3> QED
            BY <1>2, <2>4, <3>1
    <2>8. /\ E[k].end = E[k].start + truth[i].size
          /\ E[k].source = SourceOf(t) /\ E[k].source_start = truth[i].start
        BY <2>5, <2>7, Zenon
    <2> QED
        BY <2>1, <2>2, <2>3, <2>5, <2>6, <2>7, <2>8, Zenon DEF t, i
<1> QED
    BY <1>2, <1>3, Zenon DEF n, E, order

LEMMA FileIsLaidOut ==
    ASSUME FileInv, mp4 # <<>>
    PROVE  IsLaidOut(mp4[1], Samples, FileNames)
<1> DEFINE E == mp4[1].extents
           n == Samples
<1>1. /\ n \in Nat \ {0} /\ DOMAIN E = 1..n /\ Len(E) = n
      /\ mp4[1].header \in Nat /\ mp4[1].len = E[n].end /\ E[1].start = mp4[1].header
      /\ \A k \in 1..n : k + 1 <= n => E[k + 1].start = E[k].end
      /\ \A j, k \in 1..n : j < k => E[j].end <= E[k].start
    BY ExtentsAre, ZenonT(30)
<1>2. ASSUME NEW k \in 1..n
      PROVE  E[k].source \in FileNames /\ E[k].start \in Nat /\ E[k].end \in Nat /\ E[k].source_start \in Nat
             /\ E[k].start < E[k].end
    <2> PICK t \in 1..2 : t = InOrder(Tracks)[k][1]
        BY ExtentsAre, Zenon
    <2> PICK i : i = InOrder(Tracks)[k][2]
        OBVIOUS
    <2> PICK truth : truth = files[SourceOf(t)].truth
        OBVIOUS
    <2>1. /\ SourceOf(t) \in Sources /\ E[k].start \in Nat /\ truth[i].size \in Nat \ {0} /\ truth[i].start \in Nat
          /\ E[k].end = E[k].start + truth[i].size
          /\ E[k].source = SourceOf(t) /\ E[k].source_start = truth[i].start
        BY ExtentsAre, Zenon
    <2> PICK e : e = E[k]
        BY Zenon
    <2>2. e.end \in Nat /\ e.start < e.end /\ e.source_start \in Nat /\ e.source \in FileNames /\ e.start \in Nat
        <3> HIDE DEF E
        <3> QED
            BY <2>1 DEF FileNames
    <2> QED
        BY <2>2
<1> HIDE DEF E, n
<1>3. "header" \in FileNames
    BY DEF FileNames
<1> QED
    BY <1>1, <1>2, <1>3, Zenon DEF E, n, IsLaidOut

LEMMA SpansAre ==
    ASSUME FileInv, mp4 # <<>>
    PROVE  LET moov == mp4[1].moov
               truthOf(u) == files[SourceOf(u)].truth
           IN /\ DOMAIN moov = 1..2
              /\ \A u \in 1..2 : DOMAIN moov[u].co64 = DOMAIN truthOf(u)
              /\ \A u \in 1..2 : \A j \in DOMAIN truthOf(u) :
                   moov[u].stsz[j] = truthOf(u)[j].size /\ <<u, j>> \in SamplePlaces(Tracks)
<1> DEFINE moov == mp4[1].moov
           truthOf(u) == files[SourceOf(u)].truth
<1>1. /\ LoadsInv /\ DOMAIN Tracks = 1..2 /\ PointsToSamples(Tracks, mp4[1]) /\ IsTracks(Tracks) /\ HasTracks
      /\ \A u \in 1..2 : SourceOf(u) \in Sources /\ TrackTells(Tracks[u], SourceOf(u))
    BY TracksAreGood, Zenon
<1>2. DOMAIN moov = 1..2
    BY <1>1 DEF PointsToSamples
<1>3. ASSUME NEW u \in 1..2
      PROVE  /\ DOMAIN moov[u].co64 = DOMAIN truthOf(u)
             /\ \A j \in DOMAIN truthOf(u) :
                  moov[u].stsz[j] = truthOf(u)[j].size /\ <<u, j>> \in SamplePlaces(Tracks)
    <2> PICK track : track = Tracks[u]
        OBVIOUS
    <2> PICK truth : truth = truthOf(u)
        OBVIOUS
    <2>1. /\ Len(track.samples) = Len(truth) /\ DOMAIN track.samples = DOMAIN truth
          /\ \A j \in DOMAIN truth : track.samples[j].size = truth[j].size
        BY <1>1, Zenon DEF TrackTells
    <2>2. Len(track.samples) \in Nat /\ DOMAIN track.samples = 1..Len(track.samples) /\ track.samples # <<>>
        BY <1>1 DEF IsTracks, IsTrack, HasTracks, CanFinish
    <2>3. \A j \in DOMAIN truth : <<u, j>> \in SamplePlaces(Tracks)
        BY <1>1, <2>1, PlaceIs
    <2>4. DOMAIN moov[u].co64 = DOMAIN truth
        <3>1. 1 \in DOMAIN truth
            <4>1. Len(track.samples) # 0
                BY <2>2
            <4> QED
                BY <2>1, <2>2, <4>1
        <3>2. PICK k \in 1..Samples : InOrder(Tracks)[k] = <<u, 1>>
            BY <2>3, <3>1, ExtentsAre, Zenon
        <3>3. k \in DOMAIN mp4[1].extents
            BY ExtentsAre, Zenon
        <3>4. DOMAIN moov[InOrder(Tracks)[k][1]].co64 = DOMAIN Tracks[InOrder(Tracks)[k][1]].samples
            BY <1>1, <3>3, Zenon DEF PointsToSamples
        <3>5. InOrder(Tracks)[k][1] = u
            BY <3>2
        <3> QED
            BY <2>1, <3>4, <3>5
    <2>5. TellTheTrack(moov[u], track, movie_scale)
        BY TablesTell
    <2>6. \A j \in DOMAIN truth : moov[u].stsz[j] = track.samples[j].size
        <3>1. moov[u].stsz = [j \in 1..Len(track.samples) |-> track.samples[j].size]
            BY <2>5, Zenon DEF TellTheTrack
        <3> QED
            BY <2>1, <2>2, <3>1
    <2> QED
        BY <2>1, <2>3, <2>4, <2>6
<1> QED
    BY <1>2, <1>3, Zenon

\* Two places that both hold a byte and do not overlap are one.
Between(p, v, w) == p \in Nat /\ v \in Nat /\ w \in Nat /\ v <= p /\ p < w
Ahead(l, k, y, v) == l < k => y <= v

LEMMA OnePlaceHolds ==
    ASSUME NEW p, NEW x, NEW y, NEW v, NEW w, NEW k \in Nat, NEW l \in Nat,
           Between(p, x, y), Between(p, v, w), Ahead(l, k, y, v), Ahead(k, l, w, x)
    PROVE  k = l
BY DEF Between, Ahead

\* A byte of a place behind the header.
Behind(p, h) == ~(p < h)
Takes(v, size, w, h) == v \in Nat /\ size \in Nat \ {0} /\ h \in Nat /\ w = v + size /\ v >= h
UpToEnd(p, v, w) == p \in v..(w - 1)

LEMMA BytesOfAPlace ==
    ASSUME NEW v, NEW size, NEW h, NEW w, NEW p, Takes(v, size, w, h), UpToEnd(p, v, w)
    PROVE  Between(p, v, w) /\ Behind(p, h)
BY DEF Takes, UpToEnd, Between, Behind

\* The tables say which sample holds a byte, and it is the one whose extent holds it.
LEMMA TablesFindBytes ==
    ASSUME FileInv, mp4 # <<>>
    PROVE  ByExtents(FileByte, mp4[1], Samples)
<1> DEFINE E == mp4[1].extents
           n == Samples
           order == InOrder(Tracks)
           moov == mp4[1].moov
<1>1. ASSUME NEW p \in 0..(mp4[1].header - 1) PROVE FileByte[p] = <<"header", p>>
    <2>1. mp4[1].header \in Nat
        BY ExtentsAre, Zenon
    <2>2. p \in Nat /\ p < mp4[1].header
        BY <2>1
    <2> QED
        BY <2>2 DEF FileByte, ByteAt
<1>2. ASSUME NEW k \in 1..n, NEW p \in E[k].start..(E[k].end - 1)
      PROVE  FileByte[p] = <<E[k].source, E[k].source_start + (p - E[k].start)>>
    <2> DEFINE truthOf(u) == files[SourceOf(u)].truth
               Holds(u, j) == moov[u].co64[j] <= p /\ p < moov[u].co64[j] + moov[u].stsz[j]
               t == order[k][1]
               i == order[k][2]
               truth == files[SourceOf(t)].truth
    <2>1. /\ t \in 1..2 /\ SourceOf(t) \in Sources /\ order[k] = <<t, i>> /\ i \in DOMAIN truth
          /\ E[k].start \in Nat /\ truth[i].size \in Nat \ {0} /\ truth[i].start \in Nat
          /\ E[k].end = E[k].start + truth[i].size /\ E[k].start >= mp4[1].header
          /\ E[k].source = SourceOf(t) /\ E[k].source_start = truth[i].start
          /\ moov[t].co64[i] = E[k].start /\ mp4[1].header \in Nat
        BY ExtentsAre, Zenon
    <2>2. /\ DOMAIN moov = 1..2
          /\ \A u \in 1..2 : DOMAIN moov[u].co64 = DOMAIN truthOf(u)
          /\ \A u \in 1..2 : \A j \in DOMAIN truthOf(u) :
               moov[u].stsz[j] = truthOf(u)[j].size /\ <<u, j>> \in SamplePlaces(Tracks)
        BY SpansAre
    <2>3. p \in Nat /\ ~(p < mp4[1].header) /\ E[k].start <= p /\ p < E[k].end /\ E[k].end \in Nat
        <3>1. Takes(E[k].start, truth[i].size, E[k].end, mp4[1].header)
            BY <2>1, Zenon DEF Takes
        <3>2. UpToEnd(p, E[k].start, E[k].end)
            BY Zenon DEF UpToEnd
        <3>3. Between(p, E[k].start, E[k].end) /\ Behind(p, mp4[1].header)
            BY <3>1, <3>2, BytesOfAPlace, Zenon
        <3> QED
            BY <3>3, Zenon DEF Between, Behind
    <2>4. ASSUME NEW u \in 1..2, NEW j \in DOMAIN moov[u].co64, Holds(u, j)
          PROVE  u = t /\ j = i
        <3>1. j \in DOMAIN truthOf(u) /\ <<u, j>> \in SamplePlaces(Tracks) /\ moov[u].stsz[j] = truthOf(u)[j].size
            BY <2>2
        <3>2. PICK l \in 1..n : order[l] = <<u, j>>
            BY <3>1, ExtentsAre, Zenon
        <3>3. order[l][1] = u /\ order[l][2] = j
            BY <3>2
        <3>4. /\ moov[order[l][1]].co64[order[l][2]] = E[l].start
              /\ E[l].end = E[l].start + truthOf(order[l][1])[order[l][2]].size
              /\ truthOf(order[l][1])[order[l][2]].size \in Nat \ {0} /\ E[l].start \in Nat
            BY ExtentsAre, Zenon
        <3>5. /\ moov[u].co64[j] = E[l].start /\ E[l].end = E[l].start + moov[u].stsz[j]
              /\ moov[u].stsz[j] \in Nat \ {0} /\ E[l].start \in Nat
            BY <3>1, <3>3, <3>4, Zenon
        <3>6. E[l].end \in Nat /\ E[l].start <= p /\ p < E[l].end
            <4> HIDE DEF E
            <4> QED
                BY <2>4, <2>3, <3>5
        <3>7. (l < k => E[l].end <= E[k].start) /\ (k < l => E[k].end <= E[l].start)
            BY ExtentsAre, Zenon
        <3>8. k \in Nat /\ l \in Nat
            <4>1. n \in Nat
                BY ExtentsAre, Zenon
            <4> HIDE DEF n, E, order
            <4> QED
                BY <4>1
        <3>9. k = l
            <4>1. Between(p, E[k].start, E[k].end)
                BY <2>1, <2>3, Zenon DEF Between
            <4>2. Between(p, E[l].start, E[l].end)
                BY <2>3, <3>5, <3>6, Zenon DEF Between
            <4>3. Ahead(l, k, E[l].end, E[k].start) /\ Ahead(k, l, E[k].end, E[l].start)
                BY <3>7, Zenon DEF Ahead
            <4> QED
                BY <3>8, <4>1, <4>2, <4>3, OnePlaceHolds, Zenon
        <3> QED
            BY <3>3, <3>9
    <2>5. t \in DOMAIN moov /\ i \in DOMAIN moov[t].co64 /\ Holds(t, i)
        <3>1. t \in DOMAIN moov /\ i \in DOMAIN moov[t].co64 /\ moov[t].stsz[i] = truth[i].size
            BY <2>1, <2>2
        <3>2. moov[t].co64[i] = E[k].start /\ E[k].end = E[k].start + moov[t].stsz[i]
            BY <2>1, <3>1
        <3> HIDE DEF E, moov, t, i
        <3> QED
            BY <2>3, <3>1, <3>2
    <2> DEFINE a == CHOOSE u \in DOMAIN moov : \E j \in DOMAIN moov[u].co64 : Holds(u, j)
               b == CHOOSE j \in DOMAIN moov[a].co64 : Holds(a, j)
               s == IF a = 1 THEN "video" ELSE "audio"
    <2>6. ByteAt(p) = <<s, files[s].truth[b].start + (p - moov[a].co64[b])>>
        BY <2>3 DEF ByteAt
    <2> HIDE DEF Holds, moov
    <2>7. a = t /\ b = i
        <3>1. a \in DOMAIN moov /\ \E j \in DOMAIN moov[a].co64 : Holds(a, j)
            <4> HIDE DEF t, i
            <4> QED
                BY <2>5
        <3>2. a = t
            BY <2>2, <2>4, <3>1
        <3>3. b \in DOMAIN moov[a].co64 /\ Holds(a, b)
            <4> HIDE DEF a
            <4> QED
                BY <3>1
        <3> QED
            BY <2>2, <2>4, <3>1, <3>2, <3>3
    <2>8. s = SourceOf(t)
        BY <2>7 DEF SourceOf
    <2> HIDE DEF a, b, s
    <2>9. ByteAt(p) = <<SourceOf(t), truth[i].start + (p - E[k].start)>>
        BY <2>1, <2>6, <2>7, <2>8
    <2>10. FileByte[p] = ByteAt(p)
        BY <2>3 DEF FileByte
    <2> QED
        BY <2>1, <2>9, <2>10
<1> QED
    BY <1>1, <1>2 DEF ByExtents

\* The positions a header asks for are those in its range, or all of the file.
LEMMA AskedIs ==
    ASSUME NEW header \in Headers, NEW length \in Nat \ {0}
    PROVE  /\ header \in Header
           /\ IsOneRange(header) => Asked(header, length) = {p \in 0..(length - 1) : InRange(header, p, length)}
           /\ ~IsOneRange(header) => Asked(header, length) = 0..(length - 1)
<1>1. /\ header \in Header /\ header.kind \in {"none", "bytes"}
      /\ header.kind = "none" => header.first = 0 /\ header.last = 0
      /\ header.first \in Nat \cup {NoNumber} /\ header.last \in Nat \cup {NoNumber}
    <2>1. Edges \subseteq Nat /\ Http!NoNumber = NoNumber
        BY MediaAssumption DEF Http!NoNumber, NoNumber
    <2>2. CASE header = NoRange
        BY <2>2 DEF NoRange, Header
    <2>3. CASE header \in [kind : {"bytes"}, first : Edges \cup {Http!NoNumber}, last : Edges \cup {Http!NoNumber}]
        <3>1. header \in Header
            BY <2>1, <2>3 DEF Header
        <3> QED
            BY <2>3, <3>1 DEF Header
    <2> QED
        BY <2>2, <2>3 DEF Headers
<1> DEFINE all == 0..(length - 1)
           ranged == {p \in all : InRange(header, p, length)}
<1> SUFFICES /\ IsOneRange(header) => Asked(header, length) = ranged
             /\ ~IsOneRange(header) => Asked(header, length) = all
    BY <1>1
<1>2. CASE header.kind = "none"
    <2>1. Asked(header, length) = all
        BY <1>1, <1>2 DEF Asked
    <2> QED
        BY <1>2, <2>1 DEF IsOneRange
<1>3. CASE header.kind = "bytes" /\ header.first = -1 /\ header.last = -1
    <2>1. Asked(header, length) = all
        BY <1>3 DEF Asked
    <2> QED
        BY <1>3, <2>1 DEF IsOneRange, NoNumber
<1>4. CASE header.kind = "bytes" /\ header.first = -1 /\ header.last # -1
    <2>1. IsOneRange(header)
        BY <1>4 DEF IsOneRange, NoNumber
    <2>2. Asked(header, length) = {p \in all : p >= length - header.last}
        BY <1>4 DEF Asked
    <2>3. \A p \in all : InRange(header, p, length) <=> p >= length - header.last
        BY <1>4 DEF InRange, NoNumber
    <2>4. {p \in all : p >= length - header.last} = ranged
        BY <2>3, Zenon
    <2> QED
        BY <2>1, <2>2, <2>4, Zenon
<1>5. CASE header.kind = "bytes" /\ header.first # -1 /\ header.last = -1
    <2>1. IsOneRange(header)
        BY <1>5 DEF IsOneRange, NoNumber
    <2>2. Asked(header, length) = {p \in all : p >= header.first}
        BY <1>5 DEF Asked
    <2>3. \A p \in all : InRange(header, p, length) <=> p >= header.first
        BY <1>5 DEF InRange, NoNumber
    <2>4. {p \in all : p >= header.first} = ranged
        BY <2>3, Zenon
    <2> QED
        BY <2>1, <2>2, <2>4, Zenon
<1>6. CASE header.kind = "bytes" /\ header.first # -1 /\ header.last # -1
    <2>1. header.first \in Nat /\ header.last \in Nat
        BY <1>1, <1>6 DEF NoNumber
    <2>2. Asked(header, length) = IF header.last < header.first THEN all ELSE all \cap header.first..header.last
        BY <1>6 DEF Asked
    <2>3. IsOneRange(header) <=> header.first <= header.last
        BY <1>6 DEF IsOneRange, NoNumber
    <2>4. CASE header.last < header.first
        BY <2>1, <2>2, <2>3, <2>4
    <2>5. CASE header.first <= header.last
        <3>1. Asked(header, length) = all \cap header.first..header.last
            BY <2>1, <2>2, <2>5
        <3>2. \A p \in all : InRange(header, p, length) <=> p \in header.first..header.last
            BY <1>6, <2>1 DEF InRange, NoNumber
        <3>3. all \cap header.first..header.last = ranged
            BY <3>2, Zenon
        <3> QED
            BY <2>3, <2>5, <3>1, <3>3, Zenon
    <2> QED
        BY <2>1, <2>4, <2>5
<1> QED
    BY <1>1, <1>2, <1>3, <1>4, <1>5, <1>6, Zenon

\* What a request has to be answered with, and the range it is resolved to.
WantedOf(get, sameFile, header, length) ==
    IF get /\ sameFile THEN Asked(header, length) ELSE 0..(length - 1)
RangeOf(get, sameFile, header, length) == Http!resolve_range(CountingRange(get, sameFile, header), length)

\* A range of at least one byte is what is wanted, or nothing is.
IsAnswered(requested, bytes, wanted, length) ==
    \/ requested.kind = "unsatisfiable" /\ wanted = {} /\ Http!Status(requested) = 416
    \/ /\ requested.kind # "unsatisfiable" /\ Http!Status(requested) \in {200, 206}
       /\ bytes.start \in Nat /\ bytes.end \in Nat /\ bytes.start < bytes.end /\ bytes.end <= length
       /\ wanted = bytes.start..(bytes.end - 1)

LEMMA RequestIsAnswered ==
    ASSUME NEW header \in Headers, NEW get \in BOOLEAN, NEW sameFile \in BOOLEAN, NEW length \in Nat \ {0}
    PROVE  LET requested == RangeOf(get, sameFile, header, length)
           IN IsAnswered(requested, Http!Bytes(requested, length), WantedOf(get, sameFile, header, length), length)
<1>1. PICK h : h = CountingRange(get, sameFile, header)
    OBVIOUS
<1>2. /\ h \in Header
      /\ IsOneRange(h) => WantedOf(get, sameFile, header, length) = {p \in 0..(length - 1) : InRange(h, p, length)}
      /\ ~IsOneRange(h) => WantedOf(get, sameFile, header, length) = 0..(length - 1)
    <2>1. CASE get /\ sameFile
        BY <1>1, <2>1, AskedIs DEF CountingRange, WantedOf
    <2>2. CASE ~(get /\ sameFile)
        BY <1>1, <2>2 DEF CountingRange, WantedOf, NoRange, Header, IsOneRange
    <2> QED
        BY <2>1, <2>2
<1>3. PICK r : r = resolve_range(h, length)
    OBVIOUS
<1>4. RangeOf(get, sameFile, header, length) = r
    BY <1>1, <1>3 DEF RangeOf, Http!resolve_range, resolve_range, Http!Full, Full, Http!Unsatisfiable, Unsatisfiable,
       Http!Suffix, Suffix, Http!FromFirst, FromFirst, Http!Partial, Partial, Http!Minus, Minus, Http!AtMost, AtMost,
       Http!NoNumber, NoNumber
<1>5. IsExact(r, h, length)
    BY <1>2, <1>3, ResolveRangeIsExact
<1>6. CASE ~IsOneRange(h)
    <2>1. r.kind = "full" /\ Http!Bytes(r, length) = [start |-> 0, end |-> length] /\ Http!Status(r) = 200
        BY <1>5, <1>6 DEF IsExact, Full, Http!Bytes, Http!Status
    <2>2. WantedOf(get, sameFile, header, length) = 0..(length - 1)
        BY <1>2, <1>6
    <2> QED
        BY <1>4, <2>1, <2>2 DEF IsAnswered
<1>7. CASE IsOneRange(h) /\ r.kind = "unsatisfiable"
    <2>1. Http!Status(r) = 416 /\ ~\E p \in Nat : InRange(h, p, length)
        BY <1>5, <1>7 DEF IsExact, Http!Status
    <2>2. WantedOf(get, sameFile, header, length) = {}
        BY <1>2, <1>7, <2>1
    <2> QED
        BY <1>4, <1>7, <2>1, <2>2 DEF IsAnswered
<1>8. CASE IsOneRange(h) /\ r.kind # "unsatisfiable"
    <2>1. /\ r.kind = "partial" /\ r.start \in Nat /\ r.end \in Nat /\ r.start < r.end /\ r.end <= length
          /\ \A p \in Nat : InRange(h, p, length) <=> (r.start <= p /\ p < r.end)
        BY <1>5, <1>8 DEF IsExact
    <2>2. Http!Status(r) = 206 /\ Http!Bytes(r, length) = [start |-> r.start, end |-> r.end]
        BY <2>1 DEF Http!Status, Http!Bytes
    <2>3. WantedOf(get, sameFile, header, length) = r.start..(r.end - 1)
        <3>1. WantedOf(get, sameFile, header, length) = {p \in 0..(length - 1) : InRange(h, p, length)}
            BY <1>2, <1>8
        <3>2. \A p \in 0..(length - 1) : InRange(h, p, length) <=> (r.start <= p /\ p < r.end)
            BY <2>1
        <3>3. {p \in 0..(length - 1) : InRange(h, p, length)} = {p \in 0..(length - 1) : r.start <= p /\ p < r.end}
            BY <3>2, Zenon
        <3>4. {p \in 0..(length - 1) : r.start <= p /\ p < r.end} = r.start..(r.end - 1)
            BY <2>1
        <3> QED
            BY <3>1, <3>3, <3>4, Zenon
    <2> QED
        BY <1>4, <2>1, <2>2, <2>3 DEF IsAnswered
<1> QED
    BY <1>6, <1>7, <1>8

\* The parts of an answer spell the bytes of the file in its range.
LEMMA AnswerSpells ==
    ASSUME FileInv, mp4 # <<>>, NEW range, IsRange(range, mp4[1])
    PROVE  BytesOf(Split(read_plan(mp4[1], range))) =
              [k \in 1..(range.end - range.start) |-> ByteAt(range.start + k - 1)]
<1> DEFINE plan == read_plan(mp4[1], range)
<1>1. plan \in Seq(PartsOf(FileNames)) /\ Spelled(plan) = Reading(FileByte, range.start, range.end)
    BY FileIsLaidOut, TablesFindBytes, PlanSpells, Zenon
<1> HIDE DEF plan
<1>2. Spelled(Split(plan)) = Spelled(plan)
    BY <1>1, SplitSpells, Zenon
<1>3. BytesOf(Split(plan)) = Reading(FileByte, range.start, range.end)
    BY <1>1, <1>2, BytesOfSpells, Zenon
<1>4. Reading(FileByte, range.start, range.end) = [k \in 1..(range.end - range.start) |-> ByteAt(range.start + k - 1)]
    <2> PICK a \in Nat, b \in Nat : a = range.start /\ b = range.end
        BY DEF IsRange
    <2>1. \A k \in 1..(b - a) : a + k - 1 \in Nat
        OBVIOUS
    <2>2. \A p \in Nat : FileByte[p] = ByteAt(p)
        BY DEF FileByte
    <2>3. \A k \in 1..(b - a) : FileByte[a + k - 1] = ByteAt(a + k - 1)
        BY <2>1, <2>2, Zenon
    <2> HIDE DEF FileByte
    <2> QED
        BY <2>3, Zenon DEF Reading
<1> QED
    BY <1>3, <1>4, Zenon DEF plan

LEMMA IntervalIs ==
    ASSUME NEW a \in Nat, NEW b \in Nat, a < b
    PROVE  a..(b - 1) # {} /\ Cardinality(a..(b - 1)) = b - a /\ Min(a..(b - 1)) = a
<1> DEFINE S == a..(b - 1)
<1>1. a \in S /\ \A y \in S : a <= y
    OBVIOUS
<1>2. \A x \in S : (\A y \in S : x <= y) => x = a
    OBVIOUS
<1>3. Min(S) = a
    BY <1>1, <1>2 DEF Min
<1>4. Cardinality(S) = b - a
    <2>1. Cardinality(a..(b - 1)) = IF a > b - 1 THEN 0 ELSE (b - 1) - a + 1
        BY FS_Interval
    <2> QED
        BY <2>1
<1> QED
    BY <1>1, <1>3, <1>4

\* What the header asked for and what was answered, as one formula: the property
\* AnswersAreExact of an answer.
Succeeds(status) == status \in {200, 206}
IsExactAnswer(status, length, get, parts, wanted) ==
    /\ status = 416 <=> wanted = {}
    /\ status # 416 => /\ Succeeds(status) /\ length = Cardinality(wanted)
                       /\ get => BytesOf(parts) = [k \in 1..Cardinality(wanted) |-> ByteAt(Min(wanted) + k - 1)]

LEMMA ExactIs ==
    AnswersAreExact <=>
      (answer.status # 0 => IsExactAnswer(answer.status, answer.length, answer.get, answer.parts, Wanted))
BY DEF AnswersAreExact, IsExactAnswer, Succeeds

\* The bytes that the tables promise depend on the sources and the file only.
LEMMA BytesStay ==
    ASSUME UNCHANGED <<files, mp4>>, NEW status, NEW length, NEW get, NEW parts, NEW wanted
    PROVE  IsExactAnswer(status, length, get, parts, wanted)' <=> IsExactAnswer(status, length, get, parts, wanted)
<1>1. \A p : ByteAt(p)' = ByteAt(p)
    BY DEF ByteAt
<1>2. [k \in 1..Cardinality(wanted) |-> ByteAt(Min(wanted) + k - 1)]' =
      [k \in 1..Cardinality(wanted) |-> ByteAt(Min(wanted) + k - 1)]
    BY <1>1, Zenon
<1> QED
    BY <1>2, Zenon DEF IsExactAnswer, BytesOf

LEMMA LengthIs ==
    ASSUME FileInv, mp4 # <<>>
    PROVE  mp4[1].len \in Nat \ {0}
<1> PICK e : e = mp4[1].extents[Samples]
    BY Zenon
<1>1. Samples \in 1..Samples
    <2>1. Samples \in Nat \ {0}
        BY FileIsLaidOut, Zenon DEF IsLaidOut
    <2> HIDE DEF Samples
    <2> QED
        BY <2>1
<1>2. e.start \in Nat /\ e.end \in Nat /\ e.start < e.end /\ mp4[1].len = e.end
    BY <1>1, FileIsLaidOut, Zenon DEF IsLaidOut
<1> QED
    BY <1>2

LEMMA AnswerIs ==
    ASSUME FileInv, mp4 # <<>>, NEW header \in Headers, NEW get \in BOOLEAN, NEW sameFile \in BOOLEAN,
           NEW requested, requested = RangeOf(get, sameFile, header, mp4[1].len),
           NEW bytes, bytes = Http!Bytes(requested, mp4[1].len),
           NEW parts, parts = IF requested.kind = "unsatisfiable" \/ ~get THEN <<>> ELSE Split(read_plan(mp4[1], bytes)),
           NEW wanted, wanted = WantedOf(get, sameFile, header, mp4[1].len)
    PROVE  /\ requested.kind # "unsatisfiable" => Covers(mp4[1], bytes)
           /\ IsExactAnswer(Http!Status(requested), bytes.end - bytes.start, get, parts, wanted)
<1>1. IsAnswered(requested, bytes, wanted, mp4[1].len)
    BY LengthIs, RequestIsAnswered, Zenon
<1>2. requested.kind # "unsatisfiable" => Covers(mp4[1], bytes)
    BY <1>1 DEF IsAnswered, Covers
<1>3. CASE requested.kind = "unsatisfiable"
    BY <1>1, <1>2, <1>3 DEF IsAnswered, IsExactAnswer
<1>4. CASE requested.kind # "unsatisfiable"
    <2> PICK a \in Nat, b \in Nat : a = bytes.start /\ b = bytes.end
        BY <1>1, <1>4 DEF IsAnswered
    <2>1. /\ Http!Status(requested) # 416 /\ Succeeds(Http!Status(requested)) /\ a < b /\ b <= mp4[1].len /\ wanted = a..(b - 1)
        BY <1>1, <1>4 DEF IsAnswered, Succeeds
    <2>2. wanted # {} /\ Cardinality(wanted) = b - a /\ Min(wanted) = a
        BY <2>1, IntervalIs
    <2>3. get => BytesOf(parts) = [k \in 1..(b - a) |-> ByteAt(a + k - 1)]
        <3> SUFFICES ASSUME get PROVE BytesOf(parts) = [k \in 1..(b - a) |-> ByteAt(a + k - 1)]
            OBVIOUS
        <3>1. IsRange(bytes, mp4[1])
            BY <2>1 DEF IsRange
        <3>2. parts = Split(read_plan(mp4[1], bytes))
            BY <1>2, <1>4
        <3>3. BytesOf(Split(read_plan(mp4[1], bytes))) =
                 [k \in 1..(bytes.end - bytes.start) |-> ByteAt(bytes.start + k - 1)]
            BY <3>1, AnswerSpells, Zenon
        <3> QED
            BY <3>2, <3>3, Zenon
    <2> QED
        BY <1>2, <2>1, <2>2, <2>3, ZenonT(30) DEF IsExactAnswer
<1> QED
    BY <1>3, <1>4

LEMMA ServesExactly ==
    ASSUME FileInv, NEW header \in Headers, NEW get \in BOOLEAN, NEW sameFile \in BOOLEAN,
           Serves(get, sameFile, header)
    PROVE  AnswersAreExact'
<1> PICK requested : requested = RangeOf(get, sameFile, header, mp4[1].len)
    OBVIOUS
<1> PICK bytes : bytes = Http!Bytes(requested, mp4[1].len)
    OBVIOUS
<1> PICK parts : parts = IF requested.kind = "unsatisfiable" \/ ~get THEN <<>> ELSE Split(read_plan(mp4[1], bytes))
    BY Zenon
<1> PICK wanted : wanted = WantedOf(get, sameFile, header, mp4[1].len)
    OBVIOUS
<1> DEFINE fails == get /\ requested.kind # "unsatisfiable" /\ ~Covers(mp4[1], bytes)
<1>1. /\ mp4 # <<>> /\ mp4' = mp4 /\ files' = files
      /\ answer' = [status |-> IF fails THEN 500 ELSE Http!Status(requested),
                    header |-> header, get |-> get, sameFile |-> sameFile,
                    length |-> IF fails THEN 0 ELSE bytes.end - bytes.start,
                    parts |-> IF requested.kind = "unsatisfiable" \/ ~get \/ fails THEN <<>>
                              ELSE Split(read_plan(mp4[1], bytes))]
    BY Zenon DEF Serves, RangeOf
<1>2. ~fails /\ IsExactAnswer(Http!Status(requested), bytes.end - bytes.start, get, parts, wanted)
    BY <1>1, AnswerIs, Zenon
<1>3. /\ mp4 # <<>> /\ mp4' = mp4 /\ files' = files
      /\ answer' = [status |-> Http!Status(requested), header |-> header, get |-> get, sameFile |-> sameFile,
                    length |-> bytes.end - bytes.start, parts |-> parts]
    <2> HIDE DEF fails
    <2> QED
        BY <1>1, <1>2
<1>4. /\ answer'.status = Http!Status(requested) /\ answer'.header = header /\ answer'.get = get
      /\ answer'.sameFile = sameFile /\ answer'.length = bytes.end - bytes.start /\ answer'.parts = parts
    BY <1>3
<1>5. Wanted' = wanted
    BY <1>3, <1>4 DEF Wanted, WantedOf
<1>6. AnswersAreExact' <=>
        (answer.status # 0 => IsExactAnswer(answer.status, answer.length, answer.get, answer.parts, Wanted))'
    BY ExactIs, PTL
<1>7. IsExactAnswer(answer.status, answer.length, answer.get, answer.parts, Wanted)' <=>
        IsExactAnswer(Http!Status(requested), bytes.end - bytes.start, get, parts, wanted)
    <2> PICK status, length : status = Http!Status(requested) /\ length = bytes.end - bytes.start
        BY Zenon
    <2>1. IsExactAnswer(status, length, get, parts, wanted)' <=> IsExactAnswer(status, length, get, parts, wanted)
        BY <1>3, BytesStay
    <2>2. answer'.status = status /\ answer'.length = length /\ answer'.get = get /\ answer'.parts = parts
        BY <1>4
    <2> QED
        BY <1>5, <2>1, <2>2
<1> QED
    BY <1>2, <1>6, <1>7, Zenon

\* An answer is given from the prepared file, which stays what it is.
AnswerInv ==
    /\ FileInv
    /\ mp4 # <<>> => prepared
    /\ answer.status # 0 => mp4 # <<>>
    /\ AnswersAreExact

LEMMA AnswerStep == AnswerInv /\ [Next]_vars => AnswerInv'
<1> SUFFICES ASSUME AnswerInv, [Next]_vars PROVE AnswerInv'
    OBVIOUS
<1>1. FileInv' /\ FileInv
    BY FileStep DEF AnswerInv
<1>2. ASSUME UNCHANGED <<mp4, prepared, answer>>, files' = files \/ mp4 = <<>> PROVE AnswerInv'
    <2>1. CASE answer.status = 0
        BY <1>1, <1>2, <2>1 DEF AnswerInv, AnswersAreExact
    <2>2. CASE answer.status # 0
        <3>1. files' = files
            BY <1>2, <2>2 DEF AnswerInv
        <3>2. Wanted' = Wanted
            BY <1>2 DEF Wanted
        <3>3. AnswersAreExact' <=>
                (answer.status # 0 => IsExactAnswer(answer.status, answer.length, answer.get, answer.parts, Wanted))'
            BY ExactIs, PTL
        <3>4. IsExactAnswer(answer.status, answer.length, answer.get, answer.parts, Wanted)' <=>
                IsExactAnswer(answer.status, answer.length, answer.get, answer.parts, Wanted)
            BY <1>2, <3>1, <3>2, BytesStay, Zenon
        <3>5. AnswersAreExact'
            BY <2>2, <3>3, <3>4, ExactIs, Zenon DEF AnswerInv
        <3> QED
            BY <1>1, <1>2, <3>5 DEF AnswerInv
    <2> QED
        BY <2>1, <2>2
<1>3. CASE LoadStep /\ UNCHANGED <<mux, mp4, prepared, answer>>
    <2>1. files' = files
        BY <1>3, ZenonT(60) DEF LoadStep, ReadsIndex, FragmentArrives, TakesFragment, FetchFails, Fails
    <2> QED
        BY <1>2, <1>3, <2>1
<1>4. CASE Prepares
    <2>1. mp4 = <<>> /\ answer' = answer /\ prepared'
        BY <1>4 DEF Prepares, AnswerInv
    <2>2. answer'.status = 0
        BY <2>1 DEF AnswerInv
    <2> QED
        BY <1>1, <2>1, <2>2 DEF AnswerInv, AnswersAreExact
<1>5. ASSUME NEW header \in Headers, NEW get \in BOOLEAN, NEW sameFile \in BOOLEAN, Serves(get, sameFile, header)
      PROVE  AnswerInv'
    <2>1. AnswersAreExact'
        BY <1>1, <1>5, ServesExactly, Zenon
    <2>2. mp4 # <<>> /\ UNCHANGED <<mp4, prepared>>
        BY <1>5 DEF Serves
    <2> QED
        BY <1>1, <2>1, <2>2 DEF AnswerInv
<1>6. CASE loads = [s \in Sources |-> NotLoaded] /\ UNCHANGED <<mp4, prepared, answer>>
    <2>1. ~Loaded
        BY <1>6 DEF Loaded, Sources, NotLoaded
    <2>2. mp4 = <<>>
        BY <1>1, <2>1 DEF FileInv, HasTracks
    <2> QED
        BY <1>2, <1>6, <2>2
<1>7. CASE UNCHANGED vars
    BY <1>2, <1>7 DEF vars
<1> QED
    BY <1>3, <1>4, <1>5, <1>6, <1>7 DEF Next

\* Whatever the sources, their fragments and the range that is asked for: the
\* answer holds those bytes of the file that its header describes, and 416 is for
\* ranges without a byte in it (resolve_range, read_plan, serve).
THEOREM AnswersStayExact == Spec => []AnswersAreExact
<1>1. Init => AnswerInv
    <2> SUFFICES ASSUME Init PROVE AnswerInv
        OBVIOUS
    <2>1. FileInv /\ mp4 = <<>>
        BY LoadsInit DEF Init, FileInv
    <2>2. answer.status = 0
        BY DEF Init, NoAnswer
    <2> QED
        BY <2>1, <2>2 DEF AnswerInv, AnswersAreExact
<1>2. AnswerInv => AnswersAreExact
    BY DEF AnswerInv
<1> QED
    BY <1>1, <1>2, AnswerStep, PTL DEF Spec

-----------------------------------------------------------------------------
(* The online mux.                                                         *)

IsWhole == \A s \in Sources : files[s].whole

Time(s, n) == Fragment(s, n).decode_time
Weight(s, n) == RealTime([track |-> s, number |-> n])

\* The shape of the state.
MuxTypes ==
    /\ mux = [phase |-> mux.phase, start |-> mux.start, toSeek |-> mux.toSeek, at |-> mux.at,
              out |-> mux.out, length |-> mux.length]
    /\ mux.start \in Nat
    /\ mux.toSeek \in {<<>>, <<"audio">>, <<"video", "audio">>}
    /\ mux.at \in [Sources -> Nat]
    /\ \A s \in Sources : mux.at[s] \in 1..(FragmentCount(s) + 1)
    /\ mux.out \in Seq([track : Sources, number : Nat])

\* What has gone out was asked for and is behind.
SentInv ==
    \A i \in DOMAIN mux.out :
        /\ mux.out[i].number \in 1..FragmentCount(mux.out[i].track)
        /\ mux.out[i].number < mux.at[mux.out[i].track]
        /\ IsDue(mux.out[i].track, mux.out[i].number)

\* What is behind and was asked for has gone out: also after a seek.
PassedInv ==
    \A s \in Sources : \A n \in 1..FragmentCount(s) :
        n < mux.at[s] /\ IsDue(s, n) => \E i \in DOMAIN mux.out : mux.out[i] = [track |-> s, number |-> n]

\* Each track in its order and the tracks by time.
OrderInv ==
    \A i, j \in DOMAIN mux.out : i < j =>
        /\ mux.out[i].track = mux.out[j].track => mux.out[i].number < mux.out[j].number
        /\ RealTime(mux.out[i]) <= RealTime(mux.out[j])

\* What is next is not before what has gone out.
FrontierInv ==
    \A i \in DOMAIN mux.out, s \in Sources :
        mux.at[s] <= FragmentCount(s) => RealTime(mux.out[i]) <= Weight(s, mux.at[s])

PhaseInv ==
    /\ mux.toSeek # <<>> => mux.out = <<>>
    /\ mux.phase = "done" => \A s \in Sources : mux.at[s] = FragmentCount(s) + 1

MuxInv ==
    /\ files \in Inputs
    /\ IsWhole => MuxTypes /\ SentInv /\ PassedInv /\ OrderInv /\ FrontierInv /\ PhaseInv

\* Multiplying keeps the order.
\* The index of a source that is not broken.
LEMMA SourceIsIndexed ==
    ASSUME files \in Inputs, IsWhole, NEW s \in Sources
    PROVE  /\ IsIndexed(files[s])
           /\ FragmentCount(s) \in Nat
           /\ files[s].track.timescale \in Nat \ {0}
           /\ \A n \in 1..FragmentCount(s) : Time(s, n) \in Nat /\ Fragment(s, n).offset \in Nat
           /\ \A m, n \in 1..FragmentCount(s) : m <= n => Time(s, m) <= Time(s, n)
<1>1. IsIndexed(files[s])
    BY MuxAssumption DEF IsWhole
<1>2. /\ FragmentCount(s) \in Nat
      /\ files[s].track.timescale \in Nat \ {0}
      /\ \A n \in 1..FragmentCount(s) : Time(s, n) \in Nat /\ Fragment(s, n).offset \in Nat
    BY <1>1 DEF IsIndexed, Time, Fragment, FragmentCount
<1>3. \A m, n \in 1..FragmentCount(s) : m < n => Time(s, m) <= Time(s, n)
    BY <1>1 DEF IsIndexed, Time, Fragment, FragmentCount
<1>4. \A m, n \in 1..FragmentCount(s) : m <= n => Time(s, m) <= Time(s, n)
    BY <1>2, <1>3
<1> QED
    BY <1>1, <1>2, <1>4

\* Times that can be compared across the tracks.
LEMMA Weights ==
    ASSUME files \in Inputs, IsWhole, NEW s \in Sources
    PROVE  /\ \A n \in 1..FragmentCount(s) : Weight(s, n) \in Nat
           /\ \A m, n \in 1..FragmentCount(s) : m <= n => Weight(s, m) <= Weight(s, n)
<1> DEFINE other == IF s = "video" THEN "audio" ELSE "video"
           scale == files[other].track.timescale
<1>1. scale \in Nat
    BY SourceIsIndexed DEF Sources
<1>2. \A n : Weight(s, n) = Time(s, n) * scale
    BY DEF Weight, RealTime, Time
<1> HIDE DEF scale
<1>3. ASSUME NEW m \in 1..FragmentCount(s), NEW n \in 1..FragmentCount(s), m <= n
      PROVE  Weight(s, m) \in Nat /\ Weight(s, n) \in Nat /\ Weight(s, m) <= Weight(s, n)
    <2>1. Time(s, m) \in Nat /\ Time(s, n) \in Nat /\ Time(s, m) <= Time(s, n)
        BY <1>3, SourceIsIndexed
    <2>2. Time(s, m) * scale \in Nat /\ Time(s, n) * scale \in Nat /\ Time(s, m) * scale <= Time(s, n) * scale
        BY <1>1, <2>1, TimesKeepsOrder
    <2> QED
        BY <1>2, <2>2
<1>4. FragmentCount(s) \in Nat
    BY SourceIsIndexed
<1> QED
    BY <1>3, <1>4

\* The fragment that is taken is the earlier one of the two that are next.
LEMMA TakesEarlier ==
    ASSUME files \in Inputs, IsWhole, MuxTypes, Left("video") \/ Left("audio"),
           NEW s \in Sources, s = IF TakesVideo THEN "video" ELSE "audio", NEW r \in Sources, Left(r)
    PROVE  Left(s) /\ Weight(s, mux.at[s]) <= Weight(r, mux.at[r])
<1>1. \A t \in Sources : Left(t) => mux.at[t] \in 1..FragmentCount(t)
    BY SourceIsIndexed DEF Left, MuxTypes
<1>2. \A t \in Sources : Left(t) => Weight(t, mux.at[t]) \in Nat
    BY <1>1, Weights
<1>3. TakesVideo <=> \/ Left("video") /\ ~Left("audio")
                     \/ Left("video") /\ Left("audio") /\ Weight("video", mux.at["video"]) <= Weight("audio", mux.at["audio"])
    BY DEF TakesVideo, TimeOf, Weight, RealTime
<1>4. s \in {"video", "audio"} /\ r \in {"video", "audio"}
    BY DEF Sources
<1>5. "video" \in Sources /\ "audio" \in Sources
    BY DEF Sources
<1> QED
    BY <1>2, <1>3, <1>4, <1>5

LEMMA MuxInit == Init => MuxInv
<1> SUFFICES ASSUME Init, IsWhole PROVE MuxInv
    BY DEF Init, DashInit, MuxInv
<1>1. files \in Inputs /\ mux = NoMux
    BY DEF Init, DashInit
<1>2. MuxTypes
    <2>1. \A s \in Sources : FragmentCount(s) \in Nat
        BY <1>1, SourceIsIndexed
    <2>2. mux.out \in Seq([track : Sources, number : Nat])
        BY <1>1 DEF NoMux
    <2> QED
        BY <1>1, <2>1, <2>2 DEF MuxTypes, NoMux
<1>3. mux.out = <<>> /\ \A s \in Sources : mux.at[s] = 1
    BY <1>1 DEF NoMux
<1>4. SentInv /\ OrderInv /\ FrontierInv
    BY <1>3 DEF SentInv, OrderInv, FrontierInv
<1>5. PassedInv
    BY <1>1, <1>3, SourceIsIndexed DEF PassedInv
<1>6. PhaseInv
    BY <1>1 DEF PhaseInv, NoMux
<1> QED
    BY <1>1, <1>2, <1>4, <1>5, <1>6 DEF MuxInv

\* What the operators of the mux read.
LEMMA SameFiles ==
    ASSUME files' = files
    PROVE  /\ IsWhole' = IsWhole
           /\ \A s : FragmentCount(s)' = FragmentCount(s)
           /\ \A f : RealTime(f)' = RealTime(f)
           /\ \A s, n : Weight(s, n)' = Weight(s, n) /\ Time(s, n)' = Time(s, n)
           /\ mux'.start = mux.start => \A s, n : IsDue(s, n)' = IsDue(s, n)
    BY DEF IsWhole, FragmentCount, RealTime, Weight, Time, Fragment, IsDue

\* A start begins afresh.
LEMMA MuxOpensStep ==
    ASSUME MuxInv, IsWhole, NEW start \in Starts, MuxOpens(start)
    PROVE  MuxInv'
<1>1. files \in Inputs /\ files' = files
    BY DEF MuxInv, MuxOpens
<1> DEFINE known == start = 0 /\ \A s \in Sources : HasIndex(files[s])
           total == InitSize + referenced_bytes("video") + referenced_bytes("audio")
<1>2. /\ mux' = [NoMux EXCEPT !.phase = "muxing", !.start = start,
                    !.toSeek = IF start > 0 THEN <<"video", "audio">> ELSE <<>>,
                    !.length = IF known THEN total ELSE -1]
    BY DEF MuxOpens
<1> HIDE DEF known, total
<1>3. /\ mux'.phase = "muxing" /\ mux'.start = start /\ mux'.at = [s \in Sources |-> 1] /\ mux'.out = <<>>
      /\ mux'.toSeek \in {<<>>, <<"video", "audio">>}
      /\ mux' = [phase |-> mux'.phase, start |-> mux'.start, toSeek |-> mux'.toSeek, at |-> mux'.at,
                 out |-> mux'.out, length |-> mux'.length]
    BY <1>2 DEF NoMux
<1>4. start \in Nat /\ mux'.out \in Seq([track : Sources, number : Nat])
    BY <1>3, MuxAssumption
<1>5. \A s \in Sources : FragmentCount(s) \in Nat /\ FragmentCount(s)' = FragmentCount(s)
    BY <1>1, SameFiles, SourceIsIndexed
<1>6. MuxTypes'
    BY <1>3, <1>4, <1>5 DEF MuxTypes
<1>7. (SentInv /\ OrderInv /\ FrontierInv /\ PhaseInv)'
    BY <1>3 DEF SentInv, OrderInv, FrontierInv, PhaseInv
<1>8. PassedInv'
    BY <1>3, <1>5 DEF PassedInv
<1> QED
    BY <1>1, <1>6, <1>7, <1>8 DEF MuxInv

\* Where a segment is and when it begins are numbers.
LEMMA SegmentsArePlaces ==
    ASSUME files \in Inputs, NEW s \in Sources, NEW k \in DOMAIN files[s].sidx.sizes
    PROVE  SegmentTime(files[s].sidx, k) \in Nat /\ SegmentAt(files[s].sidx, k).start \in Int
<1> DEFINE sidx == files[s].sidx
<1>1. IsIndex(sidx)
    BY DashAssumption
<1> HIDE DEF sidx
<1> DEFINE n == k - 1
<1>2. /\ sidx.sizes \in Seq(Nat) /\ n \in 0..Len(sidx.sizes)
      /\ sidx.durations \in Seq(Nat) /\ n \in 0..Len(sidx.durations)
    <2>1. sidx.sizes \in Seq(Nat) /\ sidx.durations \in Seq(Nat) /\ Len(sidx.sizes) = Len(sidx.durations)
        BY <1>1 DEF IsIndex
    <2> DEFINE q == sidx.sizes
    <2>2. q \in Seq(Nat) /\ k \in DOMAIN q
        BY <2>1 DEF sidx
    <2> HIDE DEF q
    <2>3. Len(q) \in Nat /\ k \in 1..Len(q)
        BY <2>2
    <2>4. n \in 0..Len(q)
        BY <2>3
    <2> QED
        BY <2>1, <2>4 DEF q
<1> HIDE DEF n
<1>3. SumFunctionOnSet(sidx.sizes, 1..n) \in Nat /\ SumFunctionOnSet(sidx.durations, 1..n) \in Nat
    BY <1>2, SumOfFirst
<1>4. /\ SegmentTime(sidx, k) = sidx.earliest + SumFunctionOnSet(sidx.durations, 1..n)
      /\ SegmentAt(sidx, k).start = sidx.position + sidx.length + sidx.first_offset + SumFunctionOnSet(sidx.sizes, 1..n)
    BY DEF SegmentTime, SegmentAt, SegmentStart, n
<1>5. /\ sidx.position \in Nat /\ sidx.length \in Nat /\ sidx.first_offset \in Nat /\ sidx.earliest \in Nat
    BY <1>1 DEF IsIndex
<1>6. SegmentTime(sidx, k) \in Nat
    BY <1>3, <1>4, <1>5
<1>7. SegmentAt(sidx, k).start \in Int
    BY <1>3, <1>4, <1>5
<1> QED
    BY <1>6, <1>7 DEF sidx

\* A time a that is at most b in another scale is before m when b is.
LEMMA BeforeInBothScales ==
    ASSUME NEW a \in Nat, NEW b \in Nat, NEW m \in Nat, NEW c \in Nat \ {0}, NEW d \in Nat \ {0},
           a * c <= b * d, b < m * c
    PROVE  a < m * d
<1> SUFFICES ASSUME m * d <= a PROVE FALSE
    <2>1. m * d \in Nat
        OBVIOUS
    <2> QED
        BY <2>1
<1>1. PICK e \in Nat : e = m * c
    OBVIOUS
<1>2. PICK f \in Nat : f = m * d
    OBVIOUS
<1>3. f * c <= a * c /\ f * c \in Nat /\ a * c \in Nat
    BY <1>2, TimesKeepsOrder
<1>4. b * d < e * d /\ b * d \in Nat /\ e * d \in Nat
    BY <1>1, TimesKeepsStrictly
<1>5. f * c = e * d
    <2>1. (m * d) * c = (m * c) * d
        OBVIOUS
    <2> QED
        BY <1>1, <1>2, <2>1
<1> QED
    BY <1>3, <1>4, <1>5

\* A seek passes over nothing that was asked for.
LEMMA SeekPassesNothing ==
    ASSUME files \in Inputs, IsWhole, NEW s \in Sources, mux.start \in Nat, HasIndex(files[s]),
           NEW offset \in sidx_offset_for_start(files[s].sidx, mux.start)
    PROVE  /\ FragmentFrom(s, offset) \in 1..(FragmentCount(s) + 1)
           /\ \A n \in 1..FragmentCount(s) : n < FragmentFrom(s, offset) => ~IsDue(s, n)
<1> DEFINE sidx == files[s].sidx
           count == FragmentCount(s)
           scale == files[s].track.timescale
           wanted == mux.start * sidx.timescale
           hits == {k \in DOMAIN sidx.sizes : SegmentTime(sidx, k) >= wanted}
           after == {n \in 1..count : Fragment(s, n).offset >= offset}
           k0 == Min(hits)
<1>1. hits # {} /\ offset = SegmentAt(sidx, k0).start
    BY DEF sidx_offset_for_start
<1>2. sidx.sizes \in Seq(Nat) /\ count \in Nat
    BY DashAssumption, SourceIsIndexed DEF IsIndex
<1>3. k0 \in hits /\ \A k \in hits : k0 <= k
    <2>1. Len(sidx.sizes) \in Nat /\ hits \in SUBSET (1..Len(sidx.sizes))
        <3> DEFINE q == sidx.sizes
        <3>1. hits \in SUBSET DOMAIN q
            OBVIOUS
        <3> HIDE DEF sidx, hits
        <3>2. q \in Seq(Nat)
            BY <1>2
        <3> HIDE DEF q
        <3>3. Len(q) \in Nat /\ hits \in SUBSET (1..Len(q))
            BY <3>1, <3>2
        <3> QED
            BY <3>3 DEF q
    <2> HIDE DEF hits
    <2> QED
        BY <1>1, <2>1, LeastExists
<1>4. /\ \A n \in 1..count : Fragment(s, n).offset \in Nat
      /\ SegmentAt(sidx, k0).start \in Int
      /\ \A k \in DOMAIN sidx.sizes : SegmentTime(sidx, k) \in Nat
      /\ \A n \in 1..count : Fragment(s, n).offset < SegmentAt(sidx, k0).start =>
            \E j \in 1..(k0 - 1) : Time(s, n) * sidx.timescale <= SegmentTime(sidx, j) * scale
    <2>1. IsIndexed(files[s]) /\ \A n \in 1..count : Fragment(s, n).offset \in Nat
        BY SourceIsIndexed
    <2>2. k0 \in DOMAIN sidx.sizes
        BY <1>3
    <2>3. \A k \in DOMAIN sidx.sizes : SegmentTime(sidx, k) \in Nat /\ SegmentAt(sidx, k).start \in Int
        BY SegmentsArePlaces
    <2> HIDE DEF k0, hits
    <2> QED
        BY <2>1, <2>2, <2>3 DEF IsIndexed, Fragment, FragmentCount, Time
<1>5. ASSUME NEW n \in 1..count, Fragment(s, n).offset < offset PROVE ~IsDue(s, n)
    <2>1. PICK j \in 1..(k0 - 1) : Time(s, n) * sidx.timescale <= SegmentTime(sidx, j) * scale
        BY <1>1, <1>4, <1>5
    <2> HIDE DEF k0
    <2>7. k0 \in DOMAIN sidx.sizes
        BY <1>3
    <2> DEFINE most == Len(sidx.sizes)
    <2> HIDE DEF sidx, hits
    <2>8. most \in Nat /\ DOMAIN sidx.sizes = 1..most
        BY <1>2
    <2> HIDE DEF most
    <2>2. j \in 1..(k0 - 1) /\ k0 \in 1..most /\ j \in DOMAIN sidx.sizes /\ j < k0
        BY <2>1, <2>7, <2>8
    <2>3. j \notin hits
        BY <1>3, <2>2
    <2>4. SegmentTime(sidx, j) \in Nat /\ ~(SegmentTime(sidx, j) >= wanted)
        BY <1>4, <2>2, <2>3 DEF hits
    <2>5. Time(s, n) \in Nat /\ scale \in Nat \ {0} /\ sidx.timescale \in Nat \ {0}
        BY SourceIsIndexed, DashAssumption DEF IsIndex, sidx
    <2> HIDE DEF scale
    <2>6. SegmentTime(sidx, j) < mux.start * sidx.timescale
        <3>1. wanted \in Nat
            BY <2>5
        <3> HIDE DEF wanted
        <3>2. SegmentTime(sidx, j) < wanted
            BY <2>4, <3>1
        <3> QED
            BY <3>2 DEF wanted
    <2>9. Time(s, n) < mux.start * scale
        <3> HIDE DEF wanted
        <3> QED
            BY <2>1, <2>4, <2>5, <2>6, BeforeInBothScales
    <2>10. mux.start * scale \in Nat
        BY <2>5
    <2>11. ~(Time(s, n) >= mux.start * scale)
        BY <2>5, <2>9, <2>10
    <2> QED
        BY <2>11 DEF IsDue, Time, scale
<1>6. FragmentFrom(s, offset) = IF after = {} THEN count + 1 ELSE Min(after)
    BY DEF FragmentFrom
<1>7. ASSUME after # {} PROVE Min(after) \in after /\ \A n \in after : Min(after) <= n
    <2>1. after \in SUBSET (1..count)
        OBVIOUS
    <2> HIDE DEF after
    <2> QED
        BY <1>2, <1>7, <2>1, LeastExists
<1>8. \A n \in 1..count : n < FragmentFrom(s, offset) => n \notin after
    <2> HIDE DEF after
    <2>1. CASE after = {}
        BY <2>1
    <2>2. CASE after # {}
        <3>1. Min(after) \in Nat
            BY <1>7, <2>2 DEF after
        <3> QED
            BY <1>6, <1>7, <2>2, <3>1
    <2> QED
        BY <2>1, <2>2
<1>9. FragmentFrom(s, offset) \in 1..(count + 1)
    BY <1>2, <1>6, <1>7
<1>10. \A n \in 1..count : n \notin after => Fragment(s, n).offset < offset
    BY <1>1, <1>4
<1> HIDE DEF after, hits, k0, sidx
<1> QED
    BY <1>5, <1>8, <1>9, <1>10

\* A source found by its index, or read from its beginning.
LEMMA MuxSeeksStep ==
    ASSUME MuxInv, IsWhole, MuxSeeks
    PROVE  MuxInv'
<1> DEFINE s == Head(mux.toSeek)
<1>1. files \in Inputs /\ files' = files /\ mux.phase = "muxing" /\ mux.toSeek # <<>>
    BY DEF MuxInv, MuxSeeks
<1>2. MuxTypes /\ SentInv /\ PassedInv /\ PhaseInv
    BY DEF MuxInv
<1>3. s \in Sources /\ Tail(mux.toSeek) \in {<<>>, <<"audio">>}
    <2>1. mux.toSeek = <<"audio">> \/ mux.toSeek = <<"video", "audio">>
        BY <1>1, <1>2 DEF MuxTypes
    <2>2. Tail(<<"audio">>) = <<>> /\ Tail(<<"video", "audio">>) = <<"audio">>
        OBVIOUS
    <2>3. Head(<<"audio">>) = "audio" /\ Head(<<"video", "audio">>) = "video"
        OBVIOUS
    <2>4. s \in {"audio", "video"} /\ Tail(mux.toSeek) \in {<<>>, <<"audio">>}
        BY <2>1, <2>2, <2>3, Zenon
    <2> QED
        BY <2>4 DEF Sources
<1>4. PICK n \in {1} \cup {FragmentFrom(s, offset) : offset \in SeekOffsets(s)} :
            mux' = [mux EXCEPT !.at[s] = n, !.toSeek = Tail(mux.toSeek)]
    BY ZenonT(30) DEF MuxSeeks
<1> HIDE DEF s
<1>5. /\ mux' = [phase |-> mux'.phase, start |-> mux'.start, toSeek |-> mux'.toSeek, at |-> mux'.at,
                 out |-> mux'.out, length |-> mux'.length]
      /\ mux'.phase = "muxing" /\ mux'.start = mux.start /\ mux'.out = mux.out
      /\ mux'.toSeek = Tail(mux.toSeek) /\ mux'.at = [mux.at EXCEPT ![s] = n]
    BY <1>1, <1>2, <1>4 DEF MuxTypes
<1>6. mux.out = <<>>
    BY <1>1, <1>2 DEF PhaseInv
<1>7. \A r \in Sources : FragmentCount(r) \in Nat
    BY <1>1, SourceIsIndexed
<1>8. n \in 1..(FragmentCount(s) + 1) /\ \A m \in 1..FragmentCount(s) : m < n => ~IsDue(s, m)
    <2>1. mux.start \in Nat
        BY <1>2 DEF MuxTypes
    <2>2. CASE n = 1
        BY <1>3, <1>7, <2>2
    <2>3. CASE n # 1
        <3>1. PICK offset \in SeekOffsets(s) : n = FragmentFrom(s, offset)
            BY <1>4, <2>3
        <3>2. HasIndex(files[s]) /\ offset \in sidx_offset_for_start(files[s].sidx, mux.start)
            BY <3>1 DEF SeekOffsets
        <3> QED
            BY <1>1, <1>3, <2>1, <3>1, <3>2, SeekPassesNothing
    <2> QED
        BY <2>2, <2>3
<1>9. /\ \A r \in Sources : FragmentCount(r)' = FragmentCount(r)
      /\ \A r, m : IsDue(r, m)' = IsDue(r, m)
    BY <1>1, <1>5, SameFiles
<1>10. mux'.at[s] = n /\ \A r \in Sources : r # s => mux'.at[r] = mux.at[r]
    BY <1>2, <1>3, <1>5 DEF MuxTypes
<1>11. MuxTypes'
    <2>1. mux'.at \in [Sources -> Nat]
        BY <1>2, <1>3, <1>5, <1>7, <1>8 DEF MuxTypes
    <2>2. \A r \in Sources : mux'.at[r] \in 1..(FragmentCount(r)' + 1)
        BY <1>2, <1>8, <1>9, <1>10 DEF MuxTypes
    <2> QED
        BY <1>2, <1>3, <1>5, <2>1, <2>2 DEF MuxTypes
<1>12. (SentInv /\ OrderInv /\ FrontierInv /\ PhaseInv)'
    BY <1>5, <1>6 DEF SentInv, OrderInv, FrontierInv, PhaseInv
<1>13. PassedInv'
    BY <1>2, <1>5, <1>6, <1>8, <1>9, <1>10 DEF PassedInv
<1> QED
    BY <1>1, <1>11, <1>12, <1>13 DEF MuxInv

\* The next fragment goes out, or is skipped.
LEMMA MuxTakesStep ==
    ASSUME MuxInv, IsWhole, MuxTakes
    PROVE  MuxInv'
<1> DEFINE s == IF TakesVideo THEN "video" ELSE "audio"
           n == mux.at[s]
           due == IsDue(s, n)
           item == [track |-> s, number |-> n]
<1>1. files \in Inputs /\ files' = files /\ mux.phase = "muxing" /\ mux.toSeek = <<>> /\ (Left("video") \/ Left("audio"))
    BY DEF MuxInv, MuxTakes
<1>2. MuxTypes /\ SentInv /\ PassedInv /\ OrderInv /\ FrontierInv
    BY DEF MuxInv
<1>3. mux' = [mux EXCEPT !.at[s] = n + 1, !.out = IF due THEN Append(mux.out, item) ELSE mux.out]
    BY DEF MuxTakes, fragment_is_at_or_after, IsDue
<1>4. s \in Sources
    BY DEF Sources
<1>5. Left(s) /\ \A r \in Sources : Left(r) => Weight(s, n) <= Weight(r, mux.at[r])
    <2> HIDE DEF s
    <2>1. \A r \in Sources : Left(r) => Left(s) /\ Weight(s, n) <= Weight(r, mux.at[r])
        BY <1>1, <1>2, <1>4, TakesEarlier DEF s
    <2> QED
        BY <1>1, <2>1 DEF Sources
<1> HIDE DEF s, due
<1>6. /\ mux' = [phase |-> mux'.phase, start |-> mux'.start, toSeek |-> mux'.toSeek, at |-> mux'.at,
                 out |-> mux'.out, length |-> mux'.length]
      /\ mux'.phase = "muxing" /\ mux'.start = mux.start /\ mux'.toSeek = <<>>
      /\ mux'.at = [mux.at EXCEPT ![s] = n + 1]
      /\ mux'.out = IF due THEN Append(mux.out, item) ELSE mux.out
    BY <1>1, <1>2, <1>3 DEF MuxTypes
<1>7. /\ \A r \in Sources : FragmentCount(r) \in Nat
      /\ \A r : FragmentCount(r)' = FragmentCount(r)
      /\ \A r, m : IsDue(r, m)' = IsDue(r, m) /\ Weight(r, m)' = Weight(r, m)
      /\ \A f : RealTime(f)' = RealTime(f)
    BY <1>1, <1>6, SameFiles, SourceIsIndexed
<1>8. n \in Nat /\ n \in 1..FragmentCount(s)
    BY <1>2, <1>4, <1>5, <1>7 DEF Left, MuxTypes
<1>9. mux'.at[s] = n + 1 /\ \A r \in Sources : r # s => mux'.at[r] = mux.at[r]
    BY <1>2, <1>4, <1>6 DEF MuxTypes
<1>10. /\ \A r \in Sources, m \in 1..FragmentCount("video") \cup 1..FragmentCount("audio") :
              m \in 1..FragmentCount(r) => Weight(r, m) \in Nat
       /\ \A r \in Sources : Left(r) => Weight(r, mux.at[r]) \in Nat
       /\ n + 1 <= FragmentCount(s) => Weight(s, n) <= Weight(s, n + 1) /\ Weight(s, n + 1) \in Nat
    <2>1. \A r \in Sources : \A m \in 1..FragmentCount(r) : Weight(r, m) \in Nat
        BY <1>1, Weights
    <2>2. \A r \in Sources : Left(r) => mux.at[r] \in 1..FragmentCount(r)
        BY <1>2, <1>7 DEF Left, MuxTypes
    <2>3. n + 1 <= FragmentCount(s) => Weight(s, n) <= Weight(s, n + 1)
        BY <1>1, <1>4, <1>7, <1>8, Weights
    <2>4. n + 1 <= FragmentCount(s) => n + 1 \in 1..FragmentCount(s)
        BY <1>4, <1>7, <1>8
    <2> HIDE DEF n
    <2> QED
        BY <1>4, <2>1, <2>2, <2>3, <2>4
<1>11. RealTime(item) = Weight(s, n)
    BY DEF Weight
<1>12. \A i \in DOMAIN mux.out : mux.out[i] = [track |-> mux.out[i].track, number |-> mux.out[i].number]
           /\ mux.out[i].track \in Sources /\ mux.out[i].number \in Nat
    <2> DEFINE Items == [track : Sources, number : Nat]
    <2>1. \A f \in Items : f = [track |-> f.track, number |-> f.number] /\ f.track \in Sources /\ f.number \in Nat
        OBVIOUS
    <2>2. mux.out \in Seq(Items)
        BY <1>2 DEF MuxTypes
    <2> HIDE DEF Items
    <2>3. \A i \in DOMAIN mux.out : mux.out[i] \in Items
        BY <2>2
    <2> QED
        BY <2>1, <2>3
<1> DEFINE len == Len(mux.out)
<1>13. /\ len \in Nat /\ DOMAIN mux.out = 1..len
       /\ due => /\ DOMAIN mux'.out = 1..(len + 1) /\ mux'.out[len + 1] = item
                 /\ \A i \in 1..len : mux'.out[i] = mux.out[i]
       /\ ~due => mux'.out = mux.out
       /\ mux'.out \in Seq([track : Sources, number : Nat])
    <2> DEFINE Items == [track : Sources, number : Nat]
    <2>1. item \in Items
        BY <1>4, <1>8
    <2>2. mux.out \in Seq(Items)
        BY <1>2 DEF MuxTypes
    <2> HIDE DEF item, Items
    <2>3. mux'.out = IF due THEN Append(mux.out, item) ELSE mux.out
        BY <1>6
    <2>4. /\ Append(mux.out, item) \in Seq(Items)
          /\ DOMAIN Append(mux.out, item) = 1..(len + 1) /\ Append(mux.out, item)[len + 1] = item
          /\ \A i \in 1..len : Append(mux.out, item)[i] = mux.out[i]
        BY <2>1, <2>2, AppendProperties
    <2>5. len \in Nat /\ DOMAIN mux.out = 1..len
        BY <2>2
    <2>6. mux'.out \in Seq(Items)
        BY <2>2, <2>3, <2>4
    <2> QED
        BY <2>3, <2>4, <2>5, <2>6 DEF Items
<1>14. MuxTypes'
    <2>1. mux'.at \in [Sources -> Nat]
        BY <1>2, <1>4, <1>6, <1>8 DEF MuxTypes
    <2>2. \A r \in Sources : mux'.at[r] \in 1..(FragmentCount(r)' + 1)
        <3>1. FragmentCount(s) \in Nat /\ n + 1 \in 1..(FragmentCount(s) + 1)
            BY <1>4, <1>7, <1>8
        <3>2. \A r \in Sources : mux.at[r] \in 1..(FragmentCount(r) + 1)
            BY <1>2 DEF MuxTypes
        <3> HIDE DEF n
        <3> QED
            BY <1>7, <1>9, <3>1, <3>2
    <2> QED
        BY <1>2, <1>6, <1>13, <2>1, <2>2 DEF MuxTypes
<1>15. item.track = s /\ item.number = n
    OBVIOUS
<1> HIDE DEF item, len, n
<1>16. \A i \in 1..len : mux'.out[i] = mux.out[i]
    BY <1>13
<1>17. \A i \in DOMAIN mux'.out : i \in 1..len \/ (due /\ i = len + 1 /\ mux'.out[i] = item)
    <2>1. CASE due
        <3>1. DOMAIN mux'.out = 1..(len + 1) /\ mux'.out[len + 1] = item /\ len \in Nat
            BY <1>13, <2>1
        <3>2. \A i \in 1..(len + 1) : i \in 1..len \/ i = len + 1
            BY <3>1
        <3> QED
            BY <2>1, <3>1, <3>2
    <2>2. CASE ~due
        BY <1>13, <2>2
    <2> QED
        BY <2>1, <2>2
<1>18. SentInv'
    <2> SUFFICES ASSUME NEW i \in DOMAIN mux'.out
                 PROVE  /\ mux'.out[i].number \in 1..FragmentCount(mux'.out[i].track)
                        /\ mux'.out[i].number < mux'.at[mux'.out[i].track]
                        /\ IsDue(mux'.out[i].track, mux'.out[i].number)
        BY <1>7 DEF SentInv
    <2>1. CASE i \in 1..len
        <3> DEFINE f == mux.out[i]
        <3>1. /\ f.number \in 1..FragmentCount(f.track) /\ f.number < mux.at[f.track] /\ IsDue(f.track, f.number)
              /\ f.track \in Sources /\ f.number \in Nat /\ mux'.out[i] = f
            BY <1>2, <1>12, <1>13, <1>16, <2>1 DEF SentInv
        <3> HIDE DEF f
        <3>2. f.number < mux'.at[f.track]
            BY <1>8, <1>9, <3>1 DEF n
        <3> QED
            BY <3>1, <3>2
    <2>2. CASE due /\ i = len + 1 /\ mux'.out[i] = item
        <3>1. n < mux'.at[s]
            BY <1>8, <1>9
        <3> QED
            BY <1>8, <1>15, <2>2, <3>1 DEF due
    <2> QED
        BY <1>17, <2>1, <2>2
<1>19. PassedInv'
    <2> SUFFICES ASSUME NEW r \in Sources, NEW m \in 1..FragmentCount(r), m < mux'.at[r], IsDue(r, m)
                 PROVE  \E i \in DOMAIN mux'.out : mux'.out[i] = [track |-> r, number |-> m]
        BY <1>7 DEF PassedInv
    <2>1. CASE m < mux.at[r]
        <3>1. PICK i \in DOMAIN mux.out : mux.out[i] = [track |-> r, number |-> m]
            BY <1>2, <2>1 DEF PassedInv
        <3>2. i \in 1..len
            BY <1>13, <3>1
        <3>3. i \in DOMAIN mux'.out /\ mux'.out[i] = mux.out[i]
            <4>1. 1..len \subseteq DOMAIN mux'.out
                BY <1>13
            <4> QED
                BY <1>16, <3>2, <4>1
        <3> QED
            BY <3>1, <3>3
    <2>2. CASE ~(m < mux.at[r])
        <3>1. r = s /\ m = n
            BY <1>7, <1>8, <1>9, <2>2 DEF n
        <3>2. due
            BY <3>1 DEF due
        <3>3. len + 1 \in DOMAIN mux'.out /\ mux'.out[len + 1] = item
            BY <1>13, <3>2
        <3> QED
            BY <3>1, <3>3 DEF item
    <2> QED
        BY <2>1, <2>2
<1>20. \A i \in 1..len : RealTime(mux.out[i]) <= Weight(s, n)
    BY <1>2, <1>4, <1>5, <1>13 DEF FrontierInv, Left, n
<1>21. \A i \in 1..len : RealTime(mux.out[i]) \in Nat
    <2>1. \A r \in Sources : \A m \in 1..FragmentCount(r) : Weight(r, m) \in Nat
        BY <1>1, Weights
    <2> SUFFICES ASSUME NEW i \in 1..len PROVE RealTime(mux.out[i]) \in Nat
        OBVIOUS
    <2>2. mux.out[i].track \in Sources /\ mux.out[i].number \in 1..FragmentCount(mux.out[i].track)
          /\ RealTime(mux.out[i]) = Weight(mux.out[i].track, mux.out[i].number)
        BY <1>2, <1>12, <1>13 DEF SentInv, Weight
    <2> QED
        BY <2>1, <2>2
<1>22. OrderInv'
    <2> SUFFICES ASSUME NEW i \in DOMAIN mux'.out, NEW j \in DOMAIN mux'.out, i < j
                 PROVE  /\ mux'.out[i].track = mux'.out[j].track => mux'.out[i].number < mux'.out[j].number
                        /\ RealTime(mux'.out[i]) <= RealTime(mux'.out[j])
        BY <1>7 DEF OrderInv
    <2>1. CASE j \in 1..len
        <3>1. i \in 1..len
            <4>1. len \in Nat
                BY <1>13
            <4> QED
                BY <1>17, <2>1, <4>1
        <3>2. i \in DOMAIN mux.out /\ j \in DOMAIN mux.out /\ mux'.out[i] = mux.out[i] /\ mux'.out[j] = mux.out[j]
            BY <1>13, <1>16, <2>1, <3>1
        <3> QED
            BY <1>2, <3>2 DEF OrderInv
    <2>2. CASE j = len + 1 /\ mux'.out[j] = item
        <3>1. i \in 1..len
            BY <1>13, <1>17, <2>2
        <3>2. mux.out[i].track = s => mux.out[i].number < n
            BY <1>2, <1>13, <3>1 DEF SentInv, n
        <3> QED
            BY <1>11, <1>15, <1>16, <1>20, <2>2, <3>1, <3>2
    <2> QED
        BY <1>17, <2>1, <2>2
<1>23. FrontierInv'
    <2> SUFFICES ASSUME NEW i \in DOMAIN mux'.out, NEW r \in Sources, mux'.at[r] <= FragmentCount(r)
                 PROVE  RealTime(mux'.out[i]) <= Weight(r, mux'.at[r])
        BY <1>7 DEF FrontierInv
    <2>1. RealTime(mux'.out[i]) <= Weight(s, n) /\ RealTime(mux'.out[i]) \in Nat
        <3>1. Weight(s, n) \in Nat
            BY <1>4, <1>5, <1>10 DEF n
        <3> QED
            BY <1>11, <1>16, <1>17, <1>20, <1>21, <3>1
    <2>2. Weight(s, n) \in Nat
        BY <1>4, <1>5, <1>10 DEF n
    <2>3. CASE r = s
        <3>1. mux'.at[r] = n + 1 /\ Weight(s, n) <= Weight(s, n + 1) /\ Weight(s, n + 1) \in Nat
            BY <1>9, <1>10, <2>3
        <3> QED
            BY <2>1, <2>2, <2>3, <3>1
    <2>4. CASE r # s
        <3>1. mux'.at[r] = mux.at[r] /\ Left(r)
            BY <1>9, <2>4 DEF Left
        <3>2. Weight(s, n) <= Weight(r, mux.at[r]) /\ Weight(r, mux.at[r]) \in Nat
            BY <1>5, <1>10, <3>1
        <3> QED
            BY <2>1, <2>2, <3>1, <3>2
    <2> QED
        BY <2>3, <2>4
<1>24. PhaseInv'
    BY <1>6 DEF PhaseInv
<1> QED
    BY <1>1, <1>14, <1>18, <1>19, <1>22, <1>23, <1>24 DEF MuxInv

\* The end, and an end before its time.
LEMMA MuxStopsStep ==
    ASSUME MuxInv, IsWhole, MuxEnds \/ MuxBreaks
    PROVE  MuxInv'
<1>1. files \in Inputs /\ files' = files
    BY DEF MuxInv, MuxEnds, MuxBreaks
<1>2. MuxTypes /\ SentInv /\ PassedInv /\ OrderInv /\ FrontierInv /\ PhaseInv
    BY DEF MuxInv
<1>3. PICK how \in {"done", "broken"} :
        /\ mux' = [mux EXCEPT !.phase = how]
        /\ how = "done" => ~Left("video") /\ ~Left("audio")
    BY ZenonT(30) DEF MuxEnds, MuxBreaks
<1>4. /\ mux' = [phase |-> mux'.phase, start |-> mux'.start, toSeek |-> mux'.toSeek, at |-> mux'.at,
                 out |-> mux'.out, length |-> mux'.length]
      /\ mux'.phase = how /\ mux'.start = mux.start /\ mux'.toSeek = mux.toSeek /\ mux'.at = mux.at
      /\ mux'.out = mux.out
    BY <1>2, <1>3 DEF MuxTypes
<1>5. /\ \A r \in Sources : FragmentCount(r) \in Nat
      /\ \A r : FragmentCount(r)' = FragmentCount(r)
      /\ \A r, m : IsDue(r, m)' = IsDue(r, m) /\ Weight(r, m)' = Weight(r, m)
      /\ \A f : RealTime(f)' = RealTime(f)
    BY <1>1, <1>4, SameFiles, SourceIsIndexed
<1>6. MuxTypes'
    BY <1>2, <1>4, <1>5 DEF MuxTypes
<1>7. SentInv' /\ PassedInv' /\ OrderInv' /\ FrontierInv'
    <2>1. SentInv' /\ PassedInv'
        BY <1>2, <1>4, <1>5 DEF SentInv, PassedInv
    <2>2. OrderInv' /\ FrontierInv'
        BY <1>2, <1>4, <1>5 DEF OrderInv, FrontierInv
    <2> QED
        BY <2>1, <2>2
<1>8. PhaseInv'
    <2>1. ASSUME how = "done", NEW s \in Sources PROVE mux.at[s] = FragmentCount(s) + 1
        <3>1. ~(mux.at[s] <= FragmentCount(s))
            BY <1>3, <2>1 DEF Left, Sources
        <3>2. mux.at[s] \in 1..(FragmentCount(s) + 1) /\ FragmentCount(s) \in Nat
            BY <1>2, <1>5 DEF MuxTypes
        <3> QED
            BY <3>1, <3>2
    <2> QED
        BY <1>2, <1>4, <1>5, <2>1 DEF PhaseInv
<1> QED
    BY <1>1, <1>6, <1>7, <1>8 DEF MuxInv

LEMMA MuxInvStep == MuxInv /\ [Next]_vars => MuxInv'
<1> SUFFICES ASSUME MuxInv, [Next]_vars PROVE MuxInv'
    OBVIOUS
<1>1. files \in Inputs
    BY DEF MuxInv
<1>2. ASSUME UNCHANGED <<files, mux>> PROVE MuxInv'
    <2>1. /\ IsWhole' = IsWhole
          /\ \A r : FragmentCount(r)' = FragmentCount(r)
          /\ \A r, m : IsDue(r, m)' = IsDue(r, m) /\ Weight(r, m)' = Weight(r, m)
          /\ \A f : RealTime(f)' = RealTime(f)
        BY <1>2, SameFiles
    <2>2. (MuxTypes' <=> MuxTypes) /\ (PhaseInv' <=> PhaseInv)
        BY <1>2, <2>1 DEF MuxTypes, PhaseInv
    <2>3. (SentInv' <=> SentInv) /\ (PassedInv' <=> PassedInv)
        BY <1>2, <2>1 DEF SentInv, PassedInv
    <2>4. (OrderInv' <=> OrderInv) /\ (FrontierInv' <=> FrontierInv)
        BY <1>2, <2>1 DEF OrderInv, FrontierInv
    <2> QED
        BY <1>2, <2>1, <2>2, <2>3, <2>4 DEF MuxInv
<1>3. CASE LoadStep /\ UNCHANGED <<mux, mp4, prepared, answer>>
    <2>1. files' = files
        BY <1>3, ZenonT(30) DEF LoadStep, ReadsIndex, FragmentArrives, TakesFragment, FetchFails, Fails
    <2> QED
        BY <1>2, <1>3, <2>1
<1>4. CASE Prepares \/ \E header \in Headers, get, sameFile \in BOOLEAN : Serves(get, sameFile, header)
    <2>1. UNCHANGED <<files, mux>>
        BY <1>4, ZenonT(30) DEF Prepares, Serves
    <2> QED
        BY <1>2, <2>1
<1>5. CASE MuxStep
    <2>1. CASE IsWhole
        <3>1. ASSUME NEW start \in Starts, MuxOpens(start) PROVE MuxInv'
            BY <2>1, <3>1, MuxOpensStep
        <3>2. CASE MuxSeeks
            BY <2>1, <3>2, MuxSeeksStep
        <3>3. CASE MuxTakes
            BY <2>1, <3>3, MuxTakesStep
        <3>4. CASE MuxEnds \/ MuxBreaks
            BY <2>1, <3>4, MuxStopsStep
        <3> QED
            BY <1>5, <3>1, <3>2, <3>3, <3>4 DEF MuxStep
    <2>2. CASE ~IsWhole
        <3>1. files' = files
            BY <1>5, ZenonT(30) DEF MuxStep, MuxOpens, MuxSeeks, MuxTakes, MuxEnds, MuxBreaks
        <3> QED
            BY <1>1, <2>2, <3>1 DEF MuxInv, IsWhole
    <2> QED
        BY <2>1, <2>2
<1>6. CASE UNCHANGED vars
    BY <1>2, <1>6 DEF vars
<1> QED
    BY <1>3, <1>4, <1>5, <1>6 DEF Next

\* What the mux sent until its end is what was asked for, once and in order: of any
\* two sources that are indexed, from any start.
THEOREM MuxStaysWhole == Spec => []MuxIsWhole
<1>1. ASSUME MuxInv PROVE MuxIsWhole
    <2> SUFFICES ASSUME EndedWell PROVE MuxIsWhole!2
        BY DEF MuxIsWhole
    <2>1. IsWhole /\ files \in Inputs /\ mux.phase = "done"
        BY <1>1 DEF EndedWell, IsWhole, MuxInv
    <2>2. MuxTypes /\ SentInv /\ PassedInv /\ OrderInv /\ PhaseInv
        BY <1>1, <2>1 DEF MuxInv
    <2>3. ASSUME NEW s \in Sources
          PROVE  {mux.out[i].number : i \in {j \in DOMAIN mux.out : mux.out[j].track = s}} =
                 {n \in 1..FragmentCount(s) : IsDue(s, n)}
        <3>1. FragmentCount(s) \in Nat /\ mux.at[s] = FragmentCount(s) + 1
            BY <2>1, <2>2, SourceIsIndexed DEF PhaseInv
        <3>2. ASSUME NEW i \in DOMAIN mux.out, mux.out[i].track = s
              PROVE  mux.out[i].number \in 1..FragmentCount(s) /\ IsDue(s, mux.out[i].number)
            BY <2>2, <3>2 DEF SentInv
        <3>3. ASSUME NEW n \in 1..FragmentCount(s), IsDue(s, n)
              PROVE  \E i \in DOMAIN mux.out : mux.out[i].track = s /\ mux.out[i].number = n
            <4>1. n < mux.at[s]
                BY <3>1
            <4>2. PICK i \in DOMAIN mux.out : mux.out[i] = [track |-> s, number |-> n]
                BY <2>2, <3>3, <4>1 DEF PassedInv
            <4> QED
                BY <4>2
        <3> QED
            BY <3>2, <3>3
    <2> QED
        BY <2>2, <2>3 DEF OrderInv
<1> QED
    BY MuxInit, MuxInvStep, <1>1, PTL DEF Spec

-----------------------------------------------------------------------------
(* How much comes.                                                         *)

\* Without padding the bytes of a fragment are those of its segment.
LEMMA PlainFragment ==
    ASSUME files \in Inputs, IsWhole, NEW s \in Sources, HasIndex(files[s]), ~files[s].padded,
           NEW n \in 1..FragmentCount(s)
    PROVE  FragmentSize(s, n) = files[s].sidx.sizes[n] /\ FragmentSize(s, n) \in Nat
<1> DEFINE file == files[s]
           b == MoofBoxes(file)[n]
           range == SegmentAt(file.sidx, n)
           later == {k \in DOMAIN file.boxes : k > b /\ file.boxes[k].kind = "mdat"}
           B == [kind : STRING, start : Nat, end : Nat]
<1>1. /\ file.boxes \in Seq(B) /\ b \in DOMAIN file.boxes
      /\ IsFragmentOf(file, range, b)
      /\ file.boxes[b].start = range.start /\ file.boxes[b + 1].start = file.boxes[b].end
      /\ n \in 1..Len(file.sidx.sizes)
    BY MuxAssumption DEF IsWhole, IsListed, FragmentCount
<1>2. b + 1 \in DOMAIN file.boxes /\ file.boxes[b + 1].kind = "mdat" /\ file.boxes[b + 1].end = range.end
    BY <1>1 DEF IsFragmentOf
<1> DEFINE most == Len(file.boxes)
<1>3. most \in Nat /\ DOMAIN file.boxes = 1..most /\ b \in 1..most
    <2> HIDE DEF b, file, B
    <2> QED
        BY <1>1
<1>4. later \in SUBSET (1..most) /\ b + 1 \in later
    <2>1. later \in SUBSET DOMAIN file.boxes
        OBVIOUS
    <2> HIDE DEF b, file, most
    <2> QED
        BY <1>2, <1>3, <2>1
<1>5. Min(later) = b + 1
    <2> HIDE DEF most, b
    <2>1. b \in Nat /\ \A k \in later : k \in Nat /\ k >= b + 1
        BY <1>3
    <2> HIDE DEF later
    <2>2. Min(later) \in later /\ \A m \in later : Min(later) <= m
        BY <1>3, <1>4, LeastExists
    <2>3. Min(later) >= b + 1
        BY <2>1, <2>2, Zenon
    <2>4. Min(later) <= b + 1
        <3>1. b + 1 \in later
            BY <1>4
        <3> QED
            BY <2>2, <3>1, Zenon
    <2>5. b \in Nat /\ Min(later) \in Nat
        BY <2>1, <2>2, Zenon
    <2> QED
        BY <2>3, <2>4, <2>5
<1>6. FragmentSize(s, n) = (file.boxes[b].end - file.boxes[b].start) + (file.boxes[b + 1].end - file.boxes[b + 1].start)
    <2> HIDE DEF b
    <2> QED
        BY <1>5 DEF FragmentSize, b
<1>7. /\ file.boxes[b].end \in Nat /\ file.boxes[b].start \in Nat
      /\ file.boxes[b + 1].end \in Nat
    <2> HIDE DEF b, file, B
    <2>1. file.boxes[b] \in B /\ file.boxes[b + 1] \in B
        BY <1>1, <1>2
    <2> QED
        BY <2>1 DEF B
<1>8. range.end = range.start + file.sidx.sizes[n] /\ range.start = file.boxes[b].start
    BY <1>1 DEF SegmentAt
<1>9. file.sidx.sizes[n] \in Nat
    <2>1. file.sidx.sizes \in Seq(Nat)
        BY DashAssumption DEF IsIndex
    <2> DEFINE sizes == file.sidx.sizes
    <2>2. sizes \in Seq(Nat) /\ n \in 1..Len(sizes)
        BY <1>1, <2>1
    <2> HIDE DEF sizes
    <2>3. sizes[n] \in Nat
        BY <2>2
    <2> QED
        BY <2>3 DEF sizes
<1>10. FragmentSize(s, n) = file.sidx.sizes[n]
    <2>1. file.boxes[b + 1].start = file.boxes[b].end
        BY <1>1
    <2>2. file.boxes[b + 1].end = file.boxes[b].start + file.sidx.sizes[n]
        <3> HIDE DEF file, b, range
        <3> QED
            BY <1>2, <1>8
    <2> DEFINE from == file.boxes[b].start
               middle == file.boxes[b].end
               size == file.sidx.sizes[n]
    <2>3. FragmentSize(s, n) = (middle - from) + ((from + size) - middle)
        <3> HIDE DEF file, b
        <3> QED
            BY <1>6, <2>1, <2>2
    <2>4. from \in Nat /\ middle \in Nat /\ size \in Nat
        BY <1>7, <1>9
    <2> HIDE DEF from, middle, size
    <2>5. FragmentSize(s, n) = size
        BY <2>3, <2>4
    <2> QED
        BY <2>5 DEF size
<1> QED
    BY <1>9, <1>10

\* Nothing but what was announced.
IsPlain == \A s \in Sources : HasIndex(files[s]) /\ ~files[s].padded

SentSizes == [i \in DOMAIN mux.out |-> FragmentSize(mux.out[i].track, mux.out[i].number)]
PassedBytes(s) == SumFunctionOnSet(files[s].sidx.sizes, 1..(mux.at[s] - 1))

\* From the beginning on nothing is skipped: what has gone out are the bytes of
\* the segments that are behind.  The length is announced for such an answer only.
LengthInv ==
    /\ mux.start = 0 => mux.toSeek = <<>>
    /\ mux.length # -1 =>
        /\ mux.start = 0 /\ \A s \in Sources : HasIndex(files[s])
        /\ mux.length = InitSize + referenced_bytes("video") + referenced_bytes("audio")
    /\ mux.start = 0 /\ IsPlain => SumFunction(SentSizes) = PassedBytes("video") + PassedBytes("audio")

BytesInv == MuxInv /\ (IsWhole => LengthInv)

\* What is behind of a source is part of its index.
LEMMA PassedIsNumber ==
    ASSUME files \in Inputs, IsWhole, MuxTypes, IsPlain, NEW s \in Sources
    PROVE  /\ files[s].sidx.sizes \in Seq(Nat) /\ Len(files[s].sidx.sizes) = FragmentCount(s)
           /\ PassedBytes(s) \in Nat
           /\ mux.at[s] = FragmentCount(s) + 1 => PassedBytes(s) = referenced_bytes(s)
<1> DEFINE q == files[s].sidx.sizes
           n == mux.at[s] - 1
<1>1. q \in Seq(Nat)
    BY DashAssumption DEF IsIndex
<1>2. Len(q) = FragmentCount(s)
    BY MuxAssumption DEF IsWhole, IsPlain, IsListed, FragmentCount
<1>3. n \in 0..Len(q)
    <2>1. mux.at[s] \in 1..(FragmentCount(s) + 1) /\ FragmentCount(s) \in Nat
        BY SourceIsIndexed DEF MuxTypes
    <2> HIDE DEF q
    <2> QED
        BY <1>2, <2>1
<1>4. PassedBytes(s) = SumFunctionOnSet(q, 1..n) /\ referenced_bytes(s) = SumFunctionOnSet(q, DOMAIN q)
    BY DEF PassedBytes, referenced_bytes, SumFunction
<1>5. FragmentCount(s) \in Nat /\ mux.at[s] \in Nat
    BY SourceIsIndexed DEF MuxTypes
<1>6. mux.at[s] = FragmentCount(s) + 1 => n = FragmentCount(s)
    BY <1>5
<1> HIDE DEF q, n
<1>7. SumFunctionOnSet(q, 1..n) \in Nat
    BY <1>1, <1>3, SumOfFirst
<1>8. DOMAIN q = 1..FragmentCount(s)
    BY <1>1, <1>2
<1> QED
    BY <1>1, <1>2, <1>4, <1>6, <1>7, <1>8 DEF q

\* Without padding the sizes of what has gone out are numbers.
LEMMA SentIsNumber ==
    ASSUME files \in Inputs, IsWhole, MuxTypes, SentInv, IsPlain, NEW i \in DOMAIN mux.out
    PROVE  SentSizes[i] \in Nat
<1> DEFINE Items == [track : Sources, number : Nat]
<1>1. mux.out[i].track \in Sources
    <2>1. \A f \in Items : f.track \in Sources
        OBVIOUS
    <2>2. mux.out \in Seq(Items)
        BY DEF MuxTypes
    <2> HIDE DEF Items
    <2> QED
        BY <2>1, <2>2
<1>2. mux.out[i].number \in 1..FragmentCount(mux.out[i].track)
    BY DEF SentInv
<1>3. FragmentSize(mux.out[i].track, mux.out[i].number) \in Nat
    BY <1>1, <1>2, PlainFragment DEF IsPlain
<1> QED
    BY <1>3 DEF SentSizes

\* One more fragment goes out.
LEMMA SentGrows ==
    ASSUME files \in Inputs, IsWhole, MuxTypes, SentInv, IsPlain, files' = files,
           NEW s \in Sources, NEW n \in 1..FragmentCount(s),
           mux'.out = Append(mux.out, [track |-> s, number |-> n])
    PROVE  /\ SumFunction(SentSizes) \in Int
           /\ SumFunction(SentSizes)' = FragmentSize(s, n) + SumFunction(SentSizes)
<1> DEFINE item == [track |-> s, number |-> n]
           Items == [track : Sources, number : Nat]
           len == Len(mux.out)
           f == SentSizes
           g == [i \in DOMAIN mux'.out |-> FragmentSize(mux'.out[i].track, mux'.out[i].number)]
<1>1. /\ len \in Nat /\ DOMAIN mux.out = 1..len /\ DOMAIN mux'.out = 1..(len + 1)
      /\ mux'.out[len + 1] = item /\ \A i \in 1..len : mux'.out[i] = mux.out[i]
    <2>1. item \in Items
        <3>1. FragmentCount(s) \in Nat
            BY SourceIsIndexed
        <3> QED
            BY <3>1
    <2>2. mux.out \in Seq(Items)
        BY DEF MuxTypes
    <2> HIDE DEF item, Items
    <2>3. mux'.out = Append(mux.out, item)
        BY DEF item
    <2> QED
        BY <2>1, <2>2, <2>3, AppendProperties
<1>2. SentSizes' = g
    BY DEF SentSizes, FragmentSize
<1>3. item.track = s /\ item.number = n
    OBVIOUS
<1> HIDE DEF item, len
<1>4. DOMAIN g = 1..(len + 1) /\ g[len + 1] = FragmentSize(s, n)
    <2>1. len + 1 \in 1..(len + 1)
        BY <1>1
    <2> QED
        BY <1>1, <1>3, <2>1
<1>5. DOMAIN f = 1..len /\ \A i \in 1..len : g[i] = f[i] /\ f[i] \in Nat
    <2>1. DOMAIN f = 1..len
        BY <1>1 DEF SentSizes
    <2>2. 1..len \subseteq 1..(len + 1)
        BY <1>1
    <2>3. \A i \in 1..len : g[i] = f[i]
        BY <1>1, <2>2 DEF SentSizes
    <2>4. \A i \in 1..len : f[i] \in Nat
        BY <1>1, SentIsNumber
    <2> QED
        BY <2>1, <2>3, <2>4
<1>6. FragmentSize(s, n) \in Nat
    BY PlainFragment DEF IsPlain
<1> HIDE DEF f, g
<1> DEFINE S == 1..(len + 1)
           T == 1..len
<1>7. IsFiniteSet(S) /\ IsFiniteSet(T) /\ len + 1 \in S /\ S \ {len + 1} = T
    <2>1. IsFiniteSet(S) /\ IsFiniteSet(T)
        BY <1>1, FS_Interval
    <2>2. len + 1 \in S /\ S \ {len + 1} = T
        BY <1>1
    <2> QED
        BY <2>1, <2>2
<1>8. (\A i \in S : g[i] \in Int) /\ (\A i \in T : g[i] \in Int /\ g[i] = f[i])
    <2>1. \A i \in S : i \in T \/ i = len + 1
        BY <1>1
    <2> QED
        BY <1>4, <1>5, <1>6, <2>1
<1> DEFINE m == len + 1
<1> HIDE DEF S, T, m
<1>9. SumFunctionOnSet(g, S) = g[m] + SumFunctionOnSet(g, S \ {m})
    BY <1>7, <1>8, SumWith DEF m
<1>10. SumFunctionOnSet(g, T) = SumFunctionOnSet(f, T) /\ SumFunctionOnSet(g, T) \in Int
    BY <1>7, <1>8, SumSame, SumIsInt
<1>11. SumFunction(g) = SumFunctionOnSet(g, S) /\ SumFunction(f) = SumFunctionOnSet(f, T)
    BY <1>4, <1>5 DEF SumFunction, S, T
<1>12. SumFunction(g) = FragmentSize(s, n) + SumFunction(f) /\ SumFunction(f) \in Int
    BY <1>4, <1>7, <1>9, <1>10, <1>11 DEF m
<1>13. SumFunction(SentSizes)' = SumFunction(g)
    BY <1>2 DEF SumFunction
<1> QED
    BY <1>12, <1>13 DEF f

\* Nothing is announced before the first start.
LEMMA BytesInit == Init => BytesInv
<1> SUFFICES ASSUME Init, IsWhole PROVE LengthInv
    BY MuxInit DEF BytesInv
<1>1. files \in Inputs /\ mux = NoMux /\ MuxTypes
    BY MuxInit DEF Init, DashInit, MuxInv
<1>2. mux.out = <<>> /\ mux.toSeek = <<>> /\ mux.length = -1 /\ \A s \in Sources : mux.at[s] = 1
    BY <1>1 DEF NoMux
<1>3. SumFunction(SentSizes) = 0
    <2>1. DOMAIN SentSizes = {}
        BY <1>2 DEF SentSizes
    <2> QED
        BY <2>1, SumOfNone DEF SumFunction
<1>4. ASSUME NEW s \in Sources PROVE PassedBytes(s) = 0
    <2>1. 1..(mux.at[s] - 1) = {}
        BY <1>2
    <2> QED
        BY <2>1, SumOfNone DEF PassedBytes
<1>5. PassedBytes("video") = 0 /\ PassedBytes("audio") = 0
    BY <1>4 DEF Sources
<1> QED
    BY <1>2, <1>3, <1>5 DEF LengthInv

LEMMA LengthOpensStep ==
    ASSUME MuxInv, IsWhole, NEW start \in Starts, MuxOpens(start)
    PROVE  LengthInv'
<1>1. files' = files
    BY DEF MuxOpens
<1> DEFINE known == start = 0 /\ \A s \in Sources : HasIndex(files[s])
           total == InitSize + referenced_bytes("video") + referenced_bytes("audio")
<1>2. /\ mux' = [NoMux EXCEPT !.phase = "muxing", !.start = start,
                    !.toSeek = IF start > 0 THEN <<"video", "audio">> ELSE <<>>,
                    !.length = IF known THEN total ELSE -1]
    BY DEF MuxOpens
<1> HIDE DEF known, total
<1>3. /\ mux'.start = start /\ mux'.at = [s \in Sources |-> 1] /\ mux'.out = <<>>
      /\ mux'.toSeek = IF start > 0 THEN <<"video", "audio">> ELSE <<>>
      /\ mux'.length = IF known THEN total ELSE -1
    BY <1>2 DEF NoMux
<1>4. /\ total' = total /\ total = InitSize + referenced_bytes("video") + referenced_bytes("audio")
      /\ \A s \in Sources : HasIndex(files[s])' = HasIndex(files[s])
    BY <1>1 DEF referenced_bytes, SumFunction, HasIndex, HeaderBoxes, total
<1>5. SumFunction(SentSizes)' = 0
    <2>1. SentSizes' = [i \in {} |-> FragmentSize(mux.out[i].track, mux.out[i].number)']
        BY <1>3 DEF SentSizes
    <2>2. DOMAIN SentSizes' = {}
        BY <2>1
    <2>3. SumFunction(SentSizes)' = SumFunctionOnSet(SentSizes', {})
        BY <2>2 DEF SumFunction
    <2> QED
        BY <2>3, SumOfNone
<1>6. ASSUME NEW s \in Sources PROVE PassedBytes(s)' = 0
    <2>1. mux'.at[s] = 1
        BY <1>3
    <2>2. 1..(mux'.at[s] - 1) = {}
        BY <2>1
    <2>3. PassedBytes(s)' = SumFunctionOnSet(files'[s].sidx.sizes, {})
        BY <2>2 DEF PassedBytes
    <2> QED
        BY <2>3, SumOfNone
<1>7. PassedBytes("video")' = 0 /\ PassedBytes("audio")' = 0
    BY <1>6 DEF Sources
<1>8. /\ mux'.start = 0 => mux'.toSeek = <<>>
      /\ mux'.length # -1 => known /\ mux'.length = total
    BY <1>3, MuxAssumption
<1>9. /\ mux'.length # -1 =>
           /\ mux'.start = 0 /\ \A s \in Sources : HasIndex(files[s])'
           /\ mux'.length = (InitSize + referenced_bytes("video") + referenced_bytes("audio"))'
    BY <1>3, <1>4, <1>8 DEF known, total
<1> QED
    BY <1>5, <1>7, <1>8, <1>9 DEF LengthInv

\* The next fragment goes out: at the start 0 every fragment is asked for.
LEMMA LengthTakesStep ==
    ASSUME MuxInv, IsWhole, LengthInv, MuxTakes
    PROVE  LengthInv'
<1>0. PICK s \in Sources : s = IF TakesVideo THEN "video" ELSE "audio"
    BY DEF Sources
<1> DEFINE n == mux.at[s]
           due == IsDue(s, n)
           item == [track |-> s, number |-> n]
<1>1. files \in Inputs /\ files' = files /\ mux.toSeek = <<>> /\ (Left("video") \/ Left("audio"))
      /\ MuxTypes /\ SentInv
    BY DEF MuxInv, MuxTakes
<1>2. mux' = [mux EXCEPT !.at[s] = n + 1, !.out = IF due THEN Append(mux.out, item) ELSE mux.out]
    BY <1>0 DEF MuxTakes, fragment_is_at_or_after, IsDue
<1>3. s \in Sources
    OBVIOUS
<1>4. Left(s)
    BY <1>0, <1>1, TakesEarlier DEF Sources
<1> HIDE DEF due
<1>5. /\ mux'.start = mux.start /\ mux'.toSeek = mux.toSeek /\ mux'.length = mux.length
      /\ mux'.at = [mux.at EXCEPT ![s] = n + 1]
      /\ mux'.out = IF due THEN Append(mux.out, item) ELSE mux.out
    BY <1>1, <1>2 DEF MuxTypes
<1>6. /\ n \in 1..FragmentCount(s) /\ FragmentCount(s) \in Nat
      /\ mux'.at[s] = n + 1 /\ \A r \in Sources : r # s => mux'.at[r] = mux.at[r]
    <2>1. mux.at[s] \in 1..(FragmentCount(s) + 1) /\ FragmentCount(s) \in Nat
        BY <1>1, <1>3, SourceIsIndexed DEF MuxTypes
    <2>2. mux.at \in [Sources -> Nat]
        BY <1>1 DEF MuxTypes
    <2> QED
        BY <1>3, <1>4, <1>5, <2>1, <2>2 DEF Left
<1>7. /\ (\A r : referenced_bytes(r)' = referenced_bytes(r)) /\ IsPlain' = IsPlain
      /\ \A r \in Sources : HasIndex(files[r])' = HasIndex(files[r])
    BY <1>1 DEF referenced_bytes, SumFunction, IsPlain, HasIndex, HeaderBoxes
<1>8. ASSUME mux.start = 0, IsPlain
      PROVE  SumFunction(SentSizes)' = PassedBytes("video")' + PassedBytes("audio")'
    <2>1. due
        <3>1. Time(s, n) \in Nat /\ files[s].track.timescale \in Nat
            BY <1>1, <1>3, <1>6, SourceIsIndexed
        <3>2. mux.start * files[s].track.timescale = 0
            BY <1>8, <3>1
        <3> QED
            BY <3>1, <3>2 DEF due, IsDue, Time
    <2>2. mux'.out = Append(mux.out, [track |-> s, number |-> n])
        BY <1>5, <2>1
    <2>3. SumFunction(SentSizes) \in Int /\ SumFunction(SentSizes)' = FragmentSize(s, n) + SumFunction(SentSizes)
        <3> HIDE DEF n
        <3> QED
            BY <1>1, <1>3, <1>6, <1>8, <2>2, SentGrows
    <2>4. FragmentSize(s, n) = files[s].sidx.sizes[n] /\ FragmentSize(s, n) \in Nat
        <3> HIDE DEF n
        <3> QED
            BY <1>1, <1>3, <1>6, <1>8, PlainFragment DEF IsPlain
    <2>5. PassedBytes(s)' = FragmentSize(s, n) + PassedBytes(s)
        <3> DEFINE q == files[s].sidx.sizes
        <3>1. q \in Seq(Nat) /\ n \in 0..Len(q) /\ n > 0
            <4>1. q \in Seq(Nat) /\ Len(q) = FragmentCount(s)
                BY <1>1, <1>3, <1>8, PassedIsNumber
            <4> HIDE DEF q, n
            <4> QED
                BY <1>6, <4>1
        <3>2. mux'.at[s] - 1 = n
            <4> HIDE DEF n
            <4> QED
                BY <1>6
        <3>3. PassedBytes(s)' = SumFunctionOnSet(q, 1..n) /\ PassedBytes(s) = SumFunctionOnSet(q, 1..(n - 1))
            <4> DEFINE m == mux'.at[s] - 1
            <4>1. PassedBytes(s)' = SumFunctionOnSet(q, 1..m)
                BY <1>1 DEF PassedBytes
            <4>2. m = n
                BY <3>2
            <4> HIDE DEF m
            <4>3. PassedBytes(s)' = SumFunctionOnSet(q, 1..n)
                BY <4>1, <4>2
            <4> QED
                BY <4>3 DEF PassedBytes
        <3> HIDE DEF q, n
        <3>4. SumFunctionOnSet(q, 1..n) = q[n] + SumFunctionOnSet(q, 1..(n - 1))
            BY <3>1, SumOfFirst
        <3> QED
            BY <2>4, <3>3, <3>4 DEF q
    <2>6. \A r \in Sources : r # s => PassedBytes(r)' = PassedBytes(r)
        BY <1>1, <1>6 DEF PassedBytes
    <2>7. \A r \in Sources : PassedBytes(r) \in Nat
        BY <1>1, <1>8, PassedIsNumber
    <2>8. SumFunction(SentSizes) = PassedBytes("video") + PassedBytes("audio")
        BY <1>8 DEF LengthInv
    <2> DEFINE after(r) == SumFunctionOnSet(files'[r].sidx.sizes, 1..(mux'.at[r] - 1))
    <2>9. \A r : PassedBytes(r)' = after(r)
        BY DEF PassedBytes
    <2>10. after(s) = FragmentSize(s, n) + PassedBytes(s) /\ \A r \in Sources : r # s => after(r) = PassedBytes(r)
        <3> HIDE DEF after, n
        <3> QED
            BY <2>5, <2>6, <2>9
    <2> HIDE DEF after, n
    <2>11. s \in {"video", "audio"} /\ "video" \in Sources /\ "audio" \in Sources
        BY <1>3 DEF Sources
    <2>12. after("video") + after("audio") = FragmentSize(s, n) + (PassedBytes("video") + PassedBytes("audio"))
        <3>1. PassedBytes("video") \in Nat /\ PassedBytes("audio") \in Nat
            BY <2>7, <2>11
        <3>2. CASE s = "video"
            <4>1. after("video") = FragmentSize(s, n) + PassedBytes("video") /\ after("audio") = PassedBytes("audio")
                BY <2>10, <2>11, <3>2
            <4> QED
                BY <2>4, <3>1, <4>1
        <3>3. CASE s = "audio"
            <4>1. after("audio") = FragmentSize(s, n) + PassedBytes("audio") /\ after("video") = PassedBytes("video")
                BY <2>10, <2>11, <3>3
            <4> QED
                BY <2>4, <3>1, <4>1
        <3> QED
            BY <2>11, <3>2, <3>3
    <2> QED
        BY <2>3, <2>8, <2>9, <2>12
<1> QED
    BY <1>5, <1>7, <1>8 DEF LengthInv

\* The steps that send nothing.
LEMMA LengthKeptStep ==
    ASSUME MuxInv, IsWhole, LengthInv, files' = files,
           mux' = mux \/ MuxSeeks \/ MuxEnds \/ MuxBreaks
    PROVE  LengthInv'
<1>1. MuxTypes
    BY DEF MuxInv
<1>2. /\ (\A r : referenced_bytes(r)' = referenced_bytes(r)) /\ IsPlain' = IsPlain
      /\ \A r \in Sources : HasIndex(files[r])' = HasIndex(files[r])
    BY DEF referenced_bytes, SumFunction, IsPlain, HasIndex, HeaderBoxes
<1>3. CASE mux' = mux \/ MuxEnds \/ MuxBreaks
    <2>1. PICK how : mux' = mux \/ mux' = [mux EXCEPT !.phase = how]
        BY <1>3, ZenonT(30) DEF MuxEnds, MuxBreaks
    <2>2. /\ mux'.start = mux.start /\ mux'.toSeek = mux.toSeek /\ mux'.length = mux.length
          /\ mux'.at = mux.at /\ mux'.out = mux.out
        BY <1>1, <2>1 DEF MuxTypes
    <2>3. SumFunction(SentSizes)' = SumFunction(SentSizes) /\ \A r : PassedBytes(r)' = PassedBytes(r)
        BY <2>2 DEF SumFunction, SentSizes, FragmentSize, PassedBytes
    <2> QED
        BY <1>2, <2>2, <2>3 DEF LengthInv
<1>4. CASE MuxSeeks
    <2>1. mux.toSeek # <<>> /\ mux.start # 0
        <3>1. mux.toSeek # <<>>
            BY <1>4, ZenonT(30) DEF MuxSeeks
        <3> QED
            BY <3>1 DEF LengthInv
    <2>2. PICK n, s : mux' = [mux EXCEPT !.at[s] = n, !.toSeek = Tail(mux.toSeek)]
        BY <1>4, ZenonT(30) DEF MuxSeeks
    <2>3. mux'.start = mux.start /\ mux'.length = mux.length
        BY <1>1, <2>2 DEF MuxTypes
    <2> QED
        BY <1>2, <2>1, <2>3 DEF LengthInv
<1> QED
    BY <1>3, <1>4

LEMMA BytesStep == BytesInv /\ [Next]_vars => BytesInv'
<1> SUFFICES ASSUME BytesInv, [Next]_vars PROVE BytesInv'
    OBVIOUS
<1>1. MuxInv /\ MuxInv'
    BY MuxInvStep DEF BytesInv
<1>2. files' = files
    BY ZenonT(60) DEF Next, LoadStep, ReadsIndex, FragmentArrives, TakesFragment, FetchFails, Fails, Prepares, Serves,
                      MuxStep, MuxOpens, MuxSeeks, MuxTakes, MuxEnds, MuxBreaks, vars
<1> SUFFICES ASSUME IsWhole PROVE LengthInv'
    BY <1>1, <1>2, SameFiles DEF BytesInv
<1>3. LengthInv
    BY DEF BytesInv
<1>4. ASSUME NEW start \in Starts, MuxOpens(start) PROVE LengthInv'
    BY <1>1, <1>4, LengthOpensStep
<1>5. CASE MuxTakes
    BY <1>1, <1>3, <1>5, LengthTakesStep
<1>6. CASE mux' = mux \/ MuxSeeks \/ MuxEnds \/ MuxBreaks
    BY <1>1, <1>2, <1>3, <1>6, LengthKeptStep
<1>7. mux' = mux \/ MuxStep
    BY ZenonT(30) DEF Next, Prepares, Serves, vars
<1> QED
    BY <1>4, <1>5, <1>6, <1>7, ZenonT(30) DEF MuxStep

\* The renderer is told the truth: a complete answer from the beginning sends as
\* many bytes as were announced, of any two sources whose segments, by their
\* index, are a moof and its mdat each.
THEOREM LengthStaysHonest == Spec => []LengthIsHonest
<1>1. ASSUME BytesInv PROVE LengthIsHonest
    <2> SUFFICES ASSUME EndedWell, mux.length # -1, \A s \in Sources : ~files[s].padded
                 PROVE  mux.length = EmittedBytes
        BY DEF LengthIsHonest
    <2>1. IsWhole /\ files \in Inputs /\ MuxTypes /\ PhaseInv /\ LengthInv /\ mux.phase = "done"
        BY <1>1 DEF EndedWell, IsWhole, MuxInv, BytesInv
    <2>2. IsPlain /\ mux.length = InitSize + referenced_bytes("video") + referenced_bytes("audio")
          /\ SumFunction(SentSizes) = PassedBytes("video") + PassedBytes("audio")
        BY <2>1 DEF LengthInv, IsPlain
    <2>3. \A s \in Sources : PassedBytes(s) = referenced_bytes(s) /\ PassedBytes(s) \in Nat
        BY <2>1, <2>2, PassedIsNumber DEF PhaseInv
    <2>4. PassedBytes("video") = referenced_bytes("video") /\ PassedBytes("audio") = referenced_bytes("audio")
          /\ PassedBytes("video") \in Nat /\ PassedBytes("audio") \in Nat
        BY <2>3 DEF Sources
    <2>5. EmittedBytes = InitSize + SumFunction(SentSizes) /\ InitSize \in Nat
        BY MuxAssumption DEF EmittedBytes, SentSizes
    <2> QED
        BY <2>2, <2>4, <2>5
<1> QED
    BY BytesInit, BytesStep, <1>1, PTL DEF Spec

=============================================================================
