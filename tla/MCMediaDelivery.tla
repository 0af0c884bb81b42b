-------------------------- MODULE MCMediaDelivery --------------------------
EXTENDS MediaDelivery

\* Sources are given by the samples of their fragments; the rest follows.
S(size, duration, cts, sync) == [size |-> size, duration |-> duration, cts |-> cts, sync |-> sync]

Total(f, field) == FoldLeft(LAMBDA sum, s : sum + s[field], 0, f)

\* pad: is there another box before each moof?  split: one run per sample, of
\* which only the first has an offset.  explicit: the offset counts from the
\* payload.  index: the ticks of the index per tick of the track.  defect: what is
\* wrong with the second fragment, or with the index.
SourceFile(d) ==
    LET n == Len(d.fragments)
        padding == IF d.pad THEN 1 ELSE 0
        size == [k \in 1..n |-> padding + 2 + Total(d.fragments[k], "size")]
        begin == [k \in 1..n |-> 4 + MapThenSumSet(LAMBDA j : size[j], 1..(k - 1))]
        time == [k \in 1..n |-> MapThenSumSet(LAMBDA j : Total(d.fragments[j], "duration"), 1..(k - 1))]
        Hit(k, defect) == k = 2 /\ d.defect = defect
        Box(kind, from, upto) == [kind |-> kind, start |-> from, end |-> upto]
        BoxesOf(k) ==
            LET moof == begin[k] + padding
            IN (IF d.pad THEN <<Box("styp", begin[k], moof)>> ELSE <<>>)
               \o <<Box("moof", moof, moof + 1), Box("mdat", moof + 1, begin[k] + size[k])>>
        boxes == <<Box("ftyp", 0, 1), Box("moov", 1, 2), Box(IF d.defect = "missing" THEN "free" ELSE "sidx", 2, 3), Box("free", 3, 4)>>
                 \o FlattenSeq([k \in 1..n |-> BoxesOf(k)])
        MoofOf(k) ==
            LET f == d.fragments[k]
                at == IF d.explicit THEN 0 ELSE 2
                stray == IF Hit(k, "stray") THEN 1 ELSE 0
            IN [offset |-> begin[k] + padding, base |-> IF d.explicit THEN "explicit" ELSE "moof",
                explicit |-> begin[k] + padding + 2,
                decode_time |-> time[k] + (IF Hit(k, "gap") THEN 1 ELSE 0),
                runs |-> IF d.split
                         THEN [i \in DOMAIN f |-> [at |-> IF i = 1 THEN at + stray ELSE NoOffset, samples |-> <<f[i]>>]]
                         ELSE <<[at |-> at + stray, samples |-> f]>>]
        FragmentAt(b) == CHOOSE k \in 1..n : begin[k] + padding = boxes[b].start
        TruthOf(k) ==
            [i \in DOMAIN d.fragments[k] |->
               LET f == d.fragments[k]
               IN [start |-> begin[k] + padding + 2 + Total(SubSeq(f, 1, i - 1), "size"), size |-> f[i].size,
                   time |-> MoofOf(k).decode_time + Total(SubSeq(f, 1, i - 1), "duration"), cts |-> f[i].cts, sync |-> f[i].sync]]
        listed == IF d.defect = "merged" /\ n > 1 THEN <<size[1] + size[2]>> \o SubSeq(size, 3, n) ELSE size
    IN [boxes |-> boxes,
        moofs |-> [b \in {x \in DOMAIN boxes : boxes[x].kind = "moof"} |-> MoofOf(FragmentAt(b))],
        sidx |-> [position |-> 2, length |-> 1, first_offset |-> 1, sizes |-> listed,
                  durations |-> [k \in DOMAIN listed |-> Total(d.fragments[k], "duration") * d.index],
                  earliest |-> d.earliest, timescale |-> d.timescale * d.index, readable |-> d.defect # "nested"],
        track |-> [video |-> d.video, timescale |-> d.timescale, edit |-> d.edit],
        length |-> begin[n] + size[n] - (IF d.defect = "short" THEN 1 ELSE 0),
        padded |-> d.pad, broken |-> d.defect # "none",
        whole |-> d.defect \in {"none", "missing", "nested"}, movie_duration |-> 0,
        truth |-> FlattenSeq([k \in 1..n |-> TruthOf(k)])]

VideoFragments == {
    <<<<S(2, 2, 1, TRUE), S(1, 1, 0, FALSE)>>, <<S(1, 1, 0, TRUE), S(1, 2, 0, FALSE)>>>>,
    <<<<S(1, 2, 0, FALSE), S(1, 2, 0, TRUE)>>, <<S(2, 2, 0, FALSE)>>, <<S(1, 2, 0, TRUE)>>>>,
    <<<<S(1, 2, 0, FALSE)>>, <<S(1, 2, 0, FALSE)>>>>}
PlainAudio == <<<<S(1, 3, 0, TRUE)>>, <<S(3, 3, 0, TRUE)>>>>
AudioFragments == {
    PlainAudio,
    <<<<S(1, 1, 0, TRUE), S(1, 1, 0, TRUE)>>, <<S(1, 2, 0, TRUE)>>, <<S(2, 1, 0, TRUE)>>>>}

Video(t, e, f, p, x) ==
    SourceFile([video |-> TRUE, timescale |-> t, edit |-> 0, earliest |-> e, fragments |-> f,
                pad |-> p, split |-> p, explicit |-> FALSE, index |-> IF t = 3 THEN 2 ELSE 1, defect |-> x])
Audio(t, f, x) ==
    SourceFile([video |-> FALSE, timescale |-> t, edit |-> NoEdit, earliest |-> 0, fragments |-> f,
                pad |-> FALSE, split |-> FALSE, explicit |-> TRUE, index |-> IF f = PlainAudio THEN 3 ELSE 1, defect |-> x])

Pair(v, a) == [video |-> v, audio |-> a]

WholeInputs ==
    {Pair(Video(t, e, f, p, "none"), Audio(u, g, "none")) :
       t \in {2, 3}, e \in {0, 1}, f \in VideoFragments, p \in BOOLEAN, u \in {2, 3}, g \in AudioFragments}
BrokenInputs ==
    {Pair(Video(2, 0, f, FALSE, x), Audio(2, g, y)) :
       f \in VideoFragments, g \in AudioFragments, x \in {"none", "gap", "stray", "merged", "short"}, y \in {"none", "gap"}}
\* Without an index that can be read a source is for the mux only.
UnindexedInputs ==
    {Pair(Video(t, 0, f, p, x), Audio(2, g, y)) :
       t \in {2, 3}, f \in VideoFragments, p \in BOOLEAN, g \in AudioFragments,
       x \in {"none", "missing", "nested"}, y \in {"none", "missing"}}
MCInputs == WholeInputs \cup BrokenInputs \cup UnindexedInputs
=============================================================================
