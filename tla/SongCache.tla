----------------------------- MODULE SongCache -----------------------------
(***************************************************************************)
(* SongCache (song_cache.rs): the blocks of one song on disk, shared by    *)
(* the renderer's streams and the warm-up after a seek.  A read covers     *)
(* some consecutive blocks and asks for several of them at a time; each of *)
(* these requests is a part.  A read may be dropped at any await, but a    *)
(* file write it has started goes on by itself.                            *)
(*                                                                         *)
(* A Block object lives as long as the map, a part or a writer refers to   *)
(* it, and its Drop removes the file of its key.                           *)
(***************************************************************************)
EXTENDS Integers, FiniteSets, Sequences, Functions

CONSTANTS
    Readers,      \* those who read: streams and the warm-up
    Warming,      \* the warm-up's: each of its reads is one block
    Keys,         \* the blocks of the sources
    NoKey,
    MaxSpan,      \* bound: blocks a single read covers
    block_limit,  \* how many blocks the disk may hold
    hot_limit,    \* how many blocks are kept in memory
    PARALLEL,     \* downloads and writes at a time (4)
    Objects       \* bound: Block objects alive at a time

ASSUME SongCacheAssumption ==
    /\ {MaxSpan, block_limit, hot_limit, PARALLEL} \subseteq Nat \ {0}
    /\ Warming \subseteq Readers
    /\ NoKey \notin Keys
    /\ IsFiniteSet(Readers) /\ IsFiniteSet(Keys)
    /\ IsFiniteSet(Objects) /\ Objects \subseteq Nat \ {0}

VARIABLES
    blocks,     \* the map: per key its object, or NoBlock
    objects,    \* per object its key, and whether its once-cell is filled
    files,      \* the keys whose file is on disk
    hot,        \* the keys in memory, the least recently used first
    lock,       \* the map's mutex, while an eviction holds it over an await
    permits,    \* free permits of the semaphore
    part,       \* where each part stands
    writer,     \* writes under way; they own their permit and their block
    read,       \* per reader the blocks of its read, <<>> when idle
    cancelled,
    dropped,    \* the last user of the cache is gone
    directory   \* the cache's directory exists

vars == <<blocks, objects, files, hot, lock, permits, part, writer, read,
          cancelled, dropped, directory>>

NoBlock == 0
NoObject == [key |-> NoKey, ready |-> FALSE]
Parts == Readers \X (1 .. MaxSpan)
Nobody == <<>>
Free == [by |-> Nobody, victim |-> NoKey]
NoPart == [pc |-> "idle", key |-> NoKey, obj |-> NoBlock]
NoWriter == [key |-> NoKey, obj |-> NoBlock, for |-> Nobody, permit |-> FALSE]
Writers == 1 .. PARALLEL + 1

\* The reads there may be.  Which blocks are neighbours makes no difference.
Ranges == {range \in UNION {[1 .. n -> Keys] : n \in 1 .. MaxSpan} : IsInjective(range)}

Init ==
    /\ blocks = [k \in Keys |-> NoBlock]
    /\ objects = [o \in Objects |-> NoObject]
    /\ files = {}
    /\ hot = <<>>
    /\ lock = Free
    /\ permits = PARALLEL
    /\ part = [f \in Parts |-> NoPart]
    /\ writer = [w \in Writers |-> NoWriter]
    /\ read = [r \in Readers |-> <<>>]
    /\ cancelled = FALSE
    /\ dropped = FALSE
    /\ directory = TRUE

PartsOf(r) == {r} \X (1 .. MaxSpan)
Goes(f, pc) == part' = [part EXCEPT ![f].pc = pc]

\* Arc::strong_count > 1.
Pinned(o) ==
    \/ \E f \in Parts : part[f].obj = o
    \/ \E w \in Writers : writer[w].obj = o

Alive == ({blocks[k] : k \in Keys} \cup {part[f].obj : f \in Parts}
             \cup {writer[w].obj : w \in Writers}) \ {NoBlock}

\* The files being written: Staging is removed when its writer ends.
Staging == {w \in Writers : writer[w].key # NoKey}

\* The last reference to the directory is gone.
Gone == dropped /\ Alive = {}

\* What every step does last: an object that nothing refers to any more takes
\* its file with it, and the last one of a dropped cache the directory, if
\* that is empty.  newFiles and newObjects are what the step itself leaves.
Settle(newFiles, newObjects) ==
    /\ files' = newFiles \ {objects[o].key : o \in Alive \ Alive'}
    /\ objects' = [o \in Objects |-> IF o \in Alive' THEN newObjects[o] ELSE NoObject]
    /\ directory' = (directory /\ ~(~Gone /\ Gone' /\ files' = {} /\ Staging' = {}))

-----------------------------------------------------------------------------
(* read().                                                                 *)

ReadBegins(r) ==
    /\ read[r] = <<>> /\ ~cancelled
    /\ \E range \in Ranges :
          /\ r \in Warming => Len(range) = 1
          /\ read' = [read EXCEPT ![r] = range]
    /\ UNCHANGED <<blocks, objects, files, hot, lock, permits, part, writer,
                   cancelled, dropped, directory>>

\* Faulty: a read asks for four blocks at a time whatever the cache can hold.
FourAtOnce == 4

\* "Tiny test/cache configurations cannot pin more blocks than fit."
AtOnce == IF block_limit < 4 THEN block_limit ELSE 4

\* buffered() hands the parts on in order.
Yielded(r) ==
    Cardinality({i \in 1 .. Len(read[r]) : \A j \in 1 .. i : part[<<r, j>>].pc = "done"})

Started(r) == Cardinality({i \in 1 .. Len(read[r]) : part[<<r, i>>].pc # "idle"})

Without(seq, key) == SelectSeq(seq, LAMBDA k : k # key)
Hottest(key) == Append(Without(hot, key), key)
InHot(key) == \E i \in DOMAIN hot : hot[i] = key

\* A part starts by looking for its block in memory.
PartStarts(r) ==
    /\ Started(r) < Len(read[r])
    /\ Started(r) - Yielded(r) < AtOnce
    /\ LET f == <<r, Started(r) + 1>>
           key == read[r][Started(r) + 1]
       IN  /\ hot' = IF InHot(key) THEN Hottest(key) ELSE hot
           /\ part' = [part EXCEPT ![f] = [NoPart EXCEPT !.key = key,
                                             !.pc = IF InHot(key) THEN "done" ELSE "map"]]
    /\ UNCHANGED <<blocks, objects, files, lock, permits, writer, read,
                   cancelled, dropped, directory>>

\* However a read ends, its parts are dropped: what they refer to and the lock
\* or the permit they hold is released.  Writers go on.
Leaves(r) ==
    /\ read' = [read EXCEPT ![r] = <<>>]
    /\ part' = [f \in Parts |-> IF f \in PartsOf(r) THEN NoPart ELSE part[f]]
    /\ writer' = [w \in Writers |-> IF writer[w].for \in PartsOf(r)
                                    THEN [writer[w] EXCEPT !.for = Nobody]
                                    ELSE writer[w]]
    /\ permits' = permits + Cardinality({f \in PartsOf(r) : part[f].pc = "fetch"})
    /\ lock' = IF lock.by \in PartsOf(r) THEN Free ELSE lock
    /\ UNCHANGED <<blocks, hot, cancelled, dropped>>
    /\ Settle(files, objects)

ReadReturns(r) ==
    /\ read[r] # <<>>
    /\ Yielded(r) = Len(read[r])
    /\ Leaves(r)

\* The first part that does not succeed ends the read.
ReadFails(r) ==
    /\ Yielded(r) < Len(read[r])
    /\ part[<<r, Yielded(r) + 1>>].pc \in {"refused", "failed"}
    /\ Leaves(r)

\* The stream is retired, the renderer hangs up or a newer seek aborts the
\* warm-up.
ReadIsDropped(r) == read[r] # <<>> /\ Leaves(r)

ReadIsCancelled(r) == cancelled /\ read[r] # <<>> /\ Leaves(r)

cancel ==
    /\ ~cancelled
    /\ cancelled' = TRUE
    /\ UNCHANGED <<blocks, objects, files, hot, lock, permits, part, writer, read,
                   dropped, directory>>

\* The session that owned the cache is gone, and so are its readers.
CacheIsDropped ==
    /\ cancelled /\ ~dropped
    /\ \A r \in Readers : read[r] = <<>>
    /\ dropped' = TRUE
    /\ blocks' = [k \in Keys |-> NoBlock]
    /\ hot' = <<>>
    /\ UNCHANGED <<lock, permits, part, writer, read, cancelled>>
    /\ Settle(files, objects)

-----------------------------------------------------------------------------
(* block().                                                                *)

Refers(f, o) == part' = [part EXCEPT ![f].pc = "cell", ![f].obj = o]

\* A new object for the part's key goes into the map.
Inserts(f) ==
    \E o \in Objects :
        /\ o \notin Alive /\ \A p \in Objects : p < o => p \in Alive
        /\ blocks' = [blocks EXCEPT ![part[f].key] = o]
        /\ Refers(f, o)
        /\ Settle(files, [objects EXCEPT ![o] = [NoObject EXCEPT !.key = part[f].key]])

HasRoom == Cardinality({k \in Keys : blocks[k] # NoBlock}) < block_limit

\* Under the map's mutex.
FindsBlock(f) ==
    /\ part[f].pc = "map" /\ lock = Free
    /\ UNCHANGED <<hot, lock, permits, writer, read, cancelled, dropped>>
    /\ IF blocks[part[f].key] # NoBlock
       THEN /\ Refers(f, blocks[part[f].key])
            /\ UNCHANGED <<blocks, objects, files, directory>>
       ELSE HasRoom /\ Inserts(f)

Missing(f) == part[f].pc = "map" /\ lock = Free /\ blocks[part[f].key] = NoBlock /\ ~HasRoom

\* Faulty: a block that is being read or written is evicted.
EvictsAnything(f) ==
    /\ Missing(f)
    /\ \E victim \in {k \in Keys : blocks[k] # NoBlock} :
          /\ blocks' = [blocks EXCEPT ![victim] = NoBlock]
          /\ lock' = [by |-> f, victim |-> victim]
    /\ Goes(f, "evict")
    /\ UNCHANGED <<hot, permits, writer, read, cancelled, dropped>>
    /\ Settle(files, objects)

\* A block nobody uses goes (the least recently used one, which no property
\* tells from another), and its file with it.  The mutex is kept while the part
\* waits for that of the hot blocks.
Evicts(f) ==
    /\ Missing(f)
    /\ \E victim \in {k \in Keys : blocks[k] # NoBlock /\ ~Pinned(blocks[k])} :
          /\ blocks' = [blocks EXCEPT ![victim] = NoBlock]
          /\ lock' = [by |-> f, victim |-> victim]
    /\ Goes(f, "evict")
    /\ UNCHANGED <<hot, permits, writer, read, cancelled, dropped>>
    /\ Settle(files, objects)

\* retain(), then insert.
ReplacesVictim(f) ==
    /\ part[f].pc = "evict"
    /\ hot' = Without(hot, lock.victim)
    /\ lock' = Free
    /\ UNCHANGED <<permits, writer, read, cancelled, dropped>>
    /\ Inserts(f)

\* "cache capacity pinned by active readers"
IsRefused(f) ==
    /\ Missing(f)
    /\ \A k \in Keys : blocks[k] # NoBlock => Pinned(blocks[k])
    /\ Goes(f, "refused")
    /\ UNCHANGED <<blocks, objects, files, hot, lock, permits, writer, read,
                   cancelled, dropped, directory>>

\* get_or_try_init: one part fills the cell, others wait and may take over.
CellIsFilled(f) ==
    /\ part[f].pc = "cell" /\ objects[part[f].obj].ready
    /\ Goes(f, "file")
    /\ UNCHANGED <<blocks, objects, files, hot, lock, permits, writer, read,
                   cancelled, dropped, directory>>

EntersCell(f) ==
    /\ part[f].pc = "cell" /\ ~objects[part[f].obj].ready
    /\ \A g \in Parts :
          part[g].obj = part[f].obj => part[g].pc \notin {"permit", "fetch", "write"}
    /\ Goes(f, "permit")
    /\ UNCHANGED <<blocks, objects, files, hot, lock, permits, writer, read,
                   cancelled, dropped, directory>>

GetsPermit(f) ==
    /\ part[f].pc = "permit" /\ permits > 0
    /\ permits' = permits - 1
    /\ Goes(f, "fetch")
    /\ UNCHANGED <<blocks, objects, files, hot, lock, writer, read,
                   cancelled, dropped, directory>>

\* Faulty: the write does not keep its block, only the path.
WritesUnpinned(f) ==
    /\ part[f].pc = "fetch"
    /\ \E w \in Writers \ Staging :
          /\ \A v \in Writers : v < w => v \in Staging
          /\ writer' = [writer EXCEPT ![w] = [key |-> part[f].key, obj |-> NoBlock,
                                              for |-> f, permit |-> TRUE]]
    /\ Goes(f, "write")
    /\ UNCHANGED <<blocks, objects, files, hot, lock, permits, read,
                   cancelled, dropped, directory>>

\* Faulty: the permit ends with the download, not with the write.
ReleasesEarly(f) ==
    /\ part[f].pc = "fetch"
    /\ \E w \in Writers \ Staging :
          /\ \A v \in Writers : v < w => v \in Staging
          /\ writer' = [writer EXCEPT ![w] = [key |-> part[f].key, obj |-> part[f].obj,
                                              for |-> f, permit |-> FALSE]]
    /\ permits' = permits + 1
    /\ Goes(f, "write")
    /\ UNCHANGED <<blocks, objects, files, hot, lock, read,
                   cancelled, dropped, directory>>

\* The bytes are there; the permit and a reference to the block go to the
\* blocking write.
FetchSucceeds(f) ==
    /\ part[f].pc = "fetch"
    /\ \E w \in Writers \ Staging :
          /\ \A v \in Writers : v < w => v \in Staging
          /\ writer' = [writer EXCEPT ![w] = [key |-> part[f].key, obj |-> part[f].obj,
                                              for |-> f, permit |-> TRUE]]
    /\ Goes(f, "write")
    /\ UNCHANGED <<blocks, objects, files, hot, lock, permits, read,
                   cancelled, dropped, directory>>

Fails(f) == part' = [part EXCEPT ![f].pc = "failed", ![f].obj = NoBlock]

\* Faulty: a failed download keeps its permit.
FailsWithPermit(f) ==
    /\ part[f].pc = "fetch"
    /\ Fails(f)
    /\ UNCHANGED <<blocks, hot, lock, permits, writer, read, cancelled, dropped>>
    /\ Settle(files, objects)

\* Within 10 s: an error, or not exactly the range asked for (fetch_range).
FetchFails(f) ==
    /\ part[f].pc = "fetch"
    /\ permits' = permits + 1
    /\ Fails(f)
    /\ UNCHANGED <<blocks, hot, lock, writer, read, cancelled, dropped>>
    /\ Settle(files, objects)

\* The file is published by a rename, or not at all.  If somebody still waits for
\* the write, the cell is filled.
WriterEnds(w, ok) ==
    LET f == writer[w].for
    IN  /\ w \in Staging
        /\ writer' = [writer EXCEPT ![w] = NoWriter]
        /\ permits' = IF writer[w].permit THEN permits + 1 ELSE permits
        /\ part' = IF f = Nobody THEN part
                   ELSE IF ok THEN [part EXCEPT ![f].pc = "file"]
                   ELSE [part EXCEPT ![f].pc = "failed", ![f].obj = NoBlock]
        /\ UNCHANGED <<blocks, hot, lock, read, cancelled, dropped>>
        /\ Settle(IF ok THEN files \cup {writer[w].key} ELSE files,
                  IF ok /\ f # Nobody THEN [objects EXCEPT ![part[f].obj].ready = TRUE]
                                      ELSE objects)

HotLimit == IF hot_limit < block_limit THEN hot_limit ELSE block_limit

LastOf(seq, n) == SubSeq(seq, (IF Len(seq) < n THEN 0 ELSE Len(seq) - n) + 1, Len(seq))

\* The file is read whole, and its bytes go into memory, the least recently
\* used ones out of it.
ReadsFile(f) ==
    /\ part[f].pc = "file" /\ part[f].key \in files
    /\ hot' = LastOf(Hottest(part[f].key), HotLimit)
    /\ part' = [part EXCEPT ![f].pc = "done", ![f].obj = NoBlock]
    /\ UNCHANGED <<blocks, lock, permits, writer, read, cancelled, dropped>>
    /\ Settle(files, objects)

\* tokio::fs::read fails.
FileIsUnreadable(f) ==
    /\ part[f].pc = "file"
    /\ Fails(f)
    /\ UNCHANGED <<blocks, hot, lock, permits, writer, read, cancelled, dropped>>
    /\ Settle(files, objects)

-----------------------------------------------------------------------------

PartSteps(f) ==
    \/ FindsBlock(f) \/ Evicts(f) \/ ReplacesVictim(f) \/ IsRefused(f)
    \/ CellIsFilled(f) \/ EntersCell(f) \/ GetsPermit(f)
    \/ FetchSucceeds(f) \/ FetchFails(f) \/ ReadsFile(f) \/ FileIsUnreadable(f)

ReadSteps(r) ==
    ReadBegins(r) \/ PartStarts(r) \/ ReadReturns(r) \/ ReadFails(r)
    \/ ReadIsDropped(r) \/ ReadIsCancelled(r)

Next ==
    \/ \E r \in Readers : ReadSteps(r)
    \/ \E f \in Parts : PartSteps(f)
    \/ \E w \in Writers, ok \in BOOLEAN : WriterEnds(w, ok)
    \/ cancel \/ CacheIsDropped

Spec == Init /\ [][Next]_vars

\* Who polls a read.  The warm-up is a task of its own, which the runtime polls
\* whenever it can go on.  The reads of a stream live inside the body of a
\* response, which is polled only while the connection takes bytes: behind a
\* renderer that pauses they stand still, and so do their 10 s and the signal
\* that would retire them, until the connection is taken up again or given up.
Streams == Readers \ Warming

\* A read that is polled goes on: a request to the source ends within its 10 s,
\* and the mutex, the cell and the semaphore are handed on in the order of
\* waiting, so that a part whose step is possible again and again takes it.
Polled(r) ==
    /\ WF_vars(PartStarts(r) \/ ReadReturns(r) \/ ReadFails(r))
    /\ \A f \in PartsOf(r) : SF_vars(PartSteps(f))

\* A write that was started ends, whoever waits for it.
Fairness ==
    /\ \A r \in Warming : Polled(r)
    /\ \A w \in Writers : WF_vars(WriterEnds(w, TRUE) \/ WriterEnds(w, FALSE))

FairSpec == Spec /\ Fairness

-----------------------------------------------------------------------------

\* The values each variable ranges over.
TypeOK ==
    /\ blocks \in [Keys -> Objects \cup {NoBlock}]
    /\ objects \in [Objects -> [key : Keys \cup {NoKey}, ready : BOOLEAN]]
    /\ files \subseteq Keys
    /\ hot \in Seq(Keys) /\ Len(hot) =< HotLimit
    /\ lock \in [by : Parts \cup {Nobody}, victim : Keys \cup {NoKey}]
    /\ permits \in 0 .. PARALLEL
    /\ part \in [Parts -> [pc : {"idle", "map", "evict", "refused", "cell", "permit",
                                 "fetch", "write", "file", "done", "failed"},
                           key : Keys \cup {NoKey}, obj : Objects \cup {NoBlock}]]
    /\ writer \in [Writers -> [key : Keys \cup {NoKey}, obj : Objects \cup {NoBlock},
                               for : Parts \cup {Nobody}, permit : BOOLEAN]]
    /\ read \in [Readers -> Ranges \cup {<<>>}]
    /\ {cancelled, dropped, directory} \subseteq BOOLEAN

\* Whoever has found a block ready finds its file: no eviction, and no Drop of
\* an earlier object of the same key, has removed it (block, Drop for Block).
FileIsThere == \A f \in Parts : part[f].pc = "file" => part[f].key \in files

\* The disk holds no more blocks than the capacity allows, and no more half
\* written ones than there are permits, although the reads that started them may
\* be gone ("Bounded, per-song source-block cache").
DiskIsBounded ==
    /\ Cardinality(files) =< block_limit
    /\ Cardinality(Staging) =< PARALLEL

\* A read is refused only if others hold the blocks it would need to evict,
\* never because of itself (the width of buffered in read).
OthersPin ==
    [][\A f \in Parts :
          part[f].pc = "map" /\ part'[f].pc = "refused" =>
              \/ \E g \in Parts \ PartsOf(f[1]) : part[g].obj # NoBlock
              \/ \E w \in Staging : writer[w].for \notin PartsOf(f[1])]_vars

\* When the cache and its last writer are gone, so are its files and its
\* directory ("Files and their directory are removed only after active readers
\* release them").
NothingIsLeft == Gone /\ Staging = {} => files = {} /\ ~directory

\* In the middle of a block a part holds the mutex, the cell or a permit, or
\* stands in line for one, which may be handed to it while nobody polls it.
InBlock(f) == part[f].pc \notin {"idle", "done", "refused", "failed"}

\* Nobody polls the stream any more, and it has not ended.
StandsStill(s) == \E f \in PartsOf(s) : <>[]InBlock(f)

\* Every read that is polled ends: it waits for no block that nobody fetches,
\* and for no permit, cell or mutex of a read that has ended or was dropped.
\* Only a stream left standing in the middle of a block can keep it waiting, and
\* the code sets no bound to that (block, fetch_range's timeout).
EveryReadEnds ==
    \A r \in Readers :
        Polled(r) => \/ read[r] # <<>> ~> read[r] = <<>>
                     \/ \E s \in Streams \ {r} : StandsStill(s)

\* The blocks that are in the map or that somebody still refers to.
LiveKeys == {objects[o].key : o \in Alive}

Store == INSTANCE BlockStore WITH
    Readings <- Parts,
    Writings <- Writers,
    capacity <- block_limit,
    kept <- LiveKeys,
    complete <- files,
    reading <- [f \in Parts |-> IF part[f].obj = NoBlock THEN NoKey ELSE part[f].key],
    writing <- [w \in Writers |-> writer[w].key],
    told <- {f \in Parts : part[f].pc = "file"}

\* The objects, cells, references and permits keep the promise of BlockStore:
\* there are never more blocks than fit, counting those that are used by nobody
\* but a write of a read that is gone; a block and its file stay while it is used
\* (Block, its Drop, block, read).
KeepsBlocks == Store!Spec

=============================================================================
