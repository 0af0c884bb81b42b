--------------------------- MODULE SongCacheProofs ---------------------------
(***************************************************************************)
(* What the run of SongCache checks for two readers and two blocks, proved *)
(* for any number of readers, blocks and permits and any capacity.         *)
(***************************************************************************)
EXTENDS SongCache, FiniteSetTheorems, SequenceTheorems, TLAPS

-----------------------------------------------------------------------------
(* The invariants.                                                         *)

PartPCs == {"idle", "map", "evict", "refused", "cell", "permit", "fetch", "write",
            "file", "done", "failed"}
Object == [key : Keys \cup {NoKey}, ready : BOOLEAN]
Part == [pc : PartPCs, key : Keys \cup {NoKey}, obj : Objects \cup {NoBlock}]
Writer == [key : Keys \cup {NoKey}, obj : Objects \cup {NoBlock},
           for : Parts \cup {Nobody}, permit : BOOLEAN]

\* TypeOK without the blocks in memory, on which nothing here depends.
Types ==
    /\ blocks \in [Keys -> Objects \cup {NoBlock}]
    /\ objects \in [Objects -> Object]
    /\ files \subseteq Keys
    /\ lock \in [by : Parts \cup {Nobody}, victim : Keys \cup {NoKey}]
    /\ permits \in Nat
    /\ part \in [Parts -> Part]
    /\ writer \in [Writers -> Writer]
    /\ read \in [Readers -> Ranges \cup {<<>>}]
    /\ {cancelled, dropped, directory} \subseteq BOOLEAN

\* A part refers to its block from the map to the end of its reading, and to
\* nothing else; it keeps the mutex over an eviction, for a key not in the map.
Holding == {"cell", "permit", "fetch", "write", "file"}

PartsHold ==
    \A f \in Parts :
        /\ part[f].pc \in Holding <=> part[f].obj # NoBlock
        /\ part[f].pc # "idle" => part[f].key \in Keys /\ read[f[1]] # <<>>
        /\ part[f].pc = "evict" <=> lock.by = f
        /\ part[f].pc = "evict" => blocks[part[f].key] = NoBlock

\* A write owns its block and its permit; at most one part waits for it, and only
\* for it.
WritersHold ==
    /\ \A w \in Writers : w \in Staging <=> writer[w].obj # NoBlock
    /\ \A w \in Staging : writer[w].permit
    /\ \A w \in Writers : writer[w].for # Nobody =>
          /\ w \in Staging /\ part[writer[w].for].pc = "write"
          /\ part[writer[w].for].obj = writer[w].obj
    /\ \A w, v \in Writers : writer[w].for = writer[v].for => w = v \/ writer[w].for = Nobody

\* Nothing is read after the cache is dropped.
Over ==
    dropped =>
        /\ cancelled
        /\ \A r \in Readers : read[r] = <<>>
        /\ \A k \in Keys : blocks[k] = NoBlock

\* Whatever refers to an object does so under the object's key.
Keyed ==
    /\ \A k \in Keys : blocks[k] # NoBlock => objects[blocks[k]].key = k
    /\ \A f \in Parts : part[f].obj # NoBlock => objects[part[f].obj].key = part[f].key
    /\ \A w \in Staging : objects[writer[w].obj].key = writer[w].key

\* No object outlives its eviction, so there is one per key, and its file is there
\* from the filling of its cell to its end.
OnlyInMap == ~dropped => \A o \in Alive : blocks[objects[o].key] = o
OneEach == \A o, p \in Alive : objects[o].key = objects[p].key => o = p
FilesLive == files \subseteq LiveKeys
ReadyOnDisk == \A o \in Alive : objects[o].ready => objects[o].key \in files
ReadsReady == \A f \in Parts : part[f].pc = "file" => objects[part[f].obj].ready

\* An eviction under way has made room.
Capacity ==
    /\ Cardinality(LiveKeys) =< block_limit
    /\ lock.by # Nobody => Cardinality(LiveKeys) < block_limit

Removed == Gone => files = {} /\ ~directory

\* Every permit is free, with a download or with a write.
Fetching == {f \in Parts : part[f].pc = "fetch"}
Permits == permits + Cardinality(Fetching) + Cardinality(Staging) = PARALLEL

\* The parts of a read start in order, and those not handed on fit the cache.
InOrder ==
    \A r \in Readers : \A i \in 1 .. MaxSpan : part[<<r, i>>].pc # "idle" =>
        /\ i =< Len(read[r])
        /\ \A j \in 1 .. i : part[<<r, j>>].pc # "idle"
Window == \A r \in Readers : Started(r) - Yielded(r) =< AtOnce

-----------------------------------------------------------------------------
(* Types.                                                                  *)

LEMMA Basics ==
    /\ Nobody \notin Parts /\ NoBlock \notin Objects
    /\ NoPart \in Part /\ NoPart.pc = "idle" /\ NoPart.obj = NoBlock
    /\ NoWriter \in Writer /\ NoWriter.key = NoKey /\ NoWriter.obj = NoBlock /\ NoWriter.for = Nobody
    /\ NoObject \in Object /\ Free \in [by : Parts \cup {Nobody}, victim : Keys \cup {NoKey}]
    /\ Free.by = Nobody
    /\ \A r \in Readers : PartsOf(r) = {f \in Parts : f[1] = r}
<1>1. Nobody \notin Parts
  BY DEF Nobody, Parts
<1>2. NoBlock \notin Objects
  BY SongCacheAssumption DEF NoBlock
<1>3. NoPart \in Part /\ NoPart.pc = "idle" /\ NoPart.obj = NoBlock
  BY DEF NoPart, Part, PartPCs
<1>4. NoWriter \in Writer /\ NoWriter.key = NoKey /\ NoWriter.obj = NoBlock /\ NoWriter.for = Nobody
  BY DEF NoWriter, Writer
<1>5. NoObject \in Object /\ Free \in [by : Parts \cup {Nobody}, victim : Keys \cup {NoKey}] /\ Free.by = Nobody
  BY DEF NoObject, Object, Free
<1>6. \A r \in Readers : PartsOf(r) = {f \in Parts : f[1] = r}
  BY DEF PartsOf, Parts
<1> QED
  BY <1>1, <1>2, <1>3, <1>4, <1>5, <1>6

LEMMA FinitelyMany == IsFiniteSet(Parts) /\ IsFiniteSet(Writers)
<1>1. MaxSpan \in Int /\ PARALLEL + 1 \in Int /\ 1 \in Int /\ IsFiniteSet(Readers)
  BY SongCacheAssumption
<1>2. IsFiniteSet(1 .. MaxSpan) /\ IsFiniteSet(1 .. PARALLEL + 1)
  BY <1>1, FS_Interval
<1>3. IsFiniteSet(Readers \X (1 .. MaxSpan))
  BY <1>1, <1>2, FS_Product
<1> QED
  BY <1>2, <1>3 DEF Parts, Writers

\* Part f is at pc and refers to object o; the others stay.
Becomes(f, pc, o) ==
    /\ part' \in [Parts -> Part]
    /\ \A g \in Parts \ {f} : part'[g] = part[g]
    /\ part'[f].pc = pc /\ part'[f].obj = o /\ part'[f].key = part[f].key

LEMMA BecomesEffect ==
    ASSUME Types, NEW f \in Parts, NEW pc \in PartPCs
    PROVE  /\ Goes(f, pc) => Becomes(f, pc, part[f].obj)
           /\ \A o \in Objects \cup {NoBlock} :
                 part' = [part EXCEPT ![f].pc = pc, ![f].obj = o] => Becomes(f, pc, o)
<1>1. part \in [Parts -> Part] /\ part[f] \in Part
  BY DEF Types
<1>2. ASSUME Goes(f, pc) PROVE Becomes(f, pc, part[f].obj)
  <2>1. part' = [part EXCEPT ![f] = [part[f] EXCEPT !.pc = pc]]
    BY <1>1, <1>2 DEF Goes
  <2>2. [part[f] EXCEPT !.pc = pc] \in Part
    BY <1>1 DEF Part
  <2> QED
    BY <1>1, <2>1, <2>2 DEF Becomes, Part
<1>3. ASSUME NEW o \in Objects \cup {NoBlock}, part' = [part EXCEPT ![f].pc = pc, ![f].obj = o]
      PROVE  Becomes(f, pc, o)
  <2>1. part' = [part EXCEPT ![f] = [part[f] EXCEPT !.pc = pc, !.obj = o]]
    BY <1>1, <1>3
  <2>2. [part[f] EXCEPT !.pc = pc, !.obj = o] \in Part
    BY <1>1 DEF Part
  <2> QED
    BY <1>1, <2>1, <2>2 DEF Becomes, Part
<1> QED
  BY <1>2, <1>3

\* What is left when the parts of a read are dropped.
LEMMA LeavesEffect ==
    ASSUME Types, NEW r \in Readers, Leaves(r)
    PROVE  /\ part' \in [Parts -> Part]
           /\ \A f \in Parts : part'[f] = IF f[1] = r THEN NoPart ELSE part[f]
           /\ writer' \in [Writers -> Writer]
           /\ \A w \in Writers :
                 /\ writer'[w].key = writer[w].key /\ writer'[w].obj = writer[w].obj
                 /\ writer'[w].permit = writer[w].permit
                 /\ writer'[w].for = IF writer[w].for \in PartsOf(r) THEN Nobody ELSE writer[w].for
           /\ read' \in [Readers -> Ranges \cup {<<>>}] /\ read'[r] = <<>>
           /\ \A q \in Readers \ {r} : read'[q] = read[q]
           /\ permits' \in Nat
           /\ lock'.by = IF lock.by \in PartsOf(r) THEN Nobody ELSE lock.by
           /\ lock' \in [by : Parts \cup {Nobody}, victim : Keys \cup {NoKey}]
<1>1. \A f \in Parts : part'[f] = IF f[1] = r THEN NoPart ELSE part[f]
  BY Basics DEF Leaves
<1>2. part' \in [Parts -> Part]
  BY Basics DEF Leaves, Types
<1>3. ASSUME NEW w \in Writers
      PROVE  /\ writer'[w] \in Writer
             /\ writer'[w].key = writer[w].key /\ writer'[w].obj = writer[w].obj
             /\ writer'[w].permit = writer[w].permit
             /\ writer'[w].for = IF writer[w].for \in PartsOf(r) THEN Nobody ELSE writer[w].for
  <2>1. writer[w] \in Writer
    BY DEF Types
  <2>2. writer'[w] = IF writer[w].for \in PartsOf(r) THEN [writer[w] EXCEPT !.for = Nobody] ELSE writer[w]
    BY DEF Leaves
  <2> QED
    BY <2>1, <2>2 DEF Writer
<1>4. writer' \in [Writers -> Writer]
  BY <1>3 DEF Leaves
<1>5. /\ read' \in [Readers -> Ranges \cup {<<>>}] /\ read'[r] = <<>>
      /\ \A q \in Readers \ {r} : read'[q] = read[q]
  BY DEF Leaves, Types
<1>6. permits' \in Nat
  <2>1. IsFiniteSet(PartsOf(r))
    BY Basics, FinitelyMany, FS_Subset
  <2>2. Cardinality({f \in PartsOf(r) : part[f].pc = "fetch"}) \in Nat
    BY <2>1, FS_Subset, FS_CardinalityType
  <2> QED
    BY <2>2 DEF Leaves, Types
<1>7. /\ lock'.by = IF lock.by \in PartsOf(r) THEN Nobody ELSE lock.by
      /\ lock' \in [by : Parts \cup {Nobody}, victim : Keys \cup {NoKey}]
  BY Basics DEF Leaves, Types
<1> QED
  BY <1>1, <1>2, <1>3, <1>4, <1>5, <1>6, <1>7

\* Alive, of each kind of reference.
LEMMA AliveIsTyped ==
    ASSUME Types
    PROVE  /\ Alive \subseteq Objects
           /\ \A o \in Alive : objects[o] \in Object
BY Basics DEF Alive, Types, Part, Writer

LEMMA SettleEffect ==
    ASSUME Types, NEW newFiles, NEW newObjects, Settle(newFiles, newObjects),
           newFiles \subseteq Keys, newObjects \in [Objects -> Object]
    PROVE  /\ files' \subseteq Keys /\ objects' \in [Objects -> Object] /\ directory' \in BOOLEAN
           /\ \A o \in Objects \cap Alive' : objects'[o] = newObjects[o]
BY Basics DEF Settle, Types

LEMMA InsertsEffect ==
    ASSUME Types, NEW f \in Parts, part[f].key \in Keys, Inserts(f)
    PROVE  /\ blocks' \in [Keys -> Objects \cup {NoBlock}]
           /\ objects' \in [Objects -> Object] /\ files' \subseteq Keys /\ directory' \in BOOLEAN
           /\ \E o \in Objects :
                 /\ Becomes(f, "cell", o) /\ o \notin Alive
                 /\ blocks' = [blocks EXCEPT ![part[f].key] = o]
                 /\ Settle(files, [objects EXCEPT ![o] = [NoObject EXCEPT !.key = part[f].key]])
                 /\ o \in Alive' => objects'[o].key = part[f].key /\ ~objects'[o].ready
                 /\ \A p \in Objects \cap Alive' : p # o => objects'[p] = objects[p]
<1> PICK o \in Objects :
      /\ o \notin Alive /\ blocks' = [blocks EXCEPT ![part[f].key] = o] /\ Refers(f, o)
      /\ Settle(files, [objects EXCEPT ![o] = [NoObject EXCEPT !.key = part[f].key]])
  BY DEF Inserts
<1>1. Becomes(f, "cell", o)
  BY BecomesEffect DEF Refers, PartPCs
<1> DEFINE e == [NoObject EXCEPT !.key = part[f].key]
           no == [objects EXCEPT ![o] = e]
<1>2. e \in Object /\ e.key = part[f].key /\ ~e.ready
  BY DEF NoObject, Object
<1>3. no \in [Objects -> Object] /\ no[o] = e /\ \A p \in Objects : p # o => no[p] = objects[p]
  BY <1>2 DEF Types
<1>4. /\ files' \subseteq Keys /\ objects' \in [Objects -> Object] /\ directory' \in BOOLEAN
      /\ \A p \in Objects \cap Alive' : objects'[p] = no[p]
  <2>1. Settle(files, no) /\ files \subseteq Keys
    BY DEF Types
  <2> HIDE DEF no
  <2> QED
    BY <1>3, <2>1, SettleEffect
<1>5. blocks' \in [Keys -> Objects \cup {NoBlock}]
  BY DEF Types
<1>6. /\ o \in Alive' => objects'[o].key = part[f].key /\ ~objects'[o].ready
      /\ \A p \in Objects \cap Alive' : p # o => objects'[p] = objects[p]
  BY <1>2, <1>3, <1>4
<1> QED
  BY <1>1, <1>4, <1>5, <1>6

\* The blocks of a read.
LEMMA RangeTypes ==
    ASSUME Types, NEW r \in Readers
    PROVE  /\ Len(read[r]) \in 0 .. MaxSpan
           /\ read[r] = <<>> <=> Len(read[r]) = 0
           /\ \A i \in 1 .. Len(read[r]) : read[r][i] \in Keys /\ <<r, i>> \in Parts
           /\ Started(r) \in Nat /\ Yielded(r) \in Nat
<1>1. MaxSpan \in Nat
  BY SongCacheAssumption
<1> DEFINE Goal ==
       /\ Len(read[r]) \in 0 .. MaxSpan
       /\ read[r] = <<>> <=> Len(read[r]) = 0
       /\ \A i \in 1 .. Len(read[r]) : read[r][i] \in Keys /\ <<r, i>> \in Parts
<1>2. ASSUME read[r] = <<>> PROVE Goal
  <2>1. Len(read[r]) = 0
    BY <1>2, EmptySeq
  <2> QED
    BY <1>1, <1>2, <2>1
<1>3. ASSUME read[r] \in Ranges PROVE Goal
  <2>1. PICK n \in 1 .. MaxSpan : read[r] \in [1 .. n -> Keys]
    BY <1>3 DEF Ranges
  <2>2. read[r] \in Seq(Keys) /\ Len(read[r]) = n
    BY <1>1, <2>1
  <2>3. Len(read[r]) \in 1 .. MaxSpan /\ 1 .. Len(read[r]) \subseteq 1 .. MaxSpan
    BY <1>1, <2>1, <2>2
  <2>4. read[r] # <<>>
    BY <1>1, <2>1, <2>2, EmptySeq
  <2>5. \A i \in 1 .. Len(read[r]) : read[r][i] \in Keys /\ <<r, i>> \in Parts
    BY <2>1, <2>2, <2>3 DEF Parts
  <2> QED
    BY <1>1, <2>3, <2>4, <2>5
<1>4. Goal
  BY <1>2, <1>3 DEF Types
<1>5. Started(r) \in Nat /\ Yielded(r) \in Nat
  <2>1. IsFiniteSet(1 .. Len(read[r]))
    BY <1>1, <1>4, FS_Interval
  <2> QED
    BY <2>1, FS_Subset, FS_CardinalityType DEF Started, Yielded
<1> QED
  BY <1>4, <1>5

LEMMA ReadTypes ==
    ASSUME Types, NEW r \in Readers, ReadSteps(r)
    PROVE  Types'
<1>1. CASE ReadBegins(r)
  BY <1>1 DEF ReadBegins, Types
<1>2. CASE PartStarts(r)
  <2>1. PICK f \in Parts, n \in Part : part' = [part EXCEPT ![f] = n]
    <3> DEFINE i == Started(r) + 1
               n(pc) == [NoPart EXCEPT !.key = read[r][i], !.pc = pc]
    <3>1. \E pc \in {"done", "map"} : part' = [part EXCEPT ![<<r, i>>] = n(pc)]
      BY <1>2 DEF PartStarts
    <3>2. i \in 1 .. Len(read[r])
      BY <1>2, RangeTypes DEF PartStarts
    <3>3. <<r, i>> \in Parts /\ read[r][i] \in Keys
      BY <3>2, RangeTypes
    <3>4. \A pc \in {"done", "map"} : n(pc) \in Part
      BY <3>3 DEF NoPart, Part, PartPCs
    <3> QED
      BY <3>1, <3>3, <3>4
  <2>2. part' \in [Parts -> Part]
    BY <2>1 DEF Types
  <2> QED
    BY <1>2, <2>2 DEF PartStarts, Types
<1>3. CASE Leaves(r)
  <2>1. objects' \in [Objects -> Object] /\ files' \subseteq Keys /\ directory' \in BOOLEAN
    BY <1>3, SettleEffect DEF Leaves, Types
  <2> QED
    BY <1>3, <2>1, LeavesEffect DEF Types, Leaves
<1> QED
  BY <1>1, <1>2, <1>3 DEF ReadSteps, ReadReturns, ReadFails, ReadIsDropped, ReadIsCancelled

\* A part goes on, and nothing else than what it refers to changes.
LEMMA PartTypes ==
    ASSUME Types, PartsHold, NEW f \in Parts, PartSteps(f)
    PROVE  Types'
<1>1. part[f].key \in Keys \cup {NoKey} /\ part[f].obj \in Objects \cup {NoBlock}
  BY DEF Types, Part
<1>2. CASE FindsBlock(f)
  <2>1. CASE blocks[part[f].key] # NoBlock
    <3>1. part[f].key \in Keys /\ Becomes(f, "cell", blocks[part[f].key])
      BY <1>2, <2>1, BecomesEffect DEF FindsBlock, Refers, PartsHold, Types, PartPCs
    <3> QED
      BY <1>2, <2>1, <3>1 DEF FindsBlock, Becomes, Types
  <2>2. CASE blocks[part[f].key] = NoBlock
    <3>1. part[f].key \in Keys /\ Inserts(f)
      BY <1>2, <2>2 DEF FindsBlock, PartsHold
    <3> QED
      BY <1>2, <3>1, InsertsEffect DEF FindsBlock, Becomes, Types
  <2> QED
    BY <2>1, <2>2
<1>3. CASE Evicts(f)
  <2>1. /\ Becomes(f, "evict", part[f].obj)
        /\ \E victim \in Keys : /\ lock' = [by |-> f, victim |-> victim]
                                /\ blocks' = [blocks EXCEPT ![victim] = NoBlock]
    BY <1>3, BecomesEffect DEF Evicts, PartPCs
  <2>2. objects' \in [Objects -> Object] /\ files' \subseteq Keys /\ directory' \in BOOLEAN
    BY <1>3, SettleEffect DEF Evicts, Types
  <2> QED
    BY <1>3, <2>1, <2>2 DEF Evicts, Becomes, Types
<1>4. CASE ReplacesVictim(f)
  <2>1. part[f].key \in Keys /\ Inserts(f)
    BY <1>4 DEF ReplacesVictim, PartsHold
  <2> QED
    BY <1>4, <2>1, InsertsEffect, Basics DEF ReplacesVictim, Becomes, Types
<1>5. CASE IsRefused(f) \/ CellIsFilled(f) \/ EntersCell(f)
  <2>1. \E pc \in PartPCs : Goes(f, pc)
    BY <1>5 DEF IsRefused, CellIsFilled, EntersCell, PartPCs
  <2>2. part' \in [Parts -> Part]
    BY <2>1, BecomesEffect DEF Becomes
  <2> QED
    BY <1>5, <2>2 DEF IsRefused, CellIsFilled, EntersCell, Types
<1>6. CASE GetsPermit(f)
  <2>1. part' \in [Parts -> Part]
    BY <1>6, BecomesEffect DEF GetsPermit, Becomes, PartPCs
  <2>2. permits' \in Nat
    BY <1>6 DEF GetsPermit, Types
  <2> QED
    BY <1>6, <2>1, <2>2 DEF GetsPermit, Types
<1>7. CASE FetchSucceeds(f)
  <2>1. part' \in [Parts -> Part]
    BY <1>7, BecomesEffect DEF FetchSucceeds, Becomes, PartPCs
  <2>2. writer' \in [Writers -> Writer]
    BY <1>1, <1>7 DEF FetchSucceeds, Types, Writer
  <2> QED
    BY <1>7, <2>1, <2>2 DEF FetchSucceeds, Types
<1>8. CASE FetchFails(f) \/ ReadsFile(f) \/ FileIsUnreadable(f)
  <2>1. part' \in [Parts -> Part]
    BY <1>8, BecomesEffect DEF FetchFails, ReadsFile, FileIsUnreadable, Fails, Becomes, PartPCs
  <2>2. objects' \in [Objects -> Object] /\ files' \subseteq Keys /\ directory' \in BOOLEAN
    BY <1>8, SettleEffect DEF FetchFails, ReadsFile, FileIsUnreadable, Types
  <2>3. permits' \in Nat
    BY <1>8 DEF FetchFails, ReadsFile, FileIsUnreadable, Types
  <2> QED
    BY <1>8, <2>1, <2>2, <2>3 DEF FetchFails, ReadsFile, FileIsUnreadable, Types
<1> QED
  BY <1>2, <1>3, <1>4, <1>5, <1>6, <1>7, <1>8 DEF PartSteps

\* The end of a write settles objects among which at most the one it was for
\* becomes ready.
Readied(w, ok) ==
    \E newObjects \in [Objects -> Object] :
        /\ Settle(IF ok THEN files \cup {writer[w].key} ELSE files, newObjects)
        /\ \A o \in Objects :
              /\ newObjects[o].key = objects[o].key
              /\ newObjects[o].ready <=>
                    objects[o].ready \/ (ok /\ writer[w].for # Nobody /\ o = writer[w].obj)

\* The end of a write; whoever still waits for it goes on.
LEMMA WriterEffect ==
    ASSUME Types, WritersHold, NEW w \in Writers, NEW ok \in BOOLEAN, WriterEnds(w, ok)
    PROVE  /\ Types'
           /\ writer'[w] = NoWriter /\ \A v \in Writers \ {w} : writer'[v] = writer[v]
           /\ writer[w].for = Nobody => part' = part
           /\ writer[w].for # Nobody =>
                 /\ writer[w].for \in Parts
                 /\ Becomes(writer[w].for, IF ok THEN "file" ELSE "failed",
                            IF ok THEN part[writer[w].for].obj ELSE NoBlock)
           /\ writer[w].key \in Keys
           /\ Readied(w, ok)
<1> DEFINE f == writer[w].for
           no == IF ok /\ f # Nobody THEN [objects EXCEPT ![part[f].obj].ready = TRUE] ELSE objects
           nf == IF ok THEN files \cup {writer[w].key} ELSE files
<1>1. /\ writer'[w] = NoWriter /\ \A v \in Writers \ {w} : writer'[v] = writer[v]
      /\ writer' \in [Writers -> Writer]
  BY Basics DEF WriterEnds, Types
<1>2. writer[w] \in Writer /\ writer[w].key \in Keys /\ f \in Parts \cup {Nobody}
  BY DEF WriterEnds, Staging, Types, Writer
<1>3. f # Nobody => part[f].obj = writer[w].obj /\ writer[w].obj \in Objects
  BY <1>2 DEF WritersHold, Writer
<1>4. f = Nobody => part' = part
  BY DEF WriterEnds
<1>5. ASSUME f # Nobody
      PROVE  Becomes(f, IF ok THEN "file" ELSE "failed", IF ok THEN part[f].obj ELSE NoBlock)
  <2>1. f \in Parts
    BY <1>2, <1>5
  <2>2. CASE ok
    BY <1>5, <2>1, <2>2, BecomesEffect DEF WriterEnds, Goes, PartPCs
  <2>3. CASE ~ok
    BY <1>5, <2>1, <2>3, BecomesEffect DEF WriterEnds, PartPCs
  <2> QED
    BY <2>2, <2>3
<1>6. /\ no \in [Objects -> Object]
      /\ \A o \in Objects :
            /\ no[o].key = objects[o].key
            /\ no[o].ready <=> objects[o].ready \/ (ok /\ f # Nobody /\ o = writer[w].obj)
  <2>1. CASE ~(ok /\ f # Nobody)
    BY <2>1 DEF Types
  <2>2. CASE ok /\ f # Nobody
    <3> DEFINE e == [objects[writer[w].obj] EXCEPT !.ready = TRUE]
    <3>1. objects[writer[w].obj] \in Object
      BY <1>3, <2>2 DEF Types
    <3>2. e \in Object /\ e.key = objects[writer[w].obj].key /\ e.ready
      BY <3>1 DEF Object
    <3>3. no = [objects EXCEPT ![writer[w].obj] = e]
      BY <1>3, <2>2
    <3> HIDE DEF e, no
    <3>4. no[writer[w].obj] = e /\ \A o \in Objects : o # writer[w].obj => no[o] = objects[o]
      BY <1>3, <2>2, <3>3 DEF Types
    <3> QED
      BY <1>3, <2>2, <3>2, <3>3, <3>4 DEF Types
  <2> QED
    BY <2>1, <2>2
<1>7. Settle(nf, no)
  BY DEF WriterEnds
<1>8. objects' \in [Objects -> Object] /\ files' \subseteq Keys /\ directory' \in BOOLEAN
  <2>1. nf \subseteq Keys
    BY <1>2 DEF Types
  <2> HIDE DEF nf, no
  <2> QED
    BY <1>6, <1>7, <2>1, SettleEffect
<1>9. part' \in [Parts -> Part] /\ permits' \in Nat
  BY SMTT(40), <1>4, <1>5 DEF WriterEnds, Types, Becomes
<1>10. Types'
  BY <1>1, <1>8, <1>9 DEF WriterEnds, Types
<1> HIDE DEF no
<1>11. Readied(w, ok)
  BY <1>6, <1>7 DEF Readied
<1> QED
  BY <1>1, <1>2, <1>4, <1>5, <1>10, <1>11

LEMMA TypesStep ==
    ASSUME Types, PartsHold, WritersHold, [Next]_vars
    PROVE  Types'
<1>1. CASE cancel \/ UNCHANGED vars
  BY <1>1 DEF cancel, vars, Types
<1>2. CASE CacheIsDropped
  <2>1. objects' \in [Objects -> Object] /\ files' \subseteq Keys /\ directory' \in BOOLEAN
    BY <1>2, SettleEffect DEF CacheIsDropped, Types
  <2> QED
    BY <1>2, <2>1 DEF CacheIsDropped, Types
<1> QED
  BY <1>1, <1>2, ReadTypes, PartTypes, WriterEffect DEF Next

-----------------------------------------------------------------------------
(* Who holds what.                                                         *)

\* A set of numbers without gaps from 1 on.
LEMMA Prefix ==
    ASSUME NEW n \in Nat, NEW S \in SUBSET (1 .. n), \A i \in S : 1 .. i \subseteq S
    PROVE  Cardinality(S) \in 0 .. n /\ S = 1 .. Cardinality(S)
<1>1. /\ \A m \in Nat : IsFiniteSet(1 .. m) /\ Cardinality(1 .. m) = m
      /\ IsFiniteSet(S) /\ Cardinality(S) \in Nat
  <2>1. \A m \in Nat : IsFiniteSet(1 .. m) /\ Cardinality(1 .. m) = m
    BY FS_Interval
  <2> QED
    BY <2>1, FS_Subset, FS_CardinalityType
<1>2. Cardinality(S) =< n
  <2>1. IsFiniteSet(1 .. n) /\ Cardinality(1 .. n) = n /\ S \in SUBSET (1 .. n)
    BY <1>1
  <2> QED
    BY ZenonT(60), <2>1, FS_Subset
<1>3. ASSUME NEW i \in S PROVE i =< Cardinality(S)
  <2>1. i \in Nat /\ 1 .. i \subseteq S
    OBVIOUS
  <2> QED
    BY <1>1, <2>1, FS_Subset
<1>4. ASSUME NEW i \in 1 .. Cardinality(S), i \notin S PROVE FALSE
  <2>1. S \subseteq 1 .. (i - 1)
    <3> SUFFICES ASSUME NEW j \in S, ~(j < i) PROVE FALSE
      BY <1>1
    <3>1. i \in 1 .. j
      BY <1>1
    <3> QED
      BY <1>4, <3>1
  <2>2. i - 1 \in Nat /\ i - 1 < Cardinality(S)
    BY <1>1
  <2>3. Cardinality(S) =< Cardinality(1 .. (i - 1))
    BY <1>1, <2>1, <2>2, FS_Subset
  <2> QED
    BY <1>1, <2>2, <2>3
<1>5. S \subseteq 1 .. Cardinality(S)
  <2> SUFFICES ASSUME NEW i \in S PROVE i \in 1 .. Cardinality(S)
    OBVIOUS
  <2>1. i \in 1 .. n
    OBVIOUS
  <2> QED
    BY <1>1, <1>3, <2>1
<1>6. 1 .. Cardinality(S) \subseteq S
  BY <1>4
<1>7. Cardinality(S) \in 0 .. n
  BY <1>1, <1>2
<1> QED
  BY <1>5, <1>6, <1>7

LEMMA StartedInOrder ==
    ASSUME Types, InOrder, NEW r \in Readers
    PROVE  /\ Started(r) \in 0 .. Len(read[r])
           /\ \A i \in 1 .. MaxSpan : part[<<r, i>>].pc # "idle" <=> i =< Started(r)
<1> DEFINE S == {i \in 1 .. Len(read[r]) : part[<<r, i>>].pc # "idle"}
<1>1. Len(read[r]) \in Nat /\ Len(read[r]) =< MaxSpan /\ MaxSpan \in Nat
  BY RangeTypes, SongCacheAssumption
<1>2. \A i \in S : 1 .. i \subseteq S
  BY <1>1 DEF InOrder
<1>3. Cardinality(S) \in 0 .. Len(read[r]) /\ S = 1 .. Cardinality(S)
  <2>1. S \in SUBSET (1 .. Len(read[r]))
    OBVIOUS
  <2> HIDE DEF S
  <2> QED
    BY <1>1, <1>2, <2>1, Prefix
<1>4. Started(r) = Cardinality(S)
  BY DEF Started
<1>5. \A i \in 1 .. MaxSpan : part[<<r, i>>].pc # "idle" <=> i \in S
  BY <1>1 DEF InOrder
<1> QED
  BY <1>1, <1>3, <1>4, <1>5

Shape == PartsHold /\ WritersHold /\ Over /\ InOrder

LEMMA OrderStays ==
    ASSUME InOrder, UNCHANGED read,
           \A g \in Parts : part'[g].pc = "idle" <=> part[g].pc = "idle"
    PROVE  InOrder'
<1> SUFFICES ASSUME NEW r \in Readers, NEW i \in 1 .. MaxSpan, part'[<<r, i>>].pc # "idle",
                    NEW j \in 1 .. i
             PROVE  i =< Len(read[r]) /\ part'[<<r, j>>].pc # "idle"
  BY DEF InOrder
<1>1. <<r, i>> \in Parts /\ <<r, j>> \in Parts
  BY SongCacheAssumption DEF Parts
<1> QED
  BY <1>1 DEF InOrder

\* Part f, which does not wait for a write, moves on.
LEMMA PartShape ==
    ASSUME Types, Shape, NEW f \in Parts, NEW pc, NEW o, Becomes(f, pc, o),
           part[f].pc \notin {"idle", "write"}, pc \notin {"idle", "write"},
           pc \in Holding <=> o # NoBlock,
           UNCHANGED <<read, writer, cancelled, dropped>>,
           \A g \in Parts : lock'.by = g <=> part'[g].pc = "evict",
           \A g \in Parts : part'[g].pc = "evict" => blocks'[part'[g].key] = NoBlock
    PROVE  Shape'
<1>1. PartsHold'
  BY DEF Shape, PartsHold, Becomes
<1>2. WritersHold'
  BY SMTT(40) DEF Shape, WritersHold, Becomes, Staging, Types, Writer
<1>3. Over'
  <2>1. f[1] \in Readers /\ read[f[1]] # <<>>
    BY DEF Shape, PartsHold, Parts
  <2> QED
    BY <2>1 DEF Shape, Over
<1>4. InOrder'
  <2>1. \A g \in Parts : part'[g].pc = "idle" <=> part[g].pc = "idle"
    BY DEF Becomes
  <2> QED
    BY <2>1, OrderStays DEF Shape
<1> QED
  BY <1>1, <1>2, <1>3, <1>4 DEF Shape

LEMMA PartStepShape ==
    ASSUME Types, Shape, NEW f \in Parts, PartSteps(f)
    PROVE  Shape'
<1>1. /\ part[f] \in Part /\ PartsHold /\ WritersHold
      /\ \A g \in Parts : part[g].pc = "evict" <=> lock.by = g
      /\ \A g \in Parts : part[g].pc = "evict" => blocks[part[g].key] = NoBlock
      /\ lock = Free => \A g \in Parts : lock.by # g
  BY Basics DEF Types, Shape, PartsHold
<1>2. CASE FindsBlock(f)
  <2>1. part[f].key \in Keys /\ part[f].pc = "map" /\ \A g \in Parts : part[g].pc # "evict"
    BY <1>1, <1>2 DEF FindsBlock, PartsHold
  <2>2. PICK o \in Objects : Becomes(f, "cell", o)
    <3>1. CASE blocks[part[f].key] # NoBlock
      BY ZenonT(60), <1>2, <2>1, <3>1, BecomesEffect DEF FindsBlock, Refers, Types, PartPCs
    <3>2. CASE blocks[part[f].key] = NoBlock
      BY <1>2, <2>1, <3>2, InsertsEffect DEF FindsBlock
    <3> QED
      BY <3>1, <3>2
  <2>3. o # NoBlock /\ \A g \in Parts : part'[g].pc # "evict" /\ lock'.by # g
    BY <1>1, <1>2, <2>1, <2>2, Basics DEF Becomes, FindsBlock
  <2> QED
    BY <1>2, <2>1, <2>2, <2>3, PartShape DEF FindsBlock, Holding
<1>3. CASE Evicts(f)
  <2>1. /\ part[f].pc = "map" /\ Becomes(f, "evict", part[f].obj) /\ lock'.by = f
        /\ lock = Free /\ part[f].obj = NoBlock /\ part[f].key \in Keys
    <3>1. part[f].pc = "map" /\ lock = Free /\ Goes(f, "evict") /\ lock'.by = f
      BY <1>3 DEF Evicts, Missing
    <3> QED
      BY <1>1, <3>1, BecomesEffect DEF PartPCs, PartsHold, Holding
  <2>2. blocks'[part[f].key] = NoBlock
    BY <1>3, <2>1 DEF Evicts, Missing, Types
  <2>3. \A g \in Parts : lock'.by = g <=> part'[g].pc = "evict"
    BY <1>1, <2>1 DEF Becomes
  <2>4. \A g \in Parts : part'[g].pc = "evict" => blocks'[part'[g].key] = NoBlock
    BY <2>1, <2>2, <2>3 DEF Becomes
  <2> QED
    BY <1>3, <2>1, <2>3, <2>4, PartShape DEF Evicts, Holding
<1>4. CASE ReplacesVictim(f)
  <2>1. part[f].key \in Keys /\ part[f].pc = "evict" /\ lock' = Free
    BY <1>1, <1>4 DEF ReplacesVictim, PartsHold
  <2>2. PICK o \in Objects : Becomes(f, "cell", o)
    BY <1>4, <2>1, InsertsEffect DEF ReplacesVictim
  <2>3. o # NoBlock /\ \A g \in Parts : part'[g].pc # "evict" /\ lock'.by # g
    BY <1>1, <2>1, <2>2, Basics DEF Becomes
  <2> QED
    BY <1>4, <2>1, <2>2, <2>3, PartShape DEF ReplacesVictim, Holding
<1>5. ASSUME NEW pc, NEW o \in Objects \cup {NoBlock}, Becomes(f, pc, o),
             part[f].pc \notin {"idle", "write", "evict"}, pc \notin {"idle", "write", "evict"},
             pc \in Holding <=> o # NoBlock,
             UNCHANGED <<read, writer, cancelled, dropped, lock, blocks>>
      PROVE  Shape'
  <2>1. \A g \in Parts : /\ lock'.by = g <=> part'[g].pc = "evict"
                         /\ part'[g].pc = "evict" => blocks'[part'[g].key] = NoBlock
    BY <1>1, <1>5 DEF Becomes
  <2> QED
    BY <1>5, <2>1, PartShape
<1>6. CASE IsRefused(f)
  <2>1. part[f].pc = "map" /\ Becomes(f, "refused", part[f].obj) /\ part[f].obj = NoBlock
    BY <1>1, <1>6, BecomesEffect DEF IsRefused, Missing, PartsHold, Holding, PartPCs
  <2> QED
    BY <1>1, <1>5, <1>6, <2>1 DEF IsRefused, Holding, Part
<1>7. CASE CellIsFilled(f) \/ EntersCell(f) \/ GetsPermit(f)
  <2>1. PICK pc \in {"file", "permit", "fetch"} :
          part[f].pc \in {"cell", "permit"} /\ Becomes(f, pc, part[f].obj)
    BY <1>7, BecomesEffect DEF CellIsFilled, EntersCell, GetsPermit, PartPCs
  <2>2. part[f].obj # NoBlock
    BY <1>1, <2>1 DEF PartsHold, Holding
  <2> QED
    BY <1>1, <1>5, <1>7, <2>1, <2>2 DEF CellIsFilled, EntersCell, GetsPermit, Holding, Part
<1>8. CASE FetchFails(f) \/ ReadsFile(f) \/ FileIsUnreadable(f)
  <2>1. PICK pc \in {"failed", "done"} : part[f].pc \in {"fetch", "file"} /\ Becomes(f, pc, NoBlock)
    BY <1>8, BecomesEffect DEF FetchFails, ReadsFile, FileIsUnreadable, Fails, PartPCs
  <2> QED
    BY <1>5, <1>8, <2>1 DEF FetchFails, ReadsFile, FileIsUnreadable, Holding
<1>9. CASE FetchSucceeds(f)
  <2>1. PICK w \in Writers \ Staging :
          writer' = [writer EXCEPT ![w] = [key |-> part[f].key, obj |-> part[f].obj,
                                           for |-> f, permit |-> TRUE]]
    BY <1>9 DEF FetchSucceeds
  <2>2. /\ part[f].pc = "fetch" /\ Becomes(f, "write", part[f].obj)
        /\ part[f].obj # NoBlock /\ part[f].key \in Keys
    BY <1>1, <1>9, BecomesEffect DEF FetchSucceeds, PartPCs, PartsHold, Holding
  <2>3. /\ writer'[w].key = part[f].key /\ writer'[w].obj = part[f].obj
        /\ writer'[w].for = f /\ writer'[w].permit
        /\ \A v \in Writers \ {w} : writer'[v] = writer[v]
    BY <2>1 DEF Types
  <2>4. Staging' = Staging \cup {w} /\ f # Nobody
    BY <2>2, <2>3, SongCacheAssumption, Basics DEF Staging
  <2>5. \A v \in Writers : writer[v].for # f
    BY <1>1, <2>2, Basics DEF WritersHold
  <2>6. PartsHold'
    BY <1>1, <1>9, <2>2 DEF FetchSucceeds, PartsHold, Becomes, Holding
  <2>7. WritersHold'
    <3>1. \A v \in Writers : v \in Staging' <=> writer'[v].obj # NoBlock
      BY <1>1, <2>2, <2>3, <2>4 DEF WritersHold
    <3>2. \A v \in Staging' : writer'[v].permit
      BY <1>1, <2>3, <2>4 DEF WritersHold, Staging
    <3>3. \A v \in Writers : writer'[v].for # Nobody =>
             /\ v \in Staging' /\ part'[writer'[v].for].pc = "write"
             /\ part'[writer'[v].for].obj = writer'[v].obj
      <4> SUFFICES ASSUME NEW v \in Writers, v # w, writer[v].for # Nobody
                   PROVE  /\ v \in Staging' /\ part'[writer[v].for].pc = "write"
                          /\ part'[writer[v].for].obj = writer[v].obj
        BY <2>2, <2>3, <2>4 DEF Becomes
      <4>1. writer[v].for \in Parts \ {f}
        BY <2>5 DEF Types, Writer
      <4> QED
        BY <1>1, <2>2, <2>4, <4>1 DEF WritersHold, Becomes
    <3>4. \A v, u \in Writers : writer'[v].for = writer'[u].for => v = u \/ writer'[v].for = Nobody
      BY <1>1, <2>3, <2>5 DEF WritersHold
    <3> QED
      BY <3>1, <3>2, <3>3, <3>4 DEF WritersHold
  <2>8. Over' /\ InOrder'
    <3>1. f[1] \in Readers /\ read[f[1]] # <<>>
      BY <1>1, <2>2 DEF PartsHold, Parts
    <3>2. \A g \in Parts : part'[g].pc = "idle" <=> part[g].pc = "idle"
      BY <2>2 DEF Becomes
    <3> QED
      BY <1>9, <3>1, <3>2, OrderStays DEF Shape, Over, FetchSucceeds
  <2> QED
    BY <2>6, <2>7, <2>8 DEF Shape
<1> QED
  BY <1>2, <1>3, <1>4, <1>6, <1>7, <1>8, <1>9 DEF PartSteps

\* A read's next part starts where none has been.
LEMMA StartEffect ==
    ASSUME Types, Shape, NEW r \in Readers, PartStarts(r)
    PROVE  \E f \in Parts, pc \in {"done", "map"}, key \in Keys :
              /\ f = <<r, Started(r) + 1>> /\ Started(r) + 1 =< Len(read[r])
              /\ part[f].pc = "idle" /\ part[f].obj = NoBlock
              /\ part' \in [Parts -> Part]
              /\ \A g \in Parts \ {f} : part'[g] = part[g]
              /\ part'[f].pc = pc /\ part'[f].key = key /\ part'[f].obj = NoBlock
<1> DEFINE i == Started(r) + 1
           f == <<r, i>>
           n(pc) == [NoPart EXCEPT !.key = read[r][i], !.pc = pc]
<1>1. PICK pc \in {"done", "map"} : part' = [part EXCEPT ![f] = n(pc)]
  BY DEF PartStarts
<1>2. i \in 1 .. Len(read[r]) /\ i \in 1 .. MaxSpan /\ ~(i =< Started(r))
  BY RangeTypes, SongCacheAssumption DEF PartStarts
<1>3. f \in Parts /\ read[r][i] \in Keys
  BY <1>2, RangeTypes
<1>4. part[f].pc = "idle" /\ part[f].obj = NoBlock
  BY <1>2, <1>3, StartedInOrder DEF Shape, PartsHold, Holding
<1>5. n(pc) \in Part /\ n(pc).pc = pc /\ n(pc).key = read[r][i] /\ n(pc).obj = NoBlock
  BY <1>3 DEF NoPart, Part, PartPCs
<1>6. /\ part' \in [Parts -> Part]
      /\ \A g \in Parts \ {f} : part'[g] = part[g]
      /\ part'[f] = n(pc)
  BY <1>1, <1>3, <1>5 DEF Types
<1>7. f = <<r, Started(r) + 1>> /\ Started(r) + 1 =< Len(read[r])
  BY <1>2, RangeTypes
<1> HIDE DEF n, f, i
<1>8. /\ part'[f].pc = pc /\ part'[f].key = read[r][i] /\ part'[f].obj = NoBlock
  BY <1>5, <1>6
<1> QED
  BY <1>3, <1>4, <1>6, <1>7, <1>8

LEMMA LeavesShape ==
    ASSUME Types, Shape, NEW r \in Readers, Leaves(r)
    PROVE  Shape'
<1>1. /\ PartsHold /\ WritersHold /\ Over /\ InOrder
      /\ \A f \in Parts : f \in PartsOf(r) <=> f[1] = r
      /\ \A f \in Parts : f[1] \in Readers
  BY Basics DEF Shape, Parts
<1>2. PartsHold'
  <2> SUFFICES ASSUME NEW f \in Parts
               PROVE  /\ part'[f].pc \in Holding <=> part'[f].obj # NoBlock
                      /\ part'[f].pc # "idle" => part'[f].key \in Keys /\ read'[f[1]] # <<>>
                      /\ part'[f].pc = "evict" <=> lock'.by = f
                      /\ part'[f].pc = "evict" => blocks'[part'[f].key] = NoBlock
    BY DEF PartsHold
  <2>1. UNCHANGED blocks
    BY DEF Leaves
  <2>2. CASE f[1] = r
    BY <1>1, <2>2, LeavesEffect, Basics DEF Holding
  <2>3. CASE f[1] # r
    BY <1>1, <2>1, <2>3, LeavesEffect, Basics DEF PartsHold
  <2> QED
    BY <2>2, <2>3
<1>3. WritersHold'
  <2>1. Staging' = Staging
    BY LeavesEffect DEF Staging
  <2>2. \A w \in Writers : w \in Staging' <=> writer'[w].obj # NoBlock
    BY <1>1, <2>1, LeavesEffect DEF WritersHold
  <2>3. \A w \in Staging' : writer'[w].permit
    BY <1>1, <2>1, LeavesEffect DEF WritersHold, Staging
  <2>4. ASSUME NEW w \in Writers, writer'[w].for # Nobody
        PROVE  /\ w \in Staging' /\ part'[writer'[w].for].pc = "write"
               /\ part'[writer'[w].for].obj = writer'[w].obj
    <3>1. writer'[w].for = writer[w].for /\ writer[w].for \notin PartsOf(r) /\ writer[w].for \in Parts
      BY <2>4, LeavesEffect DEF Types, Writer
    <3>2. part'[writer[w].for] = part[writer[w].for]
      BY <1>1, <3>1, LeavesEffect
    <3> QED
      BY <1>1, <2>1, <2>4, <3>1, <3>2, LeavesEffect DEF WritersHold
  <2>5. \A w, v \in Writers : writer'[w].for = writer'[v].for => w = v \/ writer'[w].for = Nobody
    BY <1>1, LeavesEffect DEF WritersHold
  <2> QED
    BY <2>2, <2>3, <2>4, <2>5 DEF WritersHold
<1>4. Over'
  <2>1. UNCHANGED <<cancelled, dropped, blocks>>
    BY DEF Leaves
  <2> QED
    BY <1>1, <2>1, LeavesEffect DEF Over
<1>5. InOrder'
  <2> SUFFICES ASSUME NEW q \in Readers, NEW i \in 1 .. MaxSpan, part'[<<q, i>>].pc # "idle",
                      NEW j \in 1 .. i
               PROVE  i =< Len(read'[q]) /\ part'[<<q, j>>].pc # "idle"
    BY DEF InOrder
  <2>1. <<q, i>> \in Parts /\ <<q, j>> \in Parts
    BY SongCacheAssumption DEF Parts
  <2>2. q # r
    BY <2>1, LeavesEffect, Basics
  <2>3. part'[<<q, i>>] = part[<<q, i>>] /\ part'[<<q, j>>] = part[<<q, j>>] /\ read'[q] = read[q]
    BY <2>1, <2>2, LeavesEffect
  <2> QED
    BY <1>1, <2>3 DEF InOrder
<1> QED
  BY <1>2, <1>3, <1>4, <1>5 DEF Shape

LEMMA ReadShape ==
    ASSUME Types, Shape, NEW r \in Readers, ReadSteps(r)
    PROVE  Shape'
<1>1. PartsHold /\ WritersHold /\ Over /\ InOrder
  BY DEF Shape
<1>2. CASE ReadBegins(r)
  <2>1. read[r] = <<>> /\ ~dropped' /\ (\A q \in Readers \ {r} : read'[q] = read[q])
    BY <1>1, <1>2 DEF ReadBegins, Over
  <2>2. \A f \in Parts : part[f].pc # "idle" => f[1] # r /\ f[1] \in Readers
    BY <1>1, <2>1 DEF PartsHold, Parts
  <2>3. PartsHold'
    BY <1>1, <1>2, <2>1, <2>2 DEF PartsHold, ReadBegins
  <2>4. InOrder'
    <3> SUFFICES ASSUME NEW q \in Readers, NEW i \in 1 .. MaxSpan, part[<<q, i>>].pc # "idle"
                 PROVE  i =< Len(read'[q]) /\ \A j \in 1 .. i : part[<<q, j>>].pc # "idle"
      BY <1>2 DEF InOrder, ReadBegins
    <3>1. <<q, i>> \in Parts /\ <<q, i>>[1] = q
      BY DEF Parts
    <3>2. q # r
      BY <2>2, <3>1
    <3> QED
      BY <1>1, <2>1, <3>2 DEF InOrder
  <2>5. WritersHold' /\ Over'
    BY <1>1, <1>2, <2>1 DEF WritersHold, Over, ReadBegins, Staging
  <2> QED
    BY <2>3, <2>4, <2>5 DEF Shape
<1>3. CASE PartStarts(r)
  <2>1. PICK f \in Parts, pc \in {"done", "map"}, key \in Keys :
              /\ f = <<r, Started(r) + 1>> /\ Started(r) + 1 =< Len(read[r])
              /\ part[f].pc = "idle" /\ part[f].obj = NoBlock
              /\ part' \in [Parts -> Part]
              /\ \A g \in Parts \ {f} : part'[g] = part[g]
              /\ part'[f].pc = pc /\ part'[f].key = key /\ part'[f].obj = NoBlock
    BY <1>3, StartEffect
  <2>2. UNCHANGED <<blocks, lock, writer, read, cancelled, dropped>>
    BY <1>3 DEF PartStarts
  <2>3. f[1] = r /\ read[r] # <<>>
    BY <2>1, RangeTypes
  <2>4. PartsHold'
    BY <1>1, <2>1, <2>2, <2>3 DEF PartsHold, Holding
  <2>5. WritersHold'
    <3>1. \A w \in Writers : writer[w].for # Nobody => writer[w].for \in Parts \ {f}
      BY <1>1, <2>1 DEF WritersHold, Types, Writer
    <3> QED
      BY <1>1, <2>1, <2>2, <3>1 DEF WritersHold, Staging
  <2>6. InOrder'
    <3> SUFFICES ASSUME NEW q \in Readers, NEW i \in 1 .. MaxSpan, part'[<<q, i>>].pc # "idle"
                 PROVE  i =< Len(read[q]) /\ \A j \in 1 .. i : part'[<<q, j>>].pc # "idle"
      BY <2>2 DEF InOrder
    <3>1. <<q, i>> \in Parts /\ (\A j \in 1 .. i : j \in 1 .. MaxSpan /\ <<q, j>> \in Parts)
      BY SongCacheAssumption DEF Parts
    <3>2. CASE <<q, i>> # f
      <4>1. part[<<q, i>>].pc # "idle"
        BY <2>1, <3>1, <3>2
      <4>2. i =< Len(read[q]) /\ \A j \in 1 .. i : part[<<q, j>>].pc # "idle"
        BY <1>1, <4>1 DEF InOrder
      <4> QED
        BY <2>1, <3>1, <4>2
    <3>3. CASE <<q, i>> = f
      <4>1. q = r /\ i = Started(r) + 1 /\ Started(r) \in Nat
        BY <2>1, <3>3, RangeTypes
      <4>2. \A j \in 1 .. i : j # i => part[<<r, j>>].pc # "idle"
        BY <1>1, <3>1, <4>1, StartedInOrder
      <4> QED
        BY <2>1, <3>1, <4>1, <4>2
    <3> QED
      BY <3>2, <3>3
  <2>7. Over'
    BY <1>1, <2>2 DEF Over
  <2> QED
    BY <2>4, <2>5, <2>6, <2>7 DEF Shape
<1> QED
  BY <1>2, <1>3, LeavesShape DEF ReadSteps, ReadReturns, ReadFails, ReadIsDropped, ReadIsCancelled

LEMMA WriterShape ==
    ASSUME Types, Shape, NEW w \in Writers, NEW ok \in BOOLEAN, WriterEnds(w, ok)
    PROVE  Shape'
<1> DEFINE f == writer[w].for
<1>1. /\ PartsHold /\ WritersHold /\ Over /\ InOrder
      /\ UNCHANGED <<blocks, lock, read, cancelled, dropped>>
  BY DEF Shape, WriterEnds
<1>2. f # Nobody => /\ f \in Parts /\ part[f].pc = "write" /\ part[f].obj # NoBlock
                    /\ \A v \in Writers \ {w} : writer[v].for # f
  <2>1. f # Nobody => f \in Parts
    BY <1>1, WriterEffect
  <2>2. f # Nobody => part[f].pc = "write"
    BY <1>1 DEF WritersHold
  <2>3. f # Nobody => part[f].obj # NoBlock
    BY <1>1, <2>1, <2>2 DEF PartsHold, Holding
  <2>4. f # Nobody => \A v \in Writers \ {w} : writer[v].for # f
    BY <1>1 DEF WritersHold
  <2> QED
    BY <2>1, <2>2, <2>3, <2>4
<1>3. /\ writer'[w].key = NoKey /\ writer'[w].obj = NoBlock /\ writer'[w].for = Nobody
      /\ \A v \in Writers \ {w} : writer'[v] = writer[v]
  BY ZenonT(60), <1>1, WriterEffect, Basics
<1>4. Staging' = Staging \ {w}
  BY <1>3 DEF Staging
\* The other writes stay what they are, if nobody they are for moves.
<1> DEFINE Stay == \A v \in Writers \ {w} :
                      writer[v].for # Nobody => part'[writer[v].for] = part[writer[v].for]
<1>7. ASSUME Stay PROVE WritersHold'
  <2>1. \A v \in Writers : v \in Staging' <=> writer'[v].obj # NoBlock
    BY <1>1, <1>3, <1>4 DEF WritersHold
  <2>2. \A v \in Staging' : writer'[v].permit
    BY <1>1, <1>3, <1>4 DEF WritersHold, Staging
  <2>3. ASSUME NEW v \in Writers, writer'[v].for # Nobody
        PROVE  /\ v \in Staging' /\ part'[writer'[v].for].pc = "write"
               /\ part'[writer'[v].for].obj = writer'[v].obj
    <3>1. v # w /\ writer'[v] = writer[v]
      BY <1>3, <2>3
    <3>2. /\ v \in Staging /\ part[writer[v].for].pc = "write"
          /\ part[writer[v].for].obj = writer[v].obj
      BY <1>1, <2>3, <3>1 DEF WritersHold
    <3> QED
      BY <1>4, <1>7, <2>3, <3>1, <3>2
  <2>4. \A v, u \in Writers : writer'[v].for = writer'[u].for => v = u \/ writer'[v].for = Nobody
    BY <1>1, <1>3 DEF WritersHold
  <2> QED
    BY <2>1, <2>2, <2>3, <2>4 DEF WritersHold
<1>5. CASE f = Nobody
  <2>1. UNCHANGED part
    BY <1>1, <1>5, WriterEffect
  <2>2. WritersHold'
    BY <1>7, <2>1
  <2> QED
    BY <1>1, <2>1, <2>2 DEF Shape, PartsHold, Over, InOrder
<1>6. CASE f # Nobody
  <2>1. PICK pc \in {"file", "failed"} : Becomes(f, pc, IF pc = "file" THEN part[f].obj ELSE NoBlock)
    BY <1>1, <1>6, WriterEffect
  <2>2. PartsHold'
    BY <1>1, <1>2, <1>6, <2>1 DEF PartsHold, Becomes, Holding
  <2>3. WritersHold'
    <3>1. \A v \in Writers \ {w} : writer[v].for # Nobody =>
              part'[writer[v].for] = part[writer[v].for]
      BY <1>2, <1>6, <2>1 DEF Becomes, Types, Writer
    <3> QED
      BY <1>7, <3>1
  <2>4. InOrder'
    <3>1. \A g \in Parts : part'[g].pc = "idle" <=> part[g].pc = "idle"
      BY <1>2, <1>6, <2>1 DEF Becomes
    <3> QED
      BY <1>1, <3>1, OrderStays
  <2> QED
    BY <1>1, <2>2, <2>3, <2>4 DEF Shape, Over
<1> QED
  BY <1>5, <1>6

LEMMA ShapeStep ==
    ASSUME Types, Shape, [Next]_vars
    PROVE  Shape'
<1>1. CASE cancel \/ UNCHANGED vars
  BY <1>1 DEF cancel, vars, Shape, PartsHold, WritersHold, Staging, Over, InOrder
<1>2. CASE CacheIsDropped
  <2>1. \A f \in Parts : part[f].pc = "idle"
    BY <1>2 DEF CacheIsDropped, Shape, PartsHold, Parts
  <2>2. \A k \in Keys : blocks'[k] = NoBlock
    BY <1>2 DEF CacheIsDropped
  <2>3. /\ cancelled /\ (\A r \in Readers : read[r] = <<>>)
        /\ UNCHANGED <<lock, part, writer, read, cancelled>>
    BY <1>2 DEF CacheIsDropped
  <2> QED
    BY <2>1, <2>2, <2>3 DEF Shape, PartsHold, WritersHold, Staging, Over, InOrder
<1> QED
  BY <1>1, <1>2, ReadShape, PartStepShape, WriterShape DEF Next

-----------------------------------------------------------------------------
(* Objects and their files.                                                *)

\* A step that makes no object: references only pass on or go.
PassesOn ==
    /\ \A k \in Keys : blocks'[k] \in {blocks[k], NoBlock}
    /\ \A f \in Parts : part'[f].obj # NoBlock =>
          /\ part'[f].key = part[f].key
          /\ part'[f].obj \in {part[f].obj, blocks[part[f].key]}
    /\ \A w \in Staging' :
          \/ w \in Staging /\ writer'[w].obj = writer[w].obj /\ writer'[w].key = writer[w].key
          \/ \E f \in Parts : /\ part[f].obj # NoBlock
                              /\ writer'[w].obj = part[f].obj /\ writer'[w].key = part[f].key

Keeps ==
    /\ PassesOn /\ Alive \subseteq Alive'
    /\ \A f \in Parts : part'[f].pc = "file" =>
          part[f].pc = "file" \/ objects[part'[f].obj].ready
    /\ UNCHANGED <<blocks, objects, files, directory, dropped>>

\* Objects may go, and the file of a live one may come.
Drops ==
    /\ PassesOn /\ (dropped => dropped')
    /\ \A k \in Keys : blocks'[k] = blocks[k] \/ blocks[k] \notin Alive' \/ dropped'
    /\ \E newFiles \in SUBSET Keys, newObjects \in [Objects -> Object] :
          /\ Settle(newFiles, newObjects)
          /\ files \subseteq newFiles /\ newFiles \subseteq files \cup LiveKeys
          /\ \A o \in Objects :
                /\ newObjects[o].key = objects[o].key
                /\ objects[o].ready => newObjects[o].ready
                /\ newObjects[o].ready => objects[o].ready \/ objects[o].key \in newFiles
          /\ \A f \in Parts : part'[f].pc = "file" =>
                part[f].pc = "file" \/ newObjects[part'[f].obj].ready

\* A part puts a new object under its key, into the room there is.
Adds(f) ==
    /\ Inserts(f) /\ ~dropped
    /\ part[f].key \in Keys /\ part[f].obj = NoBlock /\ blocks[part[f].key] = NoBlock
    /\ (part[f].pc = "map" /\ HasRoom) \/ lock.by = f
    /\ lock'.by = Nobody
    /\ UNCHANGED <<writer, dropped>>

LEMMA Referenced ==
    ASSUME Types, Shape
    PROVE  /\ \A k \in Keys : blocks[k] # NoBlock => blocks[k] \in Alive
           /\ \A f \in Parts : part[f].obj # NoBlock => part[f].obj \in Alive
           /\ \A w \in Writers : writer[w].obj # NoBlock => writer[w].obj \in Alive
           /\ \A w \in Staging : writer[w].obj \in Alive
           /\ \A o \in Alive : \/ \E k \in Keys : blocks[k] = o
                               \/ \E f \in Parts : part[f].obj = o
                               \/ \E w \in Staging : writer[w].obj = o
           /\ NoBlock \notin Alive
BY DEF Alive, Shape, WritersHold, Staging

LEMMA PartStepKinds ==
    ASSUME Types, Shape, Types', Shape', Keyed, NEW f \in Parts, PartSteps(f)
    PROVE  Keeps \/ Drops \/ Adds(f)
<1>1. part[f] \in Part /\ PartsHold /\ WritersHold /\ Staging \subseteq Writers /\ f[1] \in Readers
  BY DEF Types, Shape, Staging, Parts
<1>2. part[f].pc # "idle" => part[f].key \in Keys /\ ~dropped
  BY <1>1 DEF PartsHold, Shape, Over
\* Nothing is settled when a part only moves or takes a reference.
<1>3. ASSUME NEW pc, NEW o, Becomes(f, pc, o),
             o = part[f].obj \/ (part[f].obj = NoBlock /\ part[f].key \in Keys /\ o = blocks[part[f].key]),
             \A w \in Writers :
                \/ writer'[w] = writer[w]
                \/ /\ writer[w].obj = NoBlock /\ part[f].obj # NoBlock
                   /\ writer'[w].obj = part[f].obj /\ writer'[w].key = part[f].key,
             pc = "file" => objects[o].ready,
             UNCHANGED <<blocks, objects, files, directory, dropped>>
      PROVE  Keeps
  <2>1. \A g \in Parts \ {f} : part'[g] = part[g]
    BY <1>3 DEF Becomes
  <2>2. PassesOn
    BY <1>3, <2>1 DEF PassesOn, Becomes, Staging
  <2>3. Alive \subseteq Alive'
    BY <1>3, <2>1 DEF Alive, Becomes
  <2>4. \A g \in Parts : part'[g].pc = "file" => part[g].pc = "file" \/ objects[part'[g].obj].ready
    BY <1>3, <2>1 DEF Becomes
  <2> QED
    BY <1>3, <2>2, <2>3, <2>4 DEF Keeps
\* What a part lets go may be settled.
<1>4. ASSUME NEW pc, Becomes(f, pc, NoBlock), pc # "file",
             UNCHANGED <<blocks, writer, dropped>>, Settle(files, objects)
      PROVE  Drops
  <2>1. \A g \in Parts \ {f} : part'[g] = part[g]
    BY <1>4 DEF Becomes
  <2>2. PassesOn
    BY <1>4, <2>1 DEF PassesOn, Becomes, Staging
  <2>3. \A g \in Parts : part'[g].pc = "file" => part[g].pc = "file"
    BY <1>4, <2>1 DEF Becomes
  <2> QED
    BY <1>4, <2>2, <2>3 DEF Drops, Types
<1>5. CASE FindsBlock(f)
  <2>1. CASE blocks[part[f].key] # NoBlock
    <3>1. /\ Becomes(f, "cell", blocks[part[f].key]) /\ part[f].obj = NoBlock
          /\ part[f].key \in Keys /\ UNCHANGED <<writer, blocks, objects, files, directory, dropped>>
      BY <1>1, <1>2, <1>5, <2>1, BecomesEffect
         DEF FindsBlock, Refers, PartsHold, Holding, Types, PartPCs
    <3> QED
      BY <1>3, <3>1
  <2>2. CASE blocks[part[f].key] = NoBlock
    <3>1. part[f].pc = "map" /\ part[f].obj = NoBlock /\ lock'.by = Nobody
      BY <1>1, <1>5, Basics DEF FindsBlock, PartsHold, Holding
    <3> QED
      BY <1>2, <1>5, <2>2, <3>1 DEF FindsBlock, Adds
  <2> QED
    BY <2>1, <2>2
<1>6. CASE ReplacesVictim(f)
  <2>1. /\ part[f].obj = NoBlock /\ lock.by = f /\ lock'.by = Nobody
        /\ part[f].pc = "evict" /\ blocks[part[f].key] = NoBlock
    BY <1>1, <1>6, Basics DEF ReplacesVictim, PartsHold, Holding
  <2> QED
    BY <1>2, <1>6, <2>1 DEF ReplacesVictim, Adds
<1>7. CASE IsRefused(f) \/ CellIsFilled(f) \/ EntersCell(f) \/ GetsPermit(f)
  <2>1. PICK pc \in PartPCs : /\ Becomes(f, pc, part[f].obj)
                              /\ pc = "file" => objects[part[f].obj].ready
    BY <1>7, BecomesEffect DEF IsRefused, CellIsFilled, EntersCell, GetsPermit, PartPCs
  <2> QED
    BY <1>3, <1>7, <2>1 DEF IsRefused, CellIsFilled, EntersCell, GetsPermit
<1>8. CASE FetchFails(f) \/ ReadsFile(f) \/ FileIsUnreadable(f)
  <2>1. \E pc \in {"failed", "done"} : Becomes(f, pc, NoBlock)
    BY <1>8, BecomesEffect, Basics DEF FetchFails, ReadsFile, FileIsUnreadable, Fails, PartPCs
  <2> QED
    BY <1>4, <1>8, <2>1 DEF FetchFails, ReadsFile, FileIsUnreadable
<1>9. CASE FetchSucceeds(f)
  <2>1. Becomes(f, "write", part[f].obj) /\ part[f].obj # NoBlock
    BY <1>1, <1>9, BecomesEffect DEF FetchSucceeds, PartPCs, PartsHold, Holding
  <2>2. PICK w \in Writers \ Staging :
          writer' = [writer EXCEPT ![w] = [key |-> part[f].key, obj |-> part[f].obj,
                                           for |-> f, permit |-> TRUE]]
    BY <1>9 DEF FetchSucceeds
  <2>3. writer[w].obj = NoBlock
    BY <1>1, <2>2 DEF WritersHold
  <2>4. /\ writer'[w].obj = part[f].obj /\ writer'[w].key = part[f].key
        /\ \A v \in Writers \ {w} : writer'[v] = writer[v]
    BY <2>2 DEF Types
  <2> QED
    BY <1>3, <1>9, <2>1, <2>3, <2>4 DEF FetchSucceeds
<1>10. CASE Evicts(f)
  <2>1. PICK victim \in Keys :
          /\ blocks[victim] # NoBlock /\ ~Pinned(blocks[victim])
          /\ blocks' = [blocks EXCEPT ![victim] = NoBlock]
    BY <1>10 DEF Evicts
  <2>2. Becomes(f, "evict", part[f].obj) /\ UNCHANGED <<writer, dropped>> /\ Settle(files, objects)
    BY <1>10, BecomesEffect DEF Evicts, PartPCs
  <2>3. /\ \A g \in Parts : part'[g].obj = part[g].obj /\ part'[g].key = part[g].key
        /\ \A g \in Parts : part'[g].pc = "file" => part[g].pc = "file"
    BY <2>2 DEF Becomes
  <2>4. blocks'[victim] = NoBlock /\ \A k \in Keys \ {victim} : blocks'[k] = blocks[k]
    BY <2>1 DEF Types
  <2>5. blocks[victim] \notin Alive'
    <3>1. \A k \in Keys : blocks'[k] # blocks[victim]
      BY <2>1, <2>4 DEF Keyed
    <3>2. \A g \in Parts : part'[g].obj # blocks[victim]
      BY <2>1, <2>3 DEF Pinned
    <3>3. \A w \in Writers : writer'[w].obj # blocks[victim]
      BY <2>1, <2>2 DEF Pinned
    <3> QED
      BY <3>1, <3>2, <3>3 DEF Alive
  <2>6. PassesOn
    BY <2>2, <2>3, <2>4 DEF PassesOn, Staging
  <2> QED
    BY <2>2, <2>3, <2>4, <2>5, <2>6 DEF Drops, Types
<1> QED
  BY <1>5, <1>6, <1>7, <1>8, <1>9, <1>10 DEF PartSteps

LEMMA WriterDrops ==
    ASSUME Types, Shape, Types', Shape', Keyed,
           NEW w \in Writers, NEW ok \in BOOLEAN, WriterEnds(w, ok)
    PROVE  Drops
<1> DEFINE f == writer[w].for
           nf == IF ok THEN files \cup {writer[w].key} ELSE files
<1>1. WritersHold /\ w \in Staging /\ UNCHANGED <<blocks, dropped>>
  BY DEF Shape, WriterEnds
<1>2. /\ writer'[w] = NoWriter /\ (\A v \in Writers \ {w} : writer'[v] = writer[v])
      /\ writer[w].key \in Keys /\ (f = Nobody => part' = part)
      /\ f # Nobody => f \in Parts /\ Becomes(f, IF ok THEN "file" ELSE "failed",
                                             IF ok THEN part[f].obj ELSE NoBlock)
  BY <1>1, WriterEffect
<1>3. writer[w].obj \in Alive /\ objects[writer[w].obj].key = writer[w].key
  BY <1>1, Referenced DEF Keyed
<1>4. PICK newObjects \in [Objects -> Object] :
               /\ Settle(nf, newObjects)
               /\ \A o \in Objects :
                     /\ newObjects[o].key = objects[o].key
                     /\ newObjects[o].ready <=>
                           objects[o].ready \/ (ok /\ f # Nobody /\ o = writer[w].obj)
  <2>1. Readied(w, ok)
    BY <1>1, WriterEffect
  <2> QED
    BY <2>1 DEF Readied
<1>5. \A g \in Parts : part'[g].obj # NoBlock => part'[g].key = part[g].key /\ part'[g].obj = part[g].obj
  BY <1>2 DEF Becomes
<1>6. Staging' = Staging \ {w}
  BY <1>2, Basics DEF Staging
<1>7. PassesOn
  BY <1>1, <1>2, <1>5, <1>6 DEF PassesOn, Staging
<1>8. \A g \in Parts : part'[g].pc = "file" => part[g].pc = "file" \/ newObjects[part'[g].obj].ready
  <2> SUFFICES ASSUME NEW g \in Parts, part'[g].pc = "file", part[g].pc # "file"
               PROVE  newObjects[part'[g].obj].ready
    OBVIOUS
  <2>1. f # Nobody /\ g = f /\ ok /\ part'[g].obj = part[f].obj
    BY <1>2 DEF Becomes
  <2>2. part[f].obj = writer[w].obj
    BY <1>1, <2>1 DEF WritersHold
  <2>3. writer[w].obj \in Objects
    BY <1>3, AliveIsTyped
  <2> QED
    BY <1>4, <2>1, <2>2, <2>3
<1>9. nf \in SUBSET Keys /\ files \subseteq nf /\ nf \subseteq files \cup LiveKeys
  BY <1>2, <1>3 DEF Types, LiveKeys
<1>10. \A o \in Objects :
          /\ objects[o].ready => newObjects[o].ready
          /\ newObjects[o].ready => objects[o].ready \/ objects[o].key \in nf
  BY <1>3, <1>4
<1> HIDE DEF nf
<1> QED
  BY <1>1, <1>4, <1>7, <1>8, <1>9, <1>10 DEF Drops

LEMMA StepKinds ==
    ASSUME Types, Shape, Types', Shape', Keyed, [Next]_vars
    PROVE  Keeps \/ Drops \/ \E f \in Parts : Adds(f)
<1>1. CASE cancel \/ UNCHANGED vars
  BY <1>1 DEF cancel, vars, Keeps, PassesOn, Alive, Staging
<1>2. CASE CacheIsDropped
  <2>1. /\ \A k \in Keys : blocks'[k] = NoBlock
        /\ UNCHANGED <<part, writer>> /\ dropped' /\ Settle(files, objects)
    BY <1>2 DEF CacheIsDropped
  <2>2. PassesOn
    BY <2>1 DEF PassesOn, Staging
  <2> QED
    BY <2>1, <2>2 DEF Drops, Types
<1>3. ASSUME NEW r \in Readers, ReadSteps(r)
      PROVE  Keeps \/ Drops
  <2>1. CASE ReadBegins(r)
    BY <2>1 DEF ReadBegins, Keeps, PassesOn, Alive, Staging
  <2>2. CASE PartStarts(r)
    <3>1. UNCHANGED <<blocks, objects, files, directory, dropped, writer>>
      BY <2>2 DEF PartStarts
    <3>2. \A f \in Parts : /\ part'[f].obj = part[f].obj
                           /\ part[f].obj # NoBlock => part'[f] = part[f]
                           /\ part'[f].pc = "file" => part[f].pc = "file"
      BY <2>2, StartEffect
    <3> QED
      BY <3>1, <3>2 DEF Keeps, PassesOn, Alive, Staging
  <2>3. CASE Leaves(r)
    <3>1. UNCHANGED <<blocks, dropped>> /\ Settle(files, objects)
      BY <2>3 DEF Leaves
    <3>2. \A f \in Parts : part'[f] \in {part[f], NoPart}
      BY <2>3, LeavesEffect
    <3>3. \A w \in Writers : writer'[w].obj = writer[w].obj /\ writer'[w].key = writer[w].key
      BY <2>3, LeavesEffect
    <3>4. PassesOn
      BY <3>1, <3>2, <3>3, Basics DEF PassesOn, Staging
    <3>5. \A f \in Parts : part'[f].pc = "file" => part[f].pc = "file"
      BY <3>2, Basics
    <3> QED
      BY <3>1, <3>4, <3>5 DEF Drops, Types
  <2> QED
    BY <1>3, <2>1, <2>2, <2>3 DEF ReadSteps, ReadReturns, ReadFails, ReadIsDropped, ReadIsCancelled
<1> QED
  BY <1>1, <1>2, <1>3, WriterDrops, PartStepKinds DEF Next

ObjectsInv == Keyed /\ OnlyInMap /\ OneEach /\ FilesLive /\ ReadyOnDisk /\ ReadsReady

LEMMA LiveKeysAreKeys ==
    ASSUME Types, Shape, Keyed
    PROVE  LiveKeys \subseteq Keys
<1> SUFFICES ASSUME NEW o \in Alive PROVE objects[o].key \in Keys
  BY DEF LiveKeys
<1>1. \A f \in Parts : part[f].obj # NoBlock => part[f].key \in Keys
  BY DEF Shape, PartsHold, Holding
<1>2. \A w \in Staging : writer[w].key \in Keys
  BY DEF Staging, Types, Writer
<1>3. o # NoBlock
  BY DEF Alive
<1> QED
  BY <1>1, <1>2, <1>3, Referenced DEF Keyed

LEMMA PassingOn ==
    ASSUME Types, Shape, Types', Shape', Keyed, PassesOn,
           \A o \in Alive' : objects'[o].key = objects[o].key
    PROVE  Alive' \subseteq Alive /\ Keyed'
<1>1. \A f \in Parts : part'[f].obj # NoBlock =>
          part[f].key \in Keys /\ part'[f].key = part[f].key
  BY DEF Shape, PartsHold, Holding, PassesOn
<1>2. Alive' \subseteq Alive
  <2> SUFFICES ASSUME NEW o \in Alive' PROVE o \in Alive
    OBVIOUS
  <2>1. \/ \E k \in Keys : blocks'[k] = o
        \/ \E f \in Parts : part'[f].obj = o
        \/ \E w \in Staging' : writer'[w].obj = o
    BY DEF Alive, Shape, WritersHold
  <2>2. o # NoBlock /\ Staging \subseteq Writers
    BY DEF Alive, Staging
  <2> QED
    BY <1>1, <2>1, <2>2, Referenced DEF PassesOn
<1>3. /\ \A k \in Keys : blocks'[k] # NoBlock => blocks'[k] \in Alive'
      /\ \A f \in Parts : part'[f].obj # NoBlock => part'[f].obj \in Alive'
      /\ \A w \in Staging' : writer'[w].obj \in Alive'
  BY DEF Alive, Shape, WritersHold, Staging
<1>4. \A k \in Keys : blocks'[k] # NoBlock => objects'[blocks'[k]].key = k
  BY <1>3 DEF PassesOn, Keyed
<1>5. \A f \in Parts : part'[f].obj # NoBlock => objects'[part'[f].obj].key = part'[f].key
  BY <1>1, <1>3 DEF PassesOn, Keyed
<1>6. \A w \in Staging' : objects'[writer'[w].obj].key = writer'[w].key
  BY <1>3 DEF PassesOn, Keyed
<1> QED
  BY <1>2, <1>4, <1>5, <1>6 DEF Keyed

\* Parts that read their file keep their object.
LEMMA ReadersKeep ==
    ASSUME Types, Shape, Types', Shape', ObjectsInv, PassesOn,
           NEW f \in Parts, part'[f].pc = "file", part[f].pc = "file"
    PROVE  part'[f].obj = part[f].obj /\ part[f].obj \in Alive
<1>1. part'[f].obj # NoBlock /\ part[f].obj # NoBlock /\ read[f[1]] # <<>> /\ f[1] \in Readers
  BY DEF Shape, PartsHold, Holding, Parts
<1>2. ~dropped
  BY <1>1 DEF Shape, Over
<1>3. part[f].obj \in Alive /\ objects[part[f].obj].key = part[f].key
  BY <1>1, Referenced DEF ObjectsInv, Keyed
<1> QED
  BY <1>1, <1>2, <1>3 DEF ObjectsInv, OnlyInMap, PassesOn

LEMMA KeepsObjects ==
    ASSUME Types, Shape, Types', Shape', ObjectsInv, Keeps
    PROVE  ObjectsInv' /\ Alive' = Alive
<1>1. Alive' = Alive /\ Keyed'
  BY PassingOn DEF ObjectsInv, Keeps
<1>2. OnlyInMap' /\ OneEach' /\ FilesLive' /\ ReadyOnDisk'
  BY <1>1 DEF ObjectsInv, Keeps, OnlyInMap, OneEach, FilesLive, ReadyOnDisk, LiveKeys
<1>3. ReadsReady'
  BY ReadersKeep DEF ObjectsInv, Keeps, ReadsReady
<1> QED
  BY <1>1, <1>2, <1>3 DEF ObjectsInv

LEMMA DropsObjects ==
    ASSUME Types, Shape, Types', Shape', ObjectsInv, Drops
    PROVE  ObjectsInv' /\ LiveKeys' \subseteq LiveKeys /\ Alive' \subseteq Alive
<1> PICK newFiles \in SUBSET Keys, newObjects \in [Objects -> Object] :
          /\ Settle(newFiles, newObjects)
          /\ files \subseteq newFiles /\ newFiles \subseteq files \cup LiveKeys
          /\ \A o \in Objects :
                /\ newObjects[o].key = objects[o].key
                /\ objects[o].ready => newObjects[o].ready
                /\ newObjects[o].ready => objects[o].ready \/ objects[o].key \in newFiles
          /\ \A f \in Parts : part'[f].pc = "file" =>
                part[f].pc = "file" \/ newObjects[part'[f].obj].ready
  BY DEF Drops
<1>1. \A o \in Objects \cap Alive' : objects'[o] = newObjects[o]
  BY SettleEffect
<1>2. Alive' \subseteq Objects
  BY Basics DEF Alive, Types, Part, Writer
<1>3. \A o \in Alive' : objects'[o] = newObjects[o] /\ objects'[o].key = objects[o].key
  BY <1>1, <1>2
<1>4. Alive' \subseteq Alive /\ Keyed'
  BY <1>3, PassingOn DEF ObjectsInv, Drops
<1>5. LiveKeys' \subseteq LiveKeys
  BY <1>3, <1>4 DEF LiveKeys
<1>6. OnlyInMap'
  <2> SUFFICES ASSUME ~dropped', NEW o \in Alive' PROVE blocks'[objects'[o].key] = o
    BY DEF OnlyInMap
  <2>1. ~dropped /\ o \in Alive /\ blocks[objects[o].key] = o
    BY <1>4 DEF ObjectsInv, OnlyInMap, Drops
  <2>2. objects[o].key \in Keys
    BY <2>1, LiveKeysAreKeys DEF ObjectsInv, LiveKeys
  <2> QED
    BY <1>3, <2>1, <2>2 DEF Drops
<1>7. OneEach'
  BY <1>3, <1>4 DEF ObjectsInv, OneEach
<1>8. files' = newFiles \ {objects[o].key : o \in Alive \ Alive'}
  BY DEF Settle
<1>9. FilesLive'
  <2> SUFFICES ASSUME NEW k \in files' PROVE k \in LiveKeys'
    BY DEF FilesLive
  <2>1. k \in LiveKeys
    BY <1>8 DEF ObjectsInv, FilesLive
  <2>2. PICK o \in Alive : objects[o].key = k
    BY <2>1 DEF LiveKeys
  <2>3. o \in Alive'
    BY <1>8, <2>2
  <2> QED
    BY <1>3, <2>2, <2>3 DEF LiveKeys
<1>10. ReadyOnDisk'
  <2> SUFFICES ASSUME NEW o \in Alive', objects'[o].ready PROVE objects[o].key \in files'
    BY <1>3 DEF ReadyOnDisk
  <2>1. newObjects[o].ready /\ o \in Alive /\ o \in Objects
    BY <1>2, <1>3, <1>4
  <2>2. objects[o].key \in newFiles
    BY <2>1 DEF ObjectsInv, ReadyOnDisk
  <2>3. \A p \in Alive \ Alive' : objects[p].key # objects[o].key
    BY <2>1 DEF ObjectsInv, OneEach
  <2> QED
    BY <1>8, <2>2, <2>3
<1>11. ReadsReady'
  <2> SUFFICES ASSUME NEW f \in Parts, part'[f].pc = "file" PROVE objects'[part'[f].obj].ready
    BY DEF ReadsReady
  <2>1. part'[f].obj \in Alive'
    BY DEF Shape, PartsHold, Holding, Alive
  <2>2. newObjects[part'[f].obj].ready
    <3>1. CASE part[f].pc = "file"
      <4>1. part'[f].obj = part[f].obj /\ objects[part[f].obj].ready
        BY <3>1, ReadersKeep DEF ObjectsInv, ReadsReady, Drops
      <4> QED
        BY <2>1, <1>2, <4>1
    <3> QED
      BY <3>1
  <2> QED
    BY <1>3, <2>1, <2>2
<1> QED
  BY <1>4, <1>5, <1>6, <1>7, <1>9, <1>10, <1>11 DEF ObjectsInv

LEMMA AddsObjects ==
    ASSUME Types, Shape, Types', Shape', ObjectsInv, NEW f \in Parts, Adds(f)
    PROVE  /\ ObjectsInv' /\ LiveKeys' = LiveKeys \cup {part[f].key}
           /\ Alive' # {} /\ part[f].key \notin LiveKeys /\ files' = files
<1> DEFINE key == part[f].key
<1>1. /\ key \in Keys /\ part[f].obj = NoBlock /\ blocks[key] = NoBlock
      /\ ~dropped /\ ~dropped' /\ UNCHANGED writer
  BY DEF Adds
<1>2. PICK o \in Objects :
        /\ Becomes(f, "cell", o) /\ o \notin Alive
        /\ blocks' = [blocks EXCEPT ![key] = o]
        /\ Settle(files, [objects EXCEPT ![o] = [NoObject EXCEPT !.key = key]])
        /\ o \in Alive' => objects'[o].key = key /\ ~objects'[o].ready
        /\ \A p \in Objects \cap Alive' : p # o => objects'[p] = objects[p]
  BY <1>1, InsertsEffect DEF Adds
<1>3. /\ blocks'[key] = o /\ \A k \in Keys \ {key} : blocks'[k] = blocks[k]
      /\ part'[f].obj = o /\ part'[f].key = key /\ part'[f].pc = "cell"
      /\ \A g \in Parts \ {f} : part'[g] = part[g]
      /\ o # NoBlock
  BY <1>1, <1>2, Basics DEF Becomes, Types
<1>4. Alive' = Alive \cup {o}
  BY <1>1, <1>3 DEF Alive
<1>5. /\ objects'[o].key = key /\ ~objects'[o].ready
      /\ \A p \in Alive : objects'[p] = objects[p] /\ p # o
  BY <1>2, <1>4, AliveIsTyped
<1>6. key \notin LiveKeys
  <2> SUFFICES ASSUME NEW p \in Alive, objects[p].key = key PROVE FALSE
    BY DEF LiveKeys
  <2>1. p # NoBlock
    BY DEF Alive
  <2> QED
    BY <1>1, <2>1 DEF ObjectsInv, OnlyInMap
<1>7. LiveKeys' = LiveKeys \cup {key}
  BY <1>4, <1>5 DEF LiveKeys
<1>8. files' = files
  BY <1>2, <1>4 DEF Settle
<1>9. Keyed'
  <2>1. \A k \in Keys : blocks'[k] # NoBlock => objects'[blocks'[k]].key = k
    BY <1>1, <1>3, <1>5, Referenced DEF ObjectsInv, Keyed
  <2>2. \A g \in Parts : part'[g].obj # NoBlock => objects'[part'[g].obj].key = part'[g].key
    BY <1>1, <1>3, <1>5, Referenced DEF ObjectsInv, Keyed
  <2>3. \A w \in Staging' : objects'[writer'[w].obj].key = writer'[w].key
    BY <1>1, <1>3, <1>5, Referenced DEF ObjectsInv, Keyed, Staging
  <2> QED
    BY <2>1, <2>2, <2>3 DEF Keyed
<1>10. OnlyInMap'
  <2> SUFFICES ASSUME NEW p \in Alive' PROVE blocks'[objects'[p].key] = p
    BY DEF OnlyInMap
  <2>1. CASE p = o
    BY <1>3, <1>5, <2>1
  <2>2. CASE p \in Alive
    <3>1. objects'[p].key \in LiveKeys /\ objects'[p].key \in Keys /\ blocks[objects'[p].key] = p
      BY <1>1, <1>5, <2>2, LiveKeysAreKeys DEF LiveKeys, ObjectsInv, OnlyInMap
    <3> QED
      BY <1>3, <1>6, <3>1
  <2> QED
    BY <1>4, <2>1, <2>2
<1>11. OneEach'
  BY <1>4, <1>5, <1>6 DEF ObjectsInv, OneEach, LiveKeys
<1>12. FilesLive'
  BY <1>7, <1>8 DEF ObjectsInv, FilesLive
<1>13. ReadyOnDisk'
  BY <1>4, <1>5, <1>8 DEF ObjectsInv, ReadyOnDisk
<1>14. ReadsReady'
  <2> SUFFICES ASSUME NEW g \in Parts, part'[g].pc = "file" PROVE objects'[part'[g].obj].ready
    BY DEF ReadsReady
  <2>1. part'[g] = part[g] /\ part[g].obj # NoBlock
    BY <1>3 DEF Shape, PartsHold, Holding
  <2>2. part[g].obj \in Alive
    BY <2>1, Referenced
  <2> QED
    BY <1>5, <2>1, <2>2 DEF ObjectsInv, ReadsReady
<1> QED
  BY <1>4, <1>6, <1>7, <1>8, <1>9, <1>10, <1>11, <1>12, <1>13, <1>14 DEF ObjectsInv

LEMMA ObjectsStep ==
    ASSUME Types, Shape, Types', Shape', ObjectsInv, [Next]_vars
    PROVE  ObjectsInv'
BY StepKinds, KeepsObjects, DropsObjects, AddsObjects DEF ObjectsInv

\* When nothing refers to an object of a dropped cache any more, everything is
\* removed.
LEMMA RemovedStep ==
    ASSUME Types, Shape, Types', Shape', ObjectsInv, ObjectsInv', Removed, [Next]_vars
    PROVE  Removed'
<1>1. Alive' = {} => files' = {} /\ Staging' = {}
  <2>1. files' \subseteq LiveKeys'
    BY DEF ObjectsInv, FilesLive
  <2>2. \A w \in Staging' : w \in Writers /\ writer'[w].obj # NoBlock
    BY DEF Shape, WritersHold, Staging
  <2>3. \A w \in Writers : writer'[w].obj # NoBlock => writer'[w].obj \in Alive'
    BY DEF Alive
  <2>4. Alive' = {} => LiveKeys' = {}
    BY DEF LiveKeys
  <2> QED
    BY <2>1, <2>2, <2>3, <2>4
<1>2. CASE Keeps
  BY <1>2, KeepsObjects DEF Keeps, Removed, Gone
<1>3. CASE \E f \in Parts : Adds(f)
  BY <1>3, AddsObjects DEF Removed, Gone
<1>4. CASE Drops
  <2> SUFFICES ASSUME Gone' PROVE ~directory'
    BY <1>1 DEF Removed, Gone
  <2>1. directory' = (directory /\ ~(~Gone /\ Gone' /\ files' = {} /\ Staging' = {}))
    BY <1>4 DEF Drops, Settle
  <2>2. files' = {} /\ Staging' = {}
    BY <1>1 DEF Gone
  <2> QED
    BY <2>1, <2>2 DEF Removed
<1> QED
  BY <1>2, <1>3, <1>4, StepKinds DEF ObjectsInv

-----------------------------------------------------------------------------
(* The capacity and the permits.                                           *)

LEMMA LiveKeysAreFinite ==
    ASSUME Types, Shape, Keyed
    PROVE  /\ IsFiniteSet(LiveKeys) /\ Cardinality(LiveKeys) \in Nat
           /\ \A S \in SUBSET LiveKeys : IsFiniteSet(S) /\ Cardinality(S) \in Nat
                                         /\ Cardinality(S) =< Cardinality(LiveKeys)
<1>1. LiveKeys \in SUBSET Keys /\ IsFiniteSet(Keys)
  BY LiveKeysAreKeys, SongCacheAssumption
<1>2. IsFiniteSet(LiveKeys)
  BY <1>1, FS_Subset
<1> QED
  BY <1>2, FS_Subset, FS_CardinalityType

\* Where the map is changed, the objects in it are all there are.
LEMMA UsedAreLive ==
    ASSUME Types, Shape, ObjectsInv, ~dropped
    PROVE  {k \in Keys : blocks[k] # NoBlock} = LiveKeys
<1>1. \A k \in Keys : blocks[k] # NoBlock => k \in LiveKeys
  BY Referenced DEF ObjectsInv, Keyed, LiveKeys
<1>2. ASSUME NEW o \in Alive PROVE objects[o].key \in Keys /\ blocks[objects[o].key] # NoBlock
  BY LiveKeysAreKeys, Referenced DEF ObjectsInv, OnlyInMap, LiveKeys
<1> QED
  BY <1>1, <1>2 DEF LiveKeys

\* A step that does not evict takes no mutex.
LEMMA MutexStep ==
    ASSUME Types, Shape, [Next]_vars, lock'.by # Nobody
    PROVE  \/ lock' = lock
           \/ \E f \in Parts : Evicts(f) /\ part[f].pc = "map"
<1>1. CASE cancel \/ UNCHANGED vars \/ CacheIsDropped
  BY <1>1 DEF cancel, vars, CacheIsDropped
<1>2. ASSUME NEW r \in Readers, ReadSteps(r) PROVE lock' = lock
  <2>1. Free.by = Nobody
    BY Basics
  <2> QED
    BY <1>2, <2>1 DEF ReadSteps, ReadBegins, PartStarts, ReadReturns, ReadFails, ReadIsDropped,
       ReadIsCancelled, Leaves
<1>3. ASSUME NEW f \in Parts, PartSteps(f)
      PROVE  lock' = lock \/ (Evicts(f) /\ part[f].pc = "map")
  BY <1>3, Basics DEF PartSteps, FindsBlock, Evicts, Missing, ReplacesVictim, IsRefused, CellIsFilled,
     EntersCell, GetsPermit, FetchSucceeds, FetchFails, ReadsFile, FileIsUnreadable
<1>4. ASSUME NEW w \in Writers, NEW ok \in BOOLEAN, WriterEnds(w, ok) PROVE lock' = lock
  BY <1>4 DEF WriterEnds
<1> QED
  BY <1>1, <1>2, <1>3, <1>4 DEF Next

\* An eviction makes room for one block.
LEMMA EvictionMakesRoom ==
    ASSUME Types, Shape, Types', Shape', ObjectsInv, Capacity, NEW f \in Parts, Evicts(f)
    PROVE  Cardinality(LiveKeys') < block_limit
<1>1. PICK victim \in Keys : /\ blocks[victim] # NoBlock /\ ~Pinned(blocks[victim])
                             /\ blocks' = [blocks EXCEPT ![victim] = NoBlock]
  BY DEF Evicts
<1>2. victim \in LiveKeys /\ objects[blocks[victim]].key = victim /\ blocks[victim] \in Alive
  BY <1>1, Referenced DEF ObjectsInv, Keyed, LiveKeys
<1>3. Drops
  <2>1. ~Keeps
    <3>1. blocks' # blocks
      BY <1>1 DEF Types
    <3> QED
      BY <3>1 DEF Keeps
  <2>2. ~Adds(f)
    <3>1. lock'.by = f /\ f # Nobody
      BY Basics DEF Evicts
    <3> QED
      BY <3>1 DEF Adds
  <2> QED
    BY <2>1, <2>2, PartStepKinds DEF ObjectsInv, PartSteps
<1>4. Alive' \subseteq Alive /\ LiveKeys' \subseteq LiveKeys /\ ObjectsInv'
  BY <1>3, DropsObjects
<1>5. UNCHANGED <<dropped, writer>> /\ part[f].pc = "map"
  BY DEF Evicts, Missing
<1>6. ~dropped
  BY <1>5 DEF Shape, PartsHold, Over, Parts
<1>7. LiveKeys' = {k \in Keys : blocks'[k] # NoBlock} /\ LiveKeys = {k \in Keys : blocks[k] # NoBlock}
  <2>1. LiveKeys = {k \in Keys : blocks[k] # NoBlock}
    BY <1>6, UsedAreLive
  <2>2. ~dropped'
    BY <1>5, <1>6
  <2>3. \A k \in Keys : blocks'[k] # NoBlock => k \in LiveKeys'
    BY <1>4 DEF ObjectsInv, Keyed, LiveKeys, Alive
  <2>4. ASSUME NEW o \in Alive' PROVE objects'[o].key \in Keys /\ blocks'[objects'[o].key] # NoBlock
    <3>1. objects'[o].key \in LiveKeys' /\ o # NoBlock
      BY DEF LiveKeys, Alive
    <3>2. objects'[o].key \in Keys
      BY <1>4, <3>1, LiveKeysAreKeys DEF ObjectsInv
    <3> QED
      BY <1>4, <2>2, <3>1, <3>2 DEF ObjectsInv, OnlyInMap
  <2> QED
    BY <2>1, <2>3, <2>4 DEF LiveKeys
<1>8. victim \notin LiveKeys'
  BY <1>1, <1>7 DEF Types
<1>9. LiveKeys' \in SUBSET (LiveKeys \ {victim})
  BY <1>4, <1>8
<1>10. /\ IsFiniteSet(LiveKeys \ {victim})
       /\ Cardinality(LiveKeys \ {victim}) = Cardinality(LiveKeys) - 1
       /\ Cardinality(LiveKeys) \in Nat
  BY <1>2, LiveKeysAreFinite, FS_RemoveElement DEF ObjectsInv
<1>11. Cardinality(LiveKeys') =< Cardinality(LiveKeys) - 1 /\ Cardinality(LiveKeys') \in Nat
  BY <1>9, <1>10, FS_Subset, FS_CardinalityType
<1> QED
  BY <1>10, <1>11, SongCacheAssumption DEF Capacity

\* A new object finds room, its own part's eviction included.
LEMMA RoomToAdd ==
    ASSUME Types, Shape, ObjectsInv, Capacity, NEW f \in Parts, Adds(f)
    PROVE  Cardinality(LiveKeys) < block_limit
<1>1. CASE lock.by = f
  BY <1>1, Basics DEF Capacity
<1>2. CASE HasRoom
  BY <1>2, UsedAreLive DEF HasRoom, Adds
<1> QED
  BY <1>1, <1>2 DEF Adds

LEMMA CapacityStep ==
    ASSUME Types, Shape, Types', Shape', ObjectsInv, ObjectsInv', Capacity, [Next]_vars
    PROVE  Capacity'
<1>1. block_limit \in Nat
  BY SongCacheAssumption
<1>2. CASE \E f \in Parts : Adds(f)
  <2>1. PICK f \in Parts : Adds(f)
    BY <1>2
  <2>2. /\ LiveKeys' = LiveKeys \cup {part[f].key} /\ part[f].key \notin LiveKeys
        /\ lock'.by = Nobody
    BY <2>1, AddsObjects DEF Adds
  <2>3. Cardinality(LiveKeys') = Cardinality(LiveKeys) + 1 /\ Cardinality(LiveKeys) \in Nat
    BY <2>2, LiveKeysAreFinite, FS_AddElement DEF ObjectsInv
  <2>4. Cardinality(LiveKeys) < block_limit
    BY <2>1, RoomToAdd
  <2> QED
    BY <1>1, <2>2, <2>3, <2>4 DEF Capacity
<1>3. CASE Keeps \/ Drops
  <2>1. LiveKeys' \in SUBSET LiveKeys
    <3>1. CASE Keeps
      BY <3>1, KeepsObjects DEF Keeps, LiveKeys
    <3>2. CASE Drops
      BY <3>2, DropsObjects
    <3> QED
      BY <1>3, <3>1, <3>2
  <2>2. /\ Cardinality(LiveKeys') \in Nat /\ Cardinality(LiveKeys) \in Nat
        /\ Cardinality(LiveKeys') =< Cardinality(LiveKeys)
    BY <2>1, LiveKeysAreFinite DEF ObjectsInv
  <2>3. Cardinality(LiveKeys') =< block_limit
    BY <1>1, <2>2 DEF Capacity
  <2>4. lock'.by # Nobody => Cardinality(LiveKeys') < block_limit
    BY <1>1, <2>2, MutexStep, EvictionMakesRoom DEF Capacity
  <2> QED
    BY <2>3, <2>4 DEF Capacity
<1> QED
  BY <1>2, <1>3, StepKinds DEF ObjectsInv

\* What the permits count.
LEMMA Counted ==
    ASSUME Types
    PROVE  /\ \A S \in SUBSET Parts : IsFiniteSet(S) /\ Cardinality(S) \in Nat
           /\ \A S \in SUBSET Writers : IsFiniteSet(S) /\ Cardinality(S) \in Nat
           /\ Fetching \in SUBSET Parts /\ Staging \in SUBSET Writers /\ permits \in Nat
           /\ Cardinality(Fetching) \in Nat /\ Cardinality(Staging) \in Nat
           /\ IsFiniteSet(Fetching) /\ IsFiniteSet(Staging)
<1>1. IsFiniteSet(Parts) /\ IsFiniteSet(Writers)
  BY FinitelyMany
<1>2. \A S \in SUBSET Parts : IsFiniteSet(S) /\ Cardinality(S) \in Nat
  BY <1>1, FS_Subset, FS_CardinalityType
<1>3. \A S \in SUBSET Writers : IsFiniteSet(S) /\ Cardinality(S) \in Nat
  BY <1>1, FS_Subset, FS_CardinalityType
<1>4. Fetching \in SUBSET Parts /\ Staging \in SUBSET Writers /\ permits \in Nat
  BY DEF Fetching, Staging, Types
<1> QED
  BY <1>2, <1>3, <1>4

LEMMA PermitsOfPart ==
    ASSUME Types, Shape, Permits, NEW f \in Parts, PartSteps(f)
    PROVE  Permits'
<1>1. PARALLEL \in Nat
  BY SongCacheAssumption
<1>2. ASSUME NEW pc, NEW o, Becomes(f, pc, o)
      PROVE  Fetching' = IF pc = "fetch" THEN Fetching \cup {f} ELSE Fetching \ {f}
  BY <1>2 DEF Becomes, Fetching
<1>3. CASE FindsBlock(f) \/ Evicts(f) \/ ReplacesVictim(f) \/ IsRefused(f) \/ CellIsFilled(f)
           \/ EntersCell(f) \/ ReadsFile(f) \/ FileIsUnreadable(f)
  <2>1. /\ part[f].pc # "fetch" /\ UNCHANGED <<permits, writer>>
        /\ part[f].pc # "idle"
    BY <1>3 DEF FindsBlock, Evicts, Missing, ReplacesVictim, IsRefused, CellIsFilled, EntersCell,
       ReadsFile, FileIsUnreadable
  <2>2. PICK pc \in PartPCs, o \in Objects \cup {NoBlock} : Becomes(f, pc, o) /\ pc # "fetch"
    <3>1. part[f].key \in Keys /\ part[f].obj \in Objects \cup {NoBlock}
      BY <2>1 DEF Shape, PartsHold, Types, Part
    <3>2. ASSUME Inserts(f) PROVE \E o \in Objects : Becomes(f, "cell", o)
      BY <3>1, <3>2, InsertsEffect
    <3>3. CASE FindsBlock(f)
      <4>1. CASE blocks[part[f].key] # NoBlock
        <5>1. "cell" \in PartPCs /\ blocks[part[f].key] \in Objects \cup {NoBlock}
          BY <3>1 DEF PartPCs, Types
        <5>2. part' = [part EXCEPT ![f].pc = "cell", ![f].obj = blocks[part[f].key]]
          BY <3>3, <4>1 DEF FindsBlock, Refers
        <5>3. Becomes(f, "cell", blocks[part[f].key])
          BY <5>1, <5>2, BecomesEffect
        <5> QED
          BY <5>1, <5>3
      <4> QED
        BY <3>2, <3>3, <4>1 DEF FindsBlock, PartPCs
    <3>4. CASE ReplacesVictim(f)
      BY <3>2, <3>4 DEF ReplacesVictim, PartPCs
    <3>5. CASE Evicts(f) \/ IsRefused(f) \/ CellIsFilled(f) \/ EntersCell(f)
      <4>1. \E pc \in {"evict", "refused", "file", "permit"} : Goes(f, pc)
        BY <3>5 DEF Evicts, IsRefused, CellIsFilled, EntersCell
      <4> QED
        BY ZenonT(60), <3>1, <4>1, BecomesEffect DEF PartPCs
    <3>6. CASE ReadsFile(f) \/ FileIsUnreadable(f)
      BY <3>6, BecomesEffect DEF ReadsFile, FileIsUnreadable, Fails, PartPCs
    <3> QED
      BY <1>3, <3>3, <3>4, <3>5, <3>6
  <2>3. Fetching' = Fetching
    BY <1>2, <2>1, <2>2 DEF Fetching
  <2>4. Staging' = Staging
    BY <2>1 DEF Staging
  <2> QED
    BY <2>1, <2>3, <2>4 DEF Permits
<1>4. CASE GetsPermit(f)
  <2>1. Fetching' = Fetching \cup {f} /\ f \notin Fetching /\ Staging' = Staging
    BY <1>2, <1>4, BecomesEffect DEF GetsPermit, PartPCs, Fetching, Staging
  <2>2. Cardinality(Fetching') = Cardinality(Fetching) + 1
    BY <2>1, Counted, FS_AddElement
  <2> QED
    BY <1>1, <1>4, <2>1, <2>2, Counted DEF GetsPermit, Permits
<1>5. CASE FetchSucceeds(f)
  <2>1. Fetching' = Fetching \ {f} /\ f \in Fetching
    <3>1. Becomes(f, "write", part[f].obj) /\ part[f].pc = "fetch"
      BY <1>5, BecomesEffect DEF FetchSucceeds, PartPCs
    <3> QED
      BY <1>2, <3>1 DEF Fetching
  <2>2. PICK w \in Writers \ Staging :
          writer' = [writer EXCEPT ![w] = [key |-> part[f].key, obj |-> part[f].obj,
                                           for |-> f, permit |-> TRUE]]
    BY <1>5 DEF FetchSucceeds
  <2>3. part[f].key # NoKey
    BY <1>5, SongCacheAssumption DEF FetchSucceeds, Shape, PartsHold
  <2>4. Staging' = Staging \cup {w}
    BY <2>2, <2>3 DEF Staging, Types
  <2>5. /\ Cardinality(Fetching') = Cardinality(Fetching) - 1
        /\ Cardinality(Staging') = Cardinality(Staging) + 1
    BY <2>1, <2>2, <2>4, Counted, FS_AddElement, FS_RemoveElement
  <2> QED
    BY <1>1, <1>5, <2>5, Counted DEF FetchSucceeds, Permits
<1>6. CASE FetchFails(f)
  <2>1. Fetching' = Fetching \ {f} /\ f \in Fetching /\ Staging' = Staging
    <3>1. Becomes(f, "failed", NoBlock) /\ part[f].pc = "fetch" /\ UNCHANGED writer
      BY <1>6, BecomesEffect DEF FetchFails, Fails, PartPCs
    <3> QED
      BY <1>2, <3>1 DEF Fetching, Staging
  <2>2. Cardinality(Fetching') = Cardinality(Fetching) - 1
    BY <2>1, Counted, FS_RemoveElement
  <2> QED
    BY <1>1, <1>6, <2>1, <2>2, Counted DEF FetchFails, Permits
<1> QED
  BY <1>3, <1>4, <1>5, <1>6 DEF PartSteps

LEMMA PermitsStep ==
    ASSUME Types, Shape, Permits, [Next]_vars
    PROVE  Permits'
<1>1. PARALLEL \in Nat
  BY SongCacheAssumption
<1>2. CASE cancel \/ UNCHANGED vars \/ CacheIsDropped
  BY <1>2 DEF cancel, vars, CacheIsDropped, Permits, Fetching, Staging
<1>3. ASSUME NEW r \in Readers, ReadSteps(r) PROVE Permits'
  <2>1. CASE ReadBegins(r)
    BY <2>1 DEF ReadBegins, Permits, Fetching, Staging
  <2>2. CASE PartStarts(r)
    <3>1. \A f \in Parts : part'[f].pc = "fetch" <=> part[f].pc = "fetch"
      BY <2>2, StartEffect
    <3>2. UNCHANGED <<permits, writer>>
      BY <2>2 DEF PartStarts
    <3> QED
      BY <3>1, <3>2 DEF Permits, Fetching, Staging
  <2>3. CASE Leaves(r)
    <3> DEFINE Released == {f \in PartsOf(r) : part[f].pc = "fetch"}
    <3>1. Released = Fetching \cap Released /\ Released \in SUBSET Parts
      BY Basics DEF Fetching
    <3>2. Fetching' = Fetching \ Released
      BY <2>3, LeavesEffect, Basics DEF Fetching
    <3>3. permits' = permits + Cardinality(Released)
      BY <2>3 DEF Leaves
    <3>4. Staging' = Staging
      BY <2>3, LeavesEffect DEF Staging
    <3> HIDE DEF Released
    <3>5. Cardinality(Fetching') = Cardinality(Fetching) - Cardinality(Released)
      <4>1. IsFiniteSet(Fetching)
        BY Counted
      <4>2. Cardinality(Fetching \ Released)
              = Cardinality(Fetching) - Cardinality(Fetching \cap Released)
        BY <4>1, FS_Difference
      <4> QED
        BY <3>1, <3>2, <4>2
    <3> QED
      BY <1>1, <3>1, <3>3, <3>4, <3>5, Counted DEF Permits
  <2> QED
    BY <1>3, <2>1, <2>2, <2>3 DEF ReadSteps, ReadReturns, ReadFails, ReadIsDropped, ReadIsCancelled
<1>4. ASSUME NEW w \in Writers, NEW ok \in BOOLEAN, WriterEnds(w, ok) PROVE Permits'
  <2>1. WritersHold /\ w \in Staging /\ writer[w].permit /\ permits' = permits + 1
    BY <1>4 DEF Shape, WriterEnds, WritersHold
  <2>2. Staging' = Staging \ {w}
    <3>1. writer'[w].key = NoKey /\ \A v \in Writers \ {w} : writer'[v] = writer[v]
      BY ZenonT(60), <1>4, <2>1, WriterEffect, Basics
    <3> QED
      BY <3>1 DEF Staging
  <2>3. Fetching' = Fetching
    <3>1. CASE writer[w].for = Nobody
      BY <1>4, <2>1, <3>1, WriterEffect DEF Fetching
    <3>2. CASE writer[w].for # Nobody
      <4>1. part[writer[w].for].pc = "write"
        BY <2>1, <3>2 DEF WritersHold
      <4>2. \A f \in Parts : part'[f].pc = "fetch" <=> part[f].pc = "fetch"
        BY <1>4, <2>1, <3>2, <4>1, WriterEffect DEF Becomes
      <4> QED
        BY <4>2 DEF Fetching
    <3> QED
      BY <3>1, <3>2
  <2>4. Cardinality(Staging') = Cardinality(Staging) - 1
    BY <2>1, <2>2, Counted, FS_RemoveElement
  <2> QED
    BY <1>1, <2>1, <2>3, <2>4, Counted DEF Permits
<1> QED
  BY <1>2, <1>3, <1>4, PermitsOfPart DEF Next

-----------------------------------------------------------------------------
(* The width of a read.                                                    *)

LEMMA RangeLength ==
    ASSUME NEW range \in Ranges \cup {<<>>}
    PROVE  Len(range) \in 0 .. MaxSpan
<1>1. MaxSpan \in Nat
  BY SongCacheAssumption
<1>2. CASE range = <<>>
  BY <1>1, <1>2
<1>3. CASE range \in Ranges
  <2>1. PICK n \in 1 .. MaxSpan : range \in [1 .. n -> Keys]
    BY <1>3 DEF Ranges
  <2> QED
    BY <1>1, <2>1, LenProperties
<1> QED
  BY <1>2, <1>3

\* A step of a part moves that part only.
LEMMA PartMoves ==
    ASSUME Types, Shape, NEW f \in Parts, PartSteps(f)
    PROVE  /\ read' = read /\ part[f].pc \notin {"idle", "done"}
           /\ \A g \in Parts \ {f} : part'[g] = part[g]
           /\ part[f].pc = "map" /\ part'[f].pc = "refused" => IsRefused(f)
<1>1. part \in [Parts -> Part]
  BY DEF Types
<1>2. /\ read' = read /\ part[f].pc \notin {"idle", "done"}
  BY DEF PartSteps, FindsBlock, Evicts, ReplacesVictim, IsRefused, Missing, CellIsFilled, EntersCell,
     GetsPermit, FetchSucceeds, FetchFails, ReadsFile, FileIsUnreadable
<1>3. ASSUME NEW pc, Goes(f, pc)
      PROVE  (\A g \in Parts \ {f} : part'[g] = part[g]) /\ part'[f].pc = pc
  BY <1>1, <1>3 DEF Goes, Part
<1>4. ASSUME NEW pc, NEW o, part' = [part EXCEPT ![f].pc = pc, ![f].obj = o]
      PROVE  (\A g \in Parts \ {f} : part'[g] = part[g]) /\ part'[f].pc = pc
  BY <1>1, <1>4 DEF Part
<1>5. CASE FindsBlock(f) \/ ReplacesVictim(f)
  <2>1. PICK o : part' = [part EXCEPT ![f].pc = "cell", ![f].obj = o]
    BY <1>5 DEF FindsBlock, ReplacesVictim, Inserts, Refers
  <2>2. (\A g \in Parts \ {f} : part'[g] = part[g]) /\ part'[f].pc = "cell"
    BY <1>4, <2>1
  <2> QED
    BY <1>2, <2>2
<1>6. CASE Evicts(f) \/ CellIsFilled(f) \/ EntersCell(f) \/ GetsPermit(f) \/ FetchSucceeds(f)
  <2>1. \E pc \in {"evict", "file", "permit", "fetch", "write"} : Goes(f, pc)
    BY <1>6 DEF Evicts, CellIsFilled, EntersCell, GetsPermit, FetchSucceeds
  <2> QED
    BY <1>2, <1>3, <2>1
<1>7. CASE FetchFails(f) \/ ReadsFile(f) \/ FileIsUnreadable(f)
  <2>1. \E pc \in {"failed", "done"} : part' = [part EXCEPT ![f].pc = pc, ![f].obj = NoBlock]
    BY <1>7 DEF FetchFails, ReadsFile, FileIsUnreadable, Fails
  <2> QED
    BY <1>2, <1>4, <2>1
<1>8. CASE IsRefused(f)
  BY <1>2, <1>3, <1>8 DEF IsRefused
<1> QED
  BY <1>5, <1>6, <1>7, <1>8 DEF PartSteps

\* When at most n parts are started after a step, and m or more are handed on, the
\* read is at most n - m parts wide.
LEMMA Grows ==
    ASSUME Types, Types', NEW r \in Readers, NEW n \in Nat, NEW m \in Nat,
           \A i \in 1 .. MaxSpan : part'[<<r, i>>].pc # "idle" => i =< n,
           m = 0 \/ /\ m = Yielded(r) /\ read'[r] = read[r]
                    /\ \A i \in 1 .. MaxSpan :
                          part[<<r, i>>].pc = "done" => part'[<<r, i>>].pc = "done",
           n - m =< AtOnce
    PROVE  Started(r)' - Yielded(r)' =< AtOnce
<1> DEFINE S == {i \in 1 .. Len(read'[r]) : part'[<<r, i>>].pc # "idle"}
           Y == {i \in 1 .. Len(read[r]) : \A j \in 1 .. i : part[<<r, j>>].pc = "done"}
           Z == {i \in 1 .. Len(read'[r]) : \A j \in 1 .. i : part'[<<r, j>>].pc = "done"}
<1>1. Len(read[r]) \in 0 .. MaxSpan /\ Len(read'[r]) \in 0 .. MaxSpan /\ MaxSpan \in Nat
  BY RangeLength, SongCacheAssumption DEF Types
<1>2. \A k \in Nat : IsFiniteSet(1 .. k) /\ Cardinality(1 .. k) = k
  BY FS_Interval
<1>3. S \subseteq 1 .. n
  BY <1>1
<1>4. Cardinality(S) \in Nat /\ Cardinality(S) =< n
  <2>1. IsFiniteSet(1 .. n) /\ Cardinality(1 .. n) = n /\ S \in SUBSET (1 .. n)
    BY <1>2, <1>3
  <2> HIDE DEF S
  <2> QED
    BY ZenonT(60), <2>1, FS_Subset, FS_CardinalityType
<1>5. IsFiniteSet(Z) /\ Cardinality(Z) \in Nat
  <2>1. IsFiniteSet(1 .. Len(read'[r])) /\ Z \in SUBSET (1 .. Len(read'[r]))
    BY <1>1, <1>2
  <2> HIDE DEF Z
  <2> QED
    BY <2>1, FS_Subset, FS_CardinalityType
<1>6. m =< Cardinality(Z)
  <2>1. CASE m = 0
    BY <1>5, <2>1
  <2>2. CASE m # 0
    <3>1. Y \in SUBSET Z /\ m = Cardinality(Y)
      BY <1>1, <2>2 DEF Yielded
    <3> HIDE DEF Y, Z
    <3> QED
      BY <1>5, <3>1, FS_Subset
  <2> QED
    BY <2>1, <2>2
<1>7. Started(r)' = Cardinality(S) /\ Yielded(r)' = Cardinality(Z)
  BY DEF Started, Yielded
<1>8. AtOnce \in Nat
  BY SongCacheAssumption DEF AtOnce
<1> HIDE DEF S, Y, Z
<1> QED
  BY <1>4, <1>5, <1>6, <1>7, <1>8

\* A part handed on stays so while its read goes on, and parts start nowhere else
\* than in PartStarts.
LEMMA PartsProgress ==
    ASSUME Types, Shape, [Next]_vars, NEW r \in Readers, read[r] # <<>>
    PROVE  \/ read'[r] = <<>>
           \/ /\ read'[r] = read[r]
              /\ \A i \in 1 .. MaxSpan :
                    part[<<r, i>>].pc = "done" => part'[<<r, i>>].pc = "done"
              /\ \/ PartStarts(r)
                 \/ \A i \in 1 .. MaxSpan :
                       part'[<<r, i>>].pc # "idle" => part[<<r, i>>].pc # "idle"
<1>1. \A i \in 1 .. MaxSpan : <<r, i>> \in Parts
  BY DEF Parts
<1>2. CASE cancel \/ UNCHANGED vars \/ CacheIsDropped
  BY <1>2 DEF cancel, vars, CacheIsDropped
<1>3. ASSUME NEW q \in Readers, ReadBegins(q)
      PROVE  read'[r] = read[r] /\ part' = part
  BY <1>3 DEF ReadBegins, Types
<1>4. ASSUME NEW q \in Readers, PartStarts(q)
      PROVE  /\ read'[r] = read[r]
             /\ \A g \in Parts : part[g].pc = "done" => part'[g].pc = "done"
             /\ q # r => \A i \in 1 .. MaxSpan : part'[<<r, i>>] = part[<<r, i>>]
  <2>1. PICK f \in Parts : /\ f = <<q, Started(q) + 1>> /\ part[f].pc = "idle"
                           /\ \A g \in Parts \ {f} : part'[g] = part[g]
    BY <1>4, StartEffect
  <2>2. q # r => \A i \in 1 .. MaxSpan : <<r, i>> # f
    BY <2>1
  <2> QED
    BY <1>1, <1>4, <2>1, <2>2 DEF PartStarts
<1>5. ASSUME NEW q \in Readers, Leaves(q)
      PROVE  \/ read'[r] = <<>>
             \/ read'[r] = read[r] /\ \A i \in 1 .. MaxSpan : part'[<<r, i>>] = part[<<r, i>>]
  BY <1>1, <1>5, LeavesEffect
<1>6. ASSUME NEW f \in Parts, PartSteps(f)
      PROVE  /\ read' = read /\ part[f].pc \notin {"idle", "done"}
             /\ \A g \in Parts \ {f} : part'[g] = part[g]
  BY <1>6, PartMoves
<1>7. ASSUME NEW w \in Writers, NEW ok \in BOOLEAN, WriterEnds(w, ok)
      PROVE  /\ read' = read
             /\ \A g \in Parts : part[g].pc \in {"idle", "done"} => part'[g] = part[g]
  <2>1. WritersHold
    BY DEF Shape
  <2>2. writer[w].for # Nobody => part[writer[w].for].pc = "write"
    BY <2>1 DEF WritersHold
  <2> QED
    BY <1>7, <2>1, <2>2, WriterEffect DEF Becomes, WriterEnds
<1> QED
  BY <1>1, <1>2, <1>3, <1>4, <1>5, <1>6, <1>7 DEF Next, ReadSteps, ReadReturns, ReadFails,
     ReadIsDropped, ReadIsCancelled

\* No part starts in the step in which its read does.
LEMMA IdleReads ==
    ASSUME Types, Shape, [Next]_vars, NEW r \in Readers, read[r] = <<>>
    PROVE  \A i \in 1 .. MaxSpan : part'[<<r, i>>].pc = "idle"
<1>1. \A i \in 1 .. MaxSpan : <<r, i>> \in Parts /\ part[<<r, i>>].pc = "idle"
  <2>1. \A i \in 1 .. MaxSpan : <<r, i>> \in Parts
    BY DEF Parts
  <2> QED
    BY <2>1 DEF Shape, PartsHold
<1>2. CASE cancel \/ UNCHANGED vars \/ CacheIsDropped
  BY <1>1, <1>2 DEF cancel, vars, CacheIsDropped
<1>3. ASSUME NEW q \in Readers, ReadBegins(q) PROVE part' = part
  BY <1>3 DEF ReadBegins
<1>4. ASSUME NEW q \in Readers, PartStarts(q)
      PROVE  \A i \in 1 .. MaxSpan : part'[<<r, i>>] = part[<<r, i>>]
  <2>1. q # r
    <3>1. Len(read[r]) = 0 /\ Started(r) \in Nat
      BY RangeTypes
    <3> QED
      BY <1>4, <3>1 DEF PartStarts
  <2> QED
    BY <1>1, <1>4, <2>1, StartEffect
<1>5. ASSUME NEW q \in Readers, Leaves(q)
      PROVE  \A i \in 1 .. MaxSpan : part'[<<r, i>>].pc = "idle"
  BY <1>1, <1>5, LeavesEffect, Basics
<1>6. ASSUME NEW f \in Parts, PartSteps(f)
      PROVE  part[f].pc # "idle" /\ \A g \in Parts \ {f} : part'[g] = part[g]
  BY <1>6, PartMoves
<1>7. ASSUME NEW w \in Writers, NEW ok \in BOOLEAN, WriterEnds(w, ok)
      PROVE  \A g \in Parts : part[g].pc = "idle" => part'[g] = part[g]
  <2>1. WritersHold
    BY DEF Shape
  <2>2. writer[w].for # Nobody => part[writer[w].for].pc = "write"
    BY <2>1 DEF WritersHold
  <2> QED
    BY <1>7, <2>1, <2>2, WriterEffect DEF Becomes
<1> QED
  BY <1>1, <1>2, <1>3, <1>4, <1>5, <1>6, <1>7 DEF Next, ReadSteps, ReadReturns, ReadFails,
     ReadIsDropped, ReadIsCancelled

LEMMA WindowStep ==
    ASSUME Types, Shape, Types', Shape', Window, [Next]_vars
    PROVE  Window'
<1> SUFFICES ASSUME NEW r \in Readers PROVE Started(r)' - Yielded(r)' =< AtOnce
  BY SongCacheAssumption DEF Window, AtOnce
<1>1. /\ \A i \in 1 .. MaxSpan : part[<<r, i>>].pc # "idle" <=> i =< Started(r)
      /\ Started(r) \in Nat /\ Yielded(r) \in Nat
      /\ \A i \in 1 .. MaxSpan : <<r, i>> \in Parts
      /\ AtOnce \in Nat
      /\ Started(r) - Yielded(r) =< AtOnce
  BY StartedInOrder, RangeTypes, SongCacheAssumption DEF Shape, Parts, AtOnce, Window
<1>2. CASE \A i \in 1 .. MaxSpan : part'[<<r, i>>].pc = "idle"
  BY <1>1, <1>2, Grows
<1>3. CASE read[r] = <<>>
  <2>1. \A i \in 1 .. MaxSpan : part[<<r, i>>].pc = "idle"
    BY <1>1, <1>3 DEF Shape, PartsHold
  <2> QED
    BY <1>2, <1>3, <2>1, IdleReads
<1>4. CASE read'[r] = <<>>
  BY <1>1, <1>2, <1>4 DEF Shape, PartsHold
<1>5. CASE read[r] # <<>> /\ read'[r] # <<>>
  <2>1. /\ read'[r] = read[r]
        /\ \A i \in 1 .. MaxSpan : part[<<r, i>>].pc = "done" => part'[<<r, i>>].pc = "done"
    BY <1>5, PartsProgress
  <2>2. CASE PartStarts(r)
    <3>1. Started(r) - Yielded(r) < AtOnce
      BY <2>2 DEF PartStarts
    <3>2. \A i \in 1 .. MaxSpan : part'[<<r, i>>].pc # "idle" => i =< Started(r) + 1
      <4>1. \A i \in 1 .. MaxSpan : i # Started(r) + 1 => part'[<<r, i>>] = part[<<r, i>>]
        BY <1>1, <2>2, StartEffect
      <4> QED
        BY <1>1, <4>1
    <3>3. Started(r) + 1 \in Nat /\ Started(r) + 1 - Yielded(r) =< AtOnce
      BY <1>1, <3>1
    <3> QED
      BY <1>1, <2>1, <3>2, <3>3, Grows
  <2>3. CASE \A i \in 1 .. MaxSpan : part'[<<r, i>>].pc # "idle" => part[<<r, i>>].pc # "idle"
    BY <1>1, <2>1, <2>3, Grows
  <2> QED
    BY <1>5, <2>2, <2>3, PartsProgress
<1> QED
  BY <1>3, <1>4, <1>5

\* Only IsRefused refuses a part.
LEMMA RefusedOnce ==
    ASSUME Types, Shape, [Next]_vars, NEW f \in Parts,
           part[f].pc = "map", part'[f].pc = "refused"
    PROVE  IsRefused(f)
<1>1. CASE cancel \/ UNCHANGED vars \/ CacheIsDropped
  BY <1>1 DEF cancel, vars, CacheIsDropped
<1>2. ASSUME NEW q \in Readers, ReadBegins(q) PROVE part' = part
  BY <1>2 DEF ReadBegins
<1>3. ASSUME NEW q \in Readers, PartStarts(q) PROVE part'[f].pc # "refused"
  BY <1>3, StartEffect
<1>4. ASSUME NEW q \in Readers, Leaves(q) PROVE part'[f].pc # "refused"
  BY <1>4, LeavesEffect, Basics
<1>5. ASSUME NEW g \in Parts, PartSteps(g) PROVE IsRefused(f)
  BY <1>5, PartMoves
<1>6. ASSUME NEW w \in Writers, NEW ok \in BOOLEAN, WriterEnds(w, ok)
      PROVE  part'[f].pc # "refused"
  <2>1. WritersHold
    BY DEF Shape
  <2> QED
    BY <1>6, <2>1, WriterEffect DEF Becomes
<1> QED
  BY <1>1, <1>2, <1>3, <1>4, <1>5, <1>6 DEF Next, ReadSteps, ReadReturns, ReadFails,
     ReadIsDropped, ReadIsCancelled

\* Without another reader or writer, the blocks a read pins and the one it waits
\* for are no more than its width, which the cache can hold.
LEMMA OthersStep ==
    ASSUME Types, Shape, Keyed, Window, NEW f \in Parts, IsRefused(f),
           \A g \in Parts \ PartsOf(f[1]) : part[g].obj = NoBlock,
           \A w \in Staging : writer[w].for \in PartsOf(f[1])
    PROVE  FALSE
<1> DEFINE r == f[1]
           Y == {i \in 1 .. Len(read[r]) : \A j \in 1 .. i : part[<<r, j>>].pc = "done"}
           Used == {k \in Keys : blocks[k] # NoBlock}
           H == {i \in 1 .. MaxSpan : part[<<r, i>>].obj # NoBlock}
           Slot == [k \in Used |-> CHOOSE i \in H : part[<<r, i>>].obj = blocks[k]]
           s == Started(r)
           y == Yielded(r)
<1>1. /\ r \in Readers /\ f = <<r, f[2]>> /\ f[2] \in 1 .. MaxSpan
      /\ \A i \in 1 .. MaxSpan : <<r, i>> \in Parts
      /\ \A g \in Parts : g \in PartsOf(r) => g[1] = r /\ g[2] \in 1 .. MaxSpan /\ g = <<r, g[2]>>
  BY Basics DEF Parts
<1>2. /\ s \in 0 .. Len(read[r]) /\ Len(read[r]) \in 0 .. MaxSpan /\ y \in Nat
      /\ \A i \in 1 .. MaxSpan : part[<<r, i>>].pc # "idle" <=> i =< s
      /\ s - y =< AtOnce
  BY <1>1, StartedInOrder, RangeTypes DEF Shape, Window
<1>3. MaxSpan \in Nat /\ block_limit \in Nat /\ AtOnce \in Nat /\ AtOnce =< block_limit
  BY SongCacheAssumption DEF AtOnce
<1>4. Y = 1 .. y
  <2>1. Len(read[r]) \in Nat /\ Y \in SUBSET (1 .. Len(read[r])) /\ y = Cardinality(Y)
    BY <1>2 DEF Yielded
  <2>2. \A i \in Y : 1 .. i \subseteq Y
    BY <1>2
  <2> HIDE DEF Y
  <2> QED
    BY <2>1, <2>2, Prefix
<1>5. \A i \in H : i =< s /\ ~(i =< y) /\ i # f[2]
  <2> SUFFICES ASSUME NEW i \in H PROVE i =< s /\ ~(i =< y) /\ i # f[2]
    OBVIOUS
  <2>1. part[<<r, i>>].pc \in Holding
    BY <1>1 DEF Shape, PartsHold
  <2>2. i =< s
    BY <1>2, <2>1 DEF Holding
  <2>3. i \notin Y
    BY <1>1, <2>1 DEF Holding
  <2>4. i # f[2]
    BY <1>1, <2>1 DEF Holding, IsRefused, Missing
  <2>5. ~(i =< y)
    BY <1>2, <1>4, <2>3
  <2> QED
    BY <2>2, <2>4, <2>5
<1>6. f[2] \in (y + 1) .. s
  <2>1. part[<<r, f[2]>>].pc = "map"
    BY <1>1 DEF IsRefused, Missing
  <2>2. f[2] =< s /\ f[2] \notin Y
    BY <1>1, <1>2, <2>1
  <2> QED
    BY <1>1, <1>2, <1>4, <2>2
<1>7. IsFiniteSet(H) /\ Cardinality(H) < block_limit /\ Cardinality(H) \in Nat
  <2> DEFINE W == (y + 1) .. s
  <2>1. H \in SUBSET (W \ {f[2]})
    BY <1>2, <1>5
  <2>2. IsFiniteSet(W) /\ Cardinality(W) = s - y /\ f[2] \in W
    <3>1. y + 1 \in Int /\ s \in Int /\ ~(y + 1 > s)
      BY <1>2, <1>6
    <3> QED
      BY <1>2, <1>6, <3>1, FS_Interval
  <2> HIDE DEF W, H
  <2>3. IsFiniteSet(W \ {f[2]}) /\ Cardinality(W \ {f[2]}) = Cardinality(W) - 1
    BY <2>2, FS_RemoveElement
  <2>4. IsFiniteSet(H) /\ Cardinality(H) \in Nat /\ Cardinality(H) =< Cardinality(W) - 1
    BY <2>1, <2>3, FS_Subset, FS_CardinalityType
  <2> HIDE DEF s, y
  <2> QED
    BY <1>2, <1>3, <2>2, <2>4
<1>8. /\ IsFiniteSet(Used) /\ Cardinality(Used) \in Nat /\ ~(Cardinality(Used) < block_limit)
  <2>1. Used \in SUBSET Keys /\ IsFiniteSet(Keys) /\ ~(Cardinality(Used) < block_limit)
    BY SongCacheAssumption DEF IsRefused, Missing, HasRoom
  <2> HIDE DEF Used
  <2> QED
    BY <2>1, FS_Subset, FS_CardinalityType
<1>9. \A k \in Used : \E i \in H : part[<<r, i>>].obj = blocks[k]
  <2> SUFFICES ASSUME NEW k \in Used PROVE \E i \in H : part[<<r, i>>].obj = blocks[k]
    OBVIOUS
  <2>1. Pinned(blocks[k]) /\ blocks[k] # NoBlock
    BY DEF IsRefused
  <2>2. ASSUME NEW g \in Parts, part[g].obj = blocks[k]
        PROVE  \E i \in H : part[<<r, i>>].obj = blocks[k]
    <3>1. g \in PartsOf(r)
      BY <2>1, <2>2
    <3> QED
      BY <1>1, <2>1, <2>2, <3>1
  <2>3. ASSUME NEW w \in Writers, writer[w].obj = blocks[k]
        PROVE  \E g \in Parts : part[g].obj = blocks[k]
    <3>1. w \in Staging
      BY <2>1, <2>3 DEF Shape, WritersHold
    <3>2. writer[w].for \in PartsOf(r)
      BY <3>1
    <3>3. writer[w].for \in Parts /\ writer[w].for # Nobody
      BY <1>1, <3>2, Basics
    <3> QED
      BY <2>3, <3>3 DEF Shape, WritersHold
  <2> QED
    BY <2>1, <2>2, <2>3 DEF Pinned
<1>10. Slot \in [Used -> H]
  BY <1>9
<1>11. PICK k \in Used, l \in Used : k # l /\ Slot[k] = Slot[l]
  <2>1. Cardinality(H) < Cardinality(Used)
    BY <1>3, <1>7, <1>8
  <2> HIDE DEF Slot, Used, H
  <2> QED
    BY <1>7, <1>8, <1>10, <2>1, FS_PigeonHole
<1>12. blocks[k] = blocks[l]
  <2>1. part[<<r, Slot[k]>>].obj = blocks[k] /\ part[<<r, Slot[l]>>].obj = blocks[l]
    BY <1>9
  <2> QED
    BY <1>11, <2>1
<1> QED
  BY <1>11, <1>12 DEF Keyed

-----------------------------------------------------------------------------
(* The theorems.                                                           *)

Inv == Types /\ Shape /\ ObjectsInv /\ Capacity /\ Removed /\ Permits /\ Window

LEMMA InitHolds == Init => Inv
<1> SUFFICES ASSUME Init PROVE Inv
  OBVIOUS
<1>1. Types
  BY Basics, SongCacheAssumption DEF Init, Types, Object
<1>2. Shape
  BY Basics DEF Init, Shape, PartsHold, WritersHold, Over, InOrder, Holding, Staging, NoPart, Parts
<1>3. Alive = {} /\ Staging = {} /\ Fetching = {}
  BY Basics DEF Init, Alive, Staging, Fetching
<1>4. ObjectsInv
  BY <1>3, Basics DEF Init, ObjectsInv, Keyed, OnlyInMap, OneEach, FilesLive, ReadyOnDisk, ReadsReady
<1>5. Capacity
  <2>1. LiveKeys = {} /\ lock.by = Nobody
    BY <1>3, Basics DEF Init, LiveKeys
  <2>2. Cardinality(LiveKeys) = 0
    BY <2>1, FS_EmptySet
  <2> QED
    BY <2>1, <2>2, SongCacheAssumption DEF Capacity
<1>6. Removed
  BY DEF Init, Removed, Gone
<1>7. Permits
  <2>1. Cardinality(Fetching) = 0 /\ Cardinality(Staging) = 0
    BY <1>3, FS_EmptySet
  <2> QED
    BY <2>1, SongCacheAssumption DEF Init, Permits
<1>8. Window
  <2> SUFFICES ASSUME NEW r \in Readers PROVE Started(r) - Yielded(r) =< AtOnce
    BY DEF Window
  <2>1. Started(r) \in 0 .. Len(read[r]) /\ Len(read[r]) = 0 /\ Yielded(r) \in Nat
    BY <1>1, <1>2, StartedInOrder, RangeTypes DEF Shape, Init
  <2>2. AtOnce \in Nat
    BY SongCacheAssumption DEF AtOnce
  <2> QED
    BY <2>1, <2>2
<1> QED
  BY <1>1, <1>2, <1>4, <1>5, <1>6, <1>7, <1>8 DEF Inv

LEMMA InvStep == Inv /\ [Next]_vars => Inv'
<1> SUFFICES ASSUME Inv, [Next]_vars PROVE Inv'
  OBVIOUS
<1>1. /\ Types /\ Shape /\ ObjectsInv /\ Capacity /\ Removed /\ Permits /\ Window
      /\ PartsHold /\ WritersHold
  BY DEF Inv, Shape
<1>2. Types' /\ Shape'
  BY <1>1, TypesStep, ShapeStep
<1>3. ObjectsInv'
  BY <1>1, <1>2, ObjectsStep
<1>4. Capacity' /\ Removed' /\ Permits' /\ Window'
  BY <1>1, <1>2, <1>3, CapacityStep, RemovedStep, PermitsStep, WindowStep
<1> QED
  BY <1>2, <1>3, <1>4 DEF Inv

LEMMA Invariant == Spec => []Inv
BY InitHolds, InvStep, PTL DEF Spec

\* Whoever has found a block ready finds its file: neither an eviction nor the
\* Drop of an earlier Block of the same key removes it (block, Drop for Block).
THEOREM FilesAreThere == Spec => []FileIsThere
<1>1. Inv => FileIsThere
  <2> SUFFICES ASSUME Inv, NEW f \in Parts, part[f].pc = "file" PROVE part[f].key \in files
    BY DEF FileIsThere
  <2>1. part[f].obj # NoBlock
    BY DEF Inv, Shape, PartsHold, Holding
  <2>2. part[f].obj \in Alive
    BY <2>1, Referenced DEF Inv
  <2> QED
    BY <2>1, <2>2 DEF Inv, ObjectsInv, ReadsReady, ReadyOnDisk, Keyed
<1> QED
  BY <1>1, Invariant, PTL

\* The files on disk stay within the capacity, the half-written ones within the
\* permits, whatever reads are dropped in between (block, read).
THEOREM DiskStaysBounded == Spec => []DiskIsBounded
<1>1. Inv => DiskIsBounded
  <2> SUFFICES ASSUME Inv PROVE DiskIsBounded
    OBVIOUS
  <2>1. /\ Types /\ Shape /\ Keyed /\ files \in SUBSET LiveKeys
        /\ Cardinality(LiveKeys) =< block_limit /\ block_limit \in Nat
        /\ permits + Cardinality(Fetching) + Cardinality(Staging) = PARALLEL
        /\ PARALLEL \in Nat
    BY SongCacheAssumption DEF Inv, ObjectsInv, FilesLive, Capacity, Permits
  <2>2. Cardinality(files) \in Nat /\ Cardinality(files) =< Cardinality(LiveKeys)
        /\ Cardinality(LiveKeys) \in Nat
    BY <2>1, LiveKeysAreFinite
  <2>3. permits \in Nat /\ Cardinality(Fetching) \in Nat /\ Cardinality(Staging) \in Nat
    BY <2>1, Counted
  <2> QED
    BY <2>1, <2>2, <2>3 DEF DiskIsBounded
<1> QED
  BY <1>1, Invariant, PTL

\* When the cache and its last reference are gone, so are its files and its
\* directory (Drop for Block and for the directory).
THEOREM AllIsRemoved == Spec => []NothingIsLeft
<1>1. Inv => NothingIsLeft
  BY DEF Inv, Removed, NothingIsLeft
<1> QED
  BY <1>1, Invariant, PTL

\* A read alone in the cache is never refused: buffered asks for no more blocks
\* at a time than the cache can hold (read, block).
THEOREM RefusedByOthers == Spec => OthersPin
<1>1. Inv /\ [Next]_vars =>
        [\A f \in Parts :
            part[f].pc = "map" /\ part'[f].pc = "refused" =>
                \/ \E g \in Parts \ PartsOf(f[1]) : part[g].obj # NoBlock
                \/ \E w \in Staging : writer[w].for \notin PartsOf(f[1])]_vars
  <2> SUFFICES ASSUME Inv, [Next]_vars, NEW f \in Parts,
                      part[f].pc = "map", part'[f].pc = "refused",
                      \A g \in Parts \ PartsOf(f[1]) : part[g].obj = NoBlock,
                      \A w \in Staging : writer[w].for \in PartsOf(f[1])
               PROVE  FALSE
    OBVIOUS
  <2>1. Types /\ Shape /\ Keyed /\ Window
    BY DEF Inv, ObjectsInv
  <2>2. IsRefused(f)
    BY <2>1, RefusedOnce
  <2> QED
    BY <2>1, <2>2, OthersStep
<1> QED
  BY <1>1, Invariant, PTL DEF Spec, OthersPin

-----------------------------------------------------------------------------
(* The cache implements BlockStore: the parts are its readings, what is    *)
(* between the download and the rename its writings.                       *)

Reads(f) == IF part[f].obj = NoBlock THEN NoKey ELSE part[f].key
Told == {f \in Parts : part[f].pc = "file"}
Freed == LiveKeys \ LiveKeys'

\* What is used is there.
UsedIsLive ==
    /\ \A f \in Parts : part[f].obj # NoBlock => part[f].key \in LiveKeys
    /\ \A w \in Writers : writer[w].key # NoKey => writer[w].key \in LiveKeys

LEMMA UsedStays == Types /\ Shape /\ ObjectsInv => UsedIsLive
<1> SUFFICES ASSUME Types, Shape, ObjectsInv PROVE UsedIsLive
  OBVIOUS
<1>1. ASSUME NEW f \in Parts, part[f].obj # NoBlock
      PROVE  part[f].key \in LiveKeys
  <2>1. part[f].obj \in Alive /\ objects[part[f].obj].key = part[f].key
    BY <1>1, Referenced DEF ObjectsInv, Keyed
  <2>2. part[f].key \in Keys
    BY <1>1 DEF Shape, PartsHold, Holding
  <2> QED
    BY <2>1, <2>2, SongCacheAssumption DEF LiveKeys
<1>2. ASSUME NEW w \in Writers, writer[w].key # NoKey PROVE writer[w].key \in LiveKeys
  <2>1. w \in Staging
    BY <1>2 DEF Staging
  <2> QED
    BY <2>1, Referenced DEF ObjectsInv, Keyed, LiveKeys
<1> QED
  BY <1>1, <1>2 DEF UsedIsLive

\* Whatever goes is not used by then.
LEMMA FreedIsUnused ==
    ASSUME Types', Shape', ObjectsInv', LiveKeys' \subseteq LiveKeys, NEW gone, gone = Freed
    PROVE  Store!Removes(gone)
<1>1. UsedIsLive'
  BY UsedStays, PTL
<1>2. Freed \cap Store!Used' = {}
  BY <1>1 DEF Freed, Store!Used, UsedIsLive
<1> QED
  BY <1>2 DEF Store!Removes, Freed

\* What is settled are the files of what goes.
LEMMA SettledFiles ==
    ASSUME Types, Shape, Types', Shape', ObjectsInv, Drops, NEW nf, NEW no, Settle(nf, no)
    PROVE  files' = nf \ Freed
<1>1. Alive' \subseteq Alive /\ LiveKeys' \subseteq LiveKeys
  BY DropsObjects
<1>2. \A o \in Alive' : objects'[o].key = objects[o].key
  <2>1. Alive' \subseteq Objects
    BY <1>1, AliveIsTyped
  <2>2. \E newObjects : /\ \A o \in Objects : newObjects[o].key = objects[o].key
                        /\ \A o \in Objects \cap Alive' : objects'[o] = newObjects[o]
    BY DEF Drops, Settle
  <2> QED
    BY <2>1, <2>2
<1>3. {objects[o].key : o \in Alive \ Alive'} = Freed
  <2>1. ASSUME NEW o \in Alive \ Alive' PROVE objects[o].key \notin LiveKeys'
    BY <1>1, <1>2 DEF LiveKeys, ObjectsInv, OneEach
  <2>2. \A k \in Freed : \E o \in Alive \ Alive' : objects[o].key = k
    BY <1>2 DEF Freed, LiveKeys
  <2>3. \A o \in Alive \ Alive' : objects[o].key \in LiveKeys
    BY DEF LiveKeys
  <2> QED
    BY <2>1, <2>2, <2>3 DEF Freed
<1>4. files' = nf \ {objects[o].key : o \in Alive \ Alive'}
  BY DEF Settle
<1> QED
  BY <1>3, <1>4

AllInv == Types /\ Shape /\ ObjectsInv /\ Capacity

\* A step on which nothing of the promise depends.
Unseen ==
    /\ \A f \in Parts : Reads(f)' = Reads(f) /\ (part'[f].pc = "file" <=> part[f].pc = "file")
    /\ \A w \in Writers : writer'[w].key = writer[w].key
    /\ UNCHANGED <<objects, files>> /\ Alive' = Alive

LEMMA UnseenStutters ==
    ASSUME Unseen
    PROVE  UNCHANGED Store!vars
<1>1. LiveKeys' = LiveKeys
  BY DEF Unseen, LiveKeys
<1>2. [f \in Parts |-> Reads(f)]' = [f \in Parts |-> Reads(f)]
  BY DEF Unseen
<1>3. [w \in Writers |-> writer[w].key]' = [w \in Writers |-> writer[w].key]
  BY DEF Unseen
<1>4. Told' = Told
  BY DEF Unseen, Told
<1> QED
  BY <1>1, <1>2, <1>3, <1>4 DEF Store!vars, Unseen, Reads, Told

\* Some parts stop using their block, and what nobody uses may go.
LEMMA PartsEnd ==
    ASSUME AllInv, AllInv', Drops, NEW no, Settle(files, no), NEW R \in SUBSET Parts,
           \A f \in Parts : Reads(f)' = IF f \in R THEN NoKey ELSE Reads(f),
           \A f \in Parts : part'[f].pc = "file" <=> f \notin R /\ part[f].pc = "file",
           \A w \in Writers : writer'[w].key = writer[w].key
    PROVE  Store!Next
<1>1. LiveKeys' \subseteq LiveKeys /\ Freed \in SUBSET Keys
  BY DropsObjects, LiveKeysAreKeys DEF AllInv, ObjectsInv, Freed
<1> PICK gone \in SUBSET Keys : gone = Freed
  BY <1>1
<1>2. files' = files \ gone
  BY SettledFiles DEF AllInv
<1>3. Store!Removes(gone)
  BY <1>1, FreedIsUnused DEF AllInv
<1>4. Store!EndsReading(R)
  BY DEF Store!EndsReading, Reads
<1>5. Told' = Told \ R
  BY DEF Told
<1>6. [w \in Writers |-> writer[w].key]' = [w \in Writers |-> writer[w].key]
  OBVIOUS
<1>7. Store!Ends(R, gone)
  BY <1>2, <1>3, <1>4, <1>5, <1>6 DEF Store!Ends, Told
<1> QED
  BY <1>7, Zenon DEF Store!Next

LEMMA SameCount == Store!Cardinality(LiveKeys) = Cardinality(LiveKeys)
BY DEF Store!Cardinality, Cardinality

\* A part takes a reference to its block, kept or new.
LEMMA PartAsks ==
    ASSUME AllInv, NEW f \in Parts, part[f].obj = NoBlock, part[f].key \in Keys,
           NEW o, o # NoBlock, Becomes(f, "cell", o), part[f].pc # "file",
           \/ part[f].key \in LiveKeys
           \/ Cardinality(LiveKeys) < block_limit,
           LiveKeys' = LiveKeys \cup {part[f].key},
           UNCHANGED <<files, writer>>
    PROVE  Store!Next
<1> PICK key \in Keys : key = part[f].key
  OBVIOUS
<1>1. \A g \in Parts : Reads(g)' = IF g = f THEN key ELSE Reads(g)
  BY DEF Reads, Becomes
<1>2. \A g \in Parts : part'[g].pc = "file" <=> part[g].pc = "file"
  BY DEF Becomes
<1>3. [g \in Parts |-> Reads(g)]' = [[g \in Parts |-> Reads(g)] EXCEPT ![f] = key]
  BY <1>1
<1>4. Reads(f) = NoKey /\ Told' = Told
  BY <1>2 DEF Told, Reads
<1>5. Store!Asks(f, key)
  BY <1>3, <1>4, SameCount DEF Store!Asks, Reads, Told
<1> QED
  BY <1>5, Zenon DEF Store!Next

LEMMA PartsImplement ==
    ASSUME AllInv, AllInv', NEW f \in Parts, PartSteps(f)
    PROVE  Store!Next \/ UNCHANGED Store!vars
<1>1. /\ Types /\ Shape /\ ObjectsInv /\ Types' /\ Shape' /\ part[f] \in Part
      /\ PartsHold /\ WritersHold /\ Keyed /\ ~(NoKey \in Keys)
  BY SongCacheAssumption DEF AllInv, Shape, Types, ObjectsInv
<1>2. Keeps \/ Drops \/ Adds(f)
  BY <1>1, PartStepKinds
\* Neither what the parts use nor what they were told changes.
<1>3. ASSUME NEW pc \in PartPCs \ {"file"}, Becomes(f, pc, part[f].obj), part[f].pc # "file",
             UNCHANGED <<blocks, objects, files, writer>>
      PROVE  UNCHANGED Store!vars
  <2>1. \A g \in Parts : part'[g].obj = part[g].obj /\ part'[g].key = part[g].key
                         /\ (part'[g].pc = "file" <=> part[g].pc = "file")
    BY <1>3 DEF Becomes
  <2>2. Alive' = Alive
    BY <1>3, <2>1 DEF Alive
  <2> QED
    BY <1>3, <2>1, <2>2, UnseenStutters DEF Unseen, Reads
<1>4. ASSUME NEW pc \in PartPCs \ {"file"}, Becomes(f, pc, NoBlock),
             UNCHANGED <<blocks, writer>>, Settle(files, objects), part[f].pc \in {"fetch", "file"}
      PROVE  Store!Next
  <2>1. Drops
    <3>1. ~Adds(f)
      BY <1>1, <1>4 DEF Adds, PartsHold, Holding
    <3>2. part[f].obj # NoBlock
      BY <1>1, <1>4 DEF PartsHold, Holding
    <3>3. ASSUME Keeps PROVE Drops
      <4>1. \A k \in Keys : blocks'[k] = blocks[k]
        BY <1>4
      <4> QED
        BY <1>4, <3>3, <4>1 DEF Keeps, Drops, Types, AllInv
    <3> QED
      BY <1>2, <3>1, <3>3
  <2>2. \A g \in Parts : Reads(g)' = IF g \in {f} THEN NoKey ELSE Reads(g)
    BY <1>4 DEF Reads, Becomes
  <2>3. \A g \in Parts : part'[g].pc = "file" <=> g \notin {f} /\ part[g].pc = "file"
    BY <1>4 DEF Becomes
  <2>4. \A w \in Writers : writer'[w].key = writer[w].key
    BY <1>4
  <2> QED
    BY <1>4, <2>1, <2>2, <2>3, <2>4, PartsEnd
<1>5. ASSUME Adds(f) PROVE Store!Next
  <2>1. /\ LiveKeys' = LiveKeys \cup {part[f].key} /\ files' = files
        /\ Cardinality(LiveKeys) < block_limit
    BY <1>1, <1>5, AddsObjects, RoomToAdd DEF AllInv
  <2>2. PICK o \in Objects : Becomes(f, "cell", o)
    BY <1>1, <1>5, InsertsEffect DEF Adds
  <2>3. /\ o # NoBlock /\ part[f].obj = NoBlock /\ part[f].key \in Keys
        /\ part[f].pc # "file" /\ UNCHANGED writer
    BY <1>1, <1>5, Basics DEF Adds, PartsHold, Holding
  <2> QED
    BY <2>1, <2>2, <2>3, PartAsks
<1>6. CASE FindsBlock(f)
  <2>1. CASE blocks[part[f].key] = NoBlock
    <3>1. Adds(f)
      <4>1. part[f].pc = "map" /\ part[f].obj = NoBlock /\ part[f].key \in Keys /\ read[f[1]] # <<>>
        BY <1>1, <1>6 DEF FindsBlock, PartsHold, Holding
      <4>2. ~dropped
        BY <1>1, <4>1 DEF Shape, Over, Parts
      <4>3. lock'.by = Nobody
        BY <1>6, Basics DEF FindsBlock
      <4> QED
        BY <1>6, <2>1, <4>1, <4>2, <4>3 DEF FindsBlock, Adds
    <3> QED
      BY <1>5, <3>1
  <2>2. CASE blocks[part[f].key] # NoBlock
    <3> DEFINE o == blocks[part[f].key]
    <3>1. /\ part[f].pc = "map" /\ part[f].obj = NoBlock /\ part[f].key \in Keys
          /\ UNCHANGED <<blocks, objects, files, writer>>
      BY <1>1, <1>6, <2>2 DEF FindsBlock, PartsHold, Holding
    <3>2. o \in Objects /\ Becomes(f, "cell", o)
      BY <1>1, <1>6, <2>2, <3>1, BecomesEffect DEF FindsBlock, Refers, Types, PartPCs
    <3>3. o \in Alive /\ objects[o].key = part[f].key
      BY <1>1, <2>2, <3>1, Referenced DEF Keyed
    <3>4. Alive' = Alive
      <4>1. \A g \in Parts \ {f} : part'[g] = part[g]
        BY <3>2 DEF Becomes
      <4>2. part'[f].obj = o
        BY <3>2 DEF Becomes
      <4> QED
        BY <3>1, <3>2, <3>3, <4>1, <4>2 DEF Alive
    <3>5. part[f].key \in LiveKeys /\ LiveKeys' = LiveKeys
      BY <3>1, <3>3, <3>4 DEF LiveKeys
    <3>6. LiveKeys' = LiveKeys \cup {part[f].key} /\ UNCHANGED <<files, writer>> /\ part[f].pc # "file"
      BY <3>1, <3>5
    <3> HIDE DEF o
    <3> QED
      BY <2>2, <3>1, <3>2, <3>5, <3>6, PartAsks DEF o
  <2> QED
    BY <2>1, <2>2
<1>7. CASE ReplacesVictim(f)
  <2>1. Adds(f)
    <3>1. part[f].pc = "evict" /\ part[f].obj = NoBlock /\ part[f].key \in Keys /\ read[f[1]] # <<>>
          /\ blocks[part[f].key] = NoBlock /\ lock.by = f
      BY <1>1, <1>7 DEF ReplacesVictim, PartsHold, Holding
    <3>2. ~dropped
      BY <1>1, <3>1 DEF Shape, Over, Parts
    <3> QED
      BY <1>7, <3>1, <3>2, Basics DEF ReplacesVictim, Adds
  <2> QED
    BY <1>5, <2>1
<1>8. CASE Evicts(f)
  <2>1. Becomes(f, "evict", part[f].obj)
    <3>1. Goes(f, "evict")
      BY <1>8 DEF Evicts
    <3> QED
      BY <1>1, <3>1, BecomesEffect DEF PartPCs
  <2>2. PICK victim \in Keys : /\ blocks[victim] # NoBlock
                              /\ blocks' = [blocks EXCEPT ![victim] = NoBlock]
                              /\ lock' = [by |-> f, victim |-> victim]
    BY <1>8 DEF Evicts
  <2>3. part[f].pc = "map" /\ UNCHANGED writer /\ Settle(files, objects)
    BY <1>8 DEF Evicts, Missing
  <2>4. Drops
    <3>1. ~Adds(f)
      BY <2>2, Basics DEF Adds
    <3>2. blocks' # blocks
      BY <1>1, <2>2 DEF Types
    <3> QED
      BY <1>2, <3>1, <3>2 DEF Keeps
  <2>5. \A g \in Parts : Reads(g)' = IF g \in {} THEN NoKey ELSE Reads(g)
    BY <2>1 DEF Reads, Becomes
  <2>6. \A g \in Parts : part'[g].pc = "file" <=> g \notin {} /\ part[g].pc = "file"
    BY <2>1, <2>3 DEF Becomes
  <2>7. (\A w \in Writers : writer'[w].key = writer[w].key) /\ {} \in SUBSET Parts
    BY <2>3
  <2> QED
    BY <2>3, <2>4, <2>5, <2>6, <2>7, PartsEnd
<1>9. CASE IsRefused(f) \/ EntersCell(f) \/ GetsPermit(f)
  <2>1. PICK pc \in {"refused", "permit", "fetch"} : Goes(f, pc)
    BY <1>9 DEF IsRefused, EntersCell, GetsPermit
  <2>2. pc \in PartPCs \ {"file"}
    BY DEF PartPCs
  <2>3. Becomes(f, pc, part[f].obj)
    BY <1>1, <2>1, <2>2, BecomesEffect
  <2>4. UNCHANGED <<blocks, objects, files, writer>> /\ part[f].pc # "file"
    BY <1>9 DEF IsRefused, Missing, EntersCell, GetsPermit
  <2> QED
    BY <1>3, <2>2, <2>3, <2>4
<1>10. CASE CellIsFilled(f)
  <2>1. /\ Becomes(f, "file", part[f].obj) /\ part[f].pc = "cell" /\ objects[part[f].obj].ready
        /\ UNCHANGED <<blocks, objects, files, writer>> /\ part[f].obj # NoBlock
    BY <1>1, <1>10, BecomesEffect DEF CellIsFilled, PartPCs, PartsHold, Holding
  <2>2. Reads(f) \in files
    <3>1. part[f].obj \in Alive /\ objects[part[f].obj].key = part[f].key
      BY <1>1, <2>1, Referenced DEF Keyed
    <3> QED
      BY <1>1, <2>1, <3>1 DEF ObjectsInv, ReadyOnDisk, Reads
  <2>3. \A g \in Parts : part'[g].obj = part[g].obj /\ part'[g].key = part[g].key
    BY <2>1 DEF Becomes
  <2>4. Alive' = Alive
    BY <2>1, <2>3 DEF Alive
  <2>5. LiveKeys' = LiveKeys
    BY <2>1, <2>4 DEF LiveKeys
  <2>6. Told' = Told \cup {f}
    BY <2>1 DEF Told, Becomes
  <2>7. [g \in Parts |-> Reads(g)]' = [g \in Parts |-> Reads(g)]
    BY <2>3 DEF Reads
  <2>8. Store!IsTold(f)
    BY <2>1, <2>2, <2>5, <2>6, <2>7 DEF Store!IsTold, Reads, Told
  <2> QED
    BY <2>8, Zenon DEF Store!Next
<1>11. CASE FetchSucceeds(f)
  <2>1. /\ Becomes(f, "write", part[f].obj) /\ part[f].pc = "fetch" /\ part[f].obj # NoBlock
        /\ UNCHANGED <<blocks, objects, files>>
    BY <1>1, <1>11, BecomesEffect DEF FetchSucceeds, PartPCs, PartsHold, Holding
  <2>2. PICK w \in Writers \ Staging :
          writer' = [writer EXCEPT ![w] = [key |-> part[f].key, obj |-> part[f].obj,
                                           for |-> f, permit |-> TRUE]]
    BY <1>11 DEF FetchSucceeds
  <2>3. /\ writer'[w].key = part[f].key /\ writer'[w].obj = part[f].obj
        /\ \A v \in Writers \ {w} : writer'[v] = writer[v]
        /\ writer[w].key = NoKey /\ writer[w].obj = NoBlock
    BY <1>1, <2>2 DEF Types, Staging, WritersHold
  <2>4. \A g \in Parts : part'[g].obj = part[g].obj /\ part'[g].key = part[g].key
                         /\ (part'[g].pc = "file" <=> part[g].pc = "file")
    BY <2>1 DEF Becomes
  <2>5. Alive' = Alive
    BY <2>1, <2>3, <2>4 DEF Alive
  <2>6. LiveKeys' = LiveKeys
    BY <2>1, <2>5 DEF LiveKeys
  <2>7. Told' = Told /\ f \notin Told
    BY <2>1, <2>4 DEF Told
  <2>8. [g \in Parts |-> Reads(g)]' = [g \in Parts |-> Reads(g)]
    BY <2>4 DEF Reads
  <2>9. Reads(f) = part[f].key /\ Reads(f) # NoKey
    BY <1>1, <2>1 DEF Reads, PartsHold, Holding
  <2>10. [v \in Writers |-> writer[v].key]' = [[v \in Writers |-> writer[v].key] EXCEPT ![w] = Reads(f)]
    BY <2>3, <2>9
  <2>11. Store!Writes(w, f)
    BY <2>1, <2>3, <2>6, <2>7, <2>8, <2>9, <2>10 DEF Store!Writes, Reads, Told
  <2> QED
    BY <2>11, Zenon DEF Store!Next
<1>12. CASE FetchFails(f) \/ ReadsFile(f) \/ FileIsUnreadable(f)
  <2>1. PICK pc \in {"failed", "done"} : Becomes(f, pc, NoBlock)
    BY <1>1, <1>12, BecomesEffect, Basics DEF FetchFails, ReadsFile, FileIsUnreadable, Fails, PartPCs
  <2>2. pc \in PartPCs \ {"file"}
    BY DEF PartPCs
  <2>3. UNCHANGED <<blocks, writer>> /\ Settle(files, objects) /\ part[f].pc \in {"fetch", "file"}
    BY <1>12 DEF FetchFails, ReadsFile, FileIsUnreadable
  <2> QED
    BY <1>4, <2>1, <2>2, <2>3
<1> QED
  BY <1>6, <1>7, <1>8, <1>9, <1>10, <1>11, <1>12 DEF PartSteps

\* The start of a read or of a part is no step of the promise; a read that ends
\* ends its parts.
LEMMA ReadsImplement ==
    ASSUME AllInv, AllInv', NEW r \in Readers, ReadSteps(r)
    PROVE  Store!Next \/ UNCHANGED Store!vars
<1>1. Types /\ Shape /\ Types' /\ Shape' /\ Keyed
  BY DEF AllInv, ObjectsInv
<1>2. CASE ReadBegins(r)
  <2>1. Unseen
    BY <1>2 DEF ReadBegins, Unseen, Reads, Alive
  <2> QED
    BY <2>1, UnseenStutters
<1>3. CASE PartStarts(r)
  <2>1. UNCHANGED <<blocks, objects, files, writer>>
    BY <1>3 DEF PartStarts
  <2>2. \A f \in Parts : /\ part'[f].obj = part[f].obj
                         /\ part[f].obj # NoBlock => part'[f] = part[f]
                         /\ part'[f].pc = "file" <=> part[f].pc = "file"
    BY <1>1, <1>3, StartEffect
  <2>3. Alive' = Alive
    BY <2>1, <2>2 DEF Alive
  <2>4. Unseen
    BY <2>1, <2>2, <2>3 DEF Unseen, Reads
  <2> QED
    BY <2>4, UnseenStutters
<1>4. CASE Leaves(r)
  <2>1. Settle(files, objects) /\ UNCHANGED <<blocks, dropped>>
    BY <1>4 DEF Leaves
  <2>2. \A f \in Parts : part'[f] = IF f \in PartsOf(r) THEN NoPart ELSE part[f]
    BY <1>1, <1>4, LeavesEffect, Basics
  <2>3. \A w \in Writers : writer'[w].obj = writer[w].obj /\ writer'[w].key = writer[w].key
    BY <1>1, <1>4, LeavesEffect
  <2>4. Drops
    <3>1. PassesOn
      BY <2>1, <2>2, <2>3, Basics DEF PassesOn, Staging
    <3>2. \A f \in Parts : part'[f].pc = "file" => part[f].pc = "file"
      BY <2>2, Basics
    <3> QED
      BY <1>1, <2>1, <3>1, <3>2 DEF Drops, Types
  <2>5. \A f \in Parts : Reads(f)' = IF f \in PartsOf(r) THEN NoKey ELSE Reads(f)
    BY <2>2, Basics DEF Reads
  <2>6. \A f \in Parts : part'[f].pc = "file" <=> f \notin PartsOf(r) /\ part[f].pc = "file"
    BY <2>2, Basics
  <2>7. PartsOf(r) \in SUBSET Parts
    BY Basics
  <2> QED
    BY <2>1, <2>3, <2>4, <2>5, <2>6, <2>7, PartsEnd
<1> QED
  BY <1>2, <1>3, <1>4 DEF ReadSteps, ReadReturns, ReadFails, ReadIsDropped, ReadIsCancelled

\* A write that succeeds completes its file, unless its block is gone by then.
LEMMA WriterImplements ==
    ASSUME AllInv, AllInv', [Next]_vars, NEW w \in Writers, NEW ok \in BOOLEAN, WriterEnds(w, ok)
    PROVE  Store!Next
<1> DEFINE f == writer[w].for
           nf == IF ok THEN files \cup {writer[w].key} ELSE files
<1>1. Types /\ Shape /\ Types' /\ Shape' /\ ObjectsInv /\ Keyed /\ WritersHold /\ PartsHold
  BY DEF AllInv, ObjectsInv, Shape
<1>2. /\ writer'[w] = NoWriter /\ (\A v \in Writers \ {w} : writer'[v] = writer[v])
      /\ writer[w].key \in Keys /\ (f = Nobody => part' = part)
      /\ f # Nobody => f \in Parts /\ Becomes(f, IF ok THEN "file" ELSE "failed",
                                             IF ok THEN part[f].obj ELSE NoBlock)
      /\ \E newObjects \in [Objects -> Object] : Settle(nf, newObjects)
  BY <1>1, WriterEffect DEF Readied
<1>3. w \in Staging /\ UNCHANGED blocks /\ writer[w].key # NoKey
  BY <1>2, SongCacheAssumption DEF WriterEnds
<1>4. LiveKeys' \subseteq LiveKeys /\ files' = nf \ Freed /\ Freed \in SUBSET Keys
  <2>1. Drops
    BY <1>1, WriterDrops
  <2> QED
    BY <1>1, <1>2, <2>1, SettledFiles, DropsObjects, LiveKeysAreKeys DEF Freed
<1> PICK gone \in SUBSET Keys : gone = Freed
  BY <1>4
<1>5. Store!Removes(gone)
  BY <1>4, FreedIsUnused DEF AllInv
<1>6. [v \in Writers |-> writer[v].key]' = [[v \in Writers |-> writer[v].key] EXCEPT ![w] = NoKey]
  BY <1>2, Basics
<1>7. f # Nobody => /\ f \in Parts /\ part[f].pc = "write" /\ part[f].obj = writer[w].obj
                    /\ part[f].obj # NoBlock /\ part[f].key = writer[w].key
  <2> SUFFICES ASSUME f # Nobody
               PROVE  /\ f \in Parts /\ part[f].pc = "write" /\ part[f].obj = writer[w].obj
                      /\ part[f].obj # NoBlock /\ part[f].key = writer[w].key
    OBVIOUS
  <2>1. f \in Parts /\ part[f].pc = "write" /\ part[f].obj = writer[w].obj
    BY <1>1, <1>2 DEF WritersHold
  <2>2. part[f].obj # NoBlock
    BY <1>1, <2>1 DEF PartsHold, Holding
  <2> QED
    BY <1>1, <1>3, <2>1, <2>2 DEF Keyed
<1> PICK waits \in SUBSET Parts : waits = {f} \cap Parts
  OBVIOUS
<1>8. waits \subseteq Store!Waiting(w)
  BY <1>7, Basics DEF Store!Waiting
<1>9. CASE ok
  <2>1. \A g \in Parts : /\ part'[g].obj = part[g].obj /\ part'[g].key = part[g].key
                         /\ part'[g].pc = "file" <=> g \in waits \/ part[g].pc = "file"
    BY <1>2, <1>7, <1>9, Basics DEF Becomes
  <2>2. [g \in Parts |-> Reads(g)]' = [g \in Parts |-> Reads(g)] /\ Told' = Told \cup waits
    BY <2>1 DEF Reads, Told
  <2>3. files' = (files \cup {writer[w].key}) \ gone
    BY <1>4, <1>9
  <2>4. Store!IsWritten(w, waits, gone)
    BY <1>3, <1>5, <1>6, <1>8, <2>2, <2>3 DEF Store!IsWritten, Reads, Told
  <2> QED
    BY <2>4, Zenon DEF Store!Next
<1>10. CASE ~ok
  <2>1. \A g \in Parts : /\ part'[g].obj = IF g \in waits THEN NoBlock ELSE part[g].obj
                         /\ part'[g].key = part[g].key
                         /\ part'[g].pc = "file" <=> part[g].pc = "file"
    BY <1>2, <1>7, <1>10, Basics DEF Becomes
  <2>2. [g \in Parts |-> Reads(g)]' = [g \in Parts |-> IF g \in waits THEN NoKey ELSE Reads(g)]
        /\ Told' = Told
    BY <2>1 DEF Reads, Told
  <2>3. files' = files \ gone
    BY <1>4, <1>10
  <2>4. Store!EndsReading(waits)
    BY <2>2 DEF Store!EndsReading, Reads
  <2>5. Store!IsNotWritten(w, waits, gone)
    BY <1>3, <1>5, <1>6, <1>8, <2>2, <2>3, <2>4 DEF Store!IsNotWritten, Told
  <2> QED
    BY <2>5, Zenon DEF Store!Next
<1> QED
  BY <1>9, <1>10

LEMMA StoreStep ==
    ASSUME AllInv, AllInv', [Next]_vars
    PROVE  Store!Next \/ UNCHANGED Store!vars
<1>1. CASE cancel \/ UNCHANGED vars
  <2>1. Unseen
    BY <1>1 DEF cancel, vars, Unseen, Reads, Alive
  <2> QED
    BY <2>1, UnseenStutters
<1>2. CASE CacheIsDropped
  <2>1. /\ \A k \in Keys : blocks'[k] = NoBlock
        /\ UNCHANGED <<part, writer>> /\ dropped' /\ Settle(files, objects)
    BY <1>2 DEF CacheIsDropped
  <2>2. Drops
    <3>1. PassesOn
      BY <2>1 DEF PassesOn, Staging
    <3> QED
      BY <2>1, <3>1 DEF Drops, Types, AllInv
  <2>3. \A f \in Parts : Reads(f)' = IF f \in {} THEN NoKey ELSE Reads(f)
    BY <2>1 DEF Reads
  <2>4. \A f \in Parts : part'[f].pc = "file" <=> f \notin {} /\ part[f].pc = "file"
    BY <2>1
  <2>5. (\A w \in Writers : writer'[w].key = writer[w].key) /\ {} \in SUBSET Parts
    BY <2>1
  <2> QED
    BY <2>1, <2>2, <2>3, <2>4, <2>5, PartsEnd
<1> QED
  BY <1>1, <1>2, ReadsImplement, PartsImplement, WriterImplements DEF Next

\* The once-cells, references and permits of the cache keep the promise of
\* BlockStore, a block that is used stays with its file and there are never more
\* than fit, whatever reads are dropped and however objects come and go for a
\* block (Block, its Drop, block, read).
THEOREM BlocksAreKept == Spec => KeepsBlocks
<1>1. Init => Store!Init
  <2> SUFFICES ASSUME Init PROVE Store!Init
    OBVIOUS
  <2>1. LiveKeys = {} /\ files = {}
    BY Basics DEF Init, LiveKeys, Alive
  <2> QED
    BY <2>1, Basics DEF Init, Store!Init, NoPart, NoWriter
<1>2. Inv /\ Inv' /\ [Next]_vars => [Store!Next]_(Store!vars)
  BY StoreStep DEF Inv, AllInv
<1> QED
  BY <1>1, <1>2, Invariant, PTL DEF Spec, KeepsBlocks, Store!Spec

=============================================================================
