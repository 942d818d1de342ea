------------------------------- MODULE Upload -------------------------------
(***************************************************************************)
(* The personal space of one user: chunked uploads with resumption, their  *)
(* cancellation and cleanup, moves and deletes of files, and the quota     *)
(* with its cached usage (file_router.py, drive_quota.py).                 *)
(*                                                                         *)
(* upload_chunk is a coroutine with two awaits, reading the body and       *)
(* appending it; the other handlers run in threads, the cleanup on the     *)
(* event loop.  Each step below is one such stretch, cut again where a     *)
(* thread may see the files or the cached usage between two of its calls.  *)
(*                                                                         *)
(* Abstracted: a file is the sequence of the positions its units were sent *)
(* for, so the right content of a file of size n is 0, ..., n - 1.  Paths  *)
(* are names in one directory; names are valid and stay inside the space.  *)
(***************************************************************************)
EXTENDS Integers, Sequences, FiniteSets

CONSTANTS
    Ids,         \* upload ids
    Paths,
    Sizes,       \* declared sizes, in units
    ChunkSize,   \* longest chunk, in units
    Handlers,    \* slots for requests under way
    Readers,     \* slots for those that only ask for the usage
    Quota,
    StaleAge,    \* bound: age at which the cleanup takes an upload
    None

VARIABLES
    meta,      \* .uploads/<id>.meta
    tmp,       \* .uploads/<id>.tmp
    file,      \* the files of the space
    usage,     \* _usage_cache of the user
    count,     \* what a walk of the space has counted, not stored in usage yet
    handler,   \* requests under way, and the cleanup
    raced,     \* history: uploads two requests worked on at once
    shared     \* history: an upload met another or its remains, or was raced,
               \* overfed or cut short, or a walk met a file that moved

spaceVars == <<meta, tmp, file>>
usageVars == <<usage, count>>
uploadVars == <<spaceVars, usageVars, handler, raced, shared>>

Slots == Handlers \cup {"cleanup"}
Counters == Handlers \cup Readers

Meta == [path : Paths, size : Sizes, age : 0..StaleAge]
Content == Seq(Nat)
File == [len : Nat, whole : BOOLEAN, raced : BOOLEAN]
ChunkRow ==
    [op : {"chunk"}, pc : {"read", "counted", "append", "appended", "moved"}, id : Ids,
     offset : Nat, len : 1..ChunkSize, path : Paths, size : Sizes]
OtherRow ==
    [op : {"init"}, pc : {"counted", "create"}, path : Paths, size : Sizes]
    \cup [op : {"remove"}, id : Ids, found : BOOLEAN]
    \cup [op : {"move"}, from : Paths, to : Paths]

ASSUME UploadAssumption ==
    /\ Sizes \subseteq Nat \ {0} /\ ChunkSize \in Nat \ {0}
    /\ Quota \in Nat /\ StaleAge \in Nat
    /\ None \notin Meta \cup File \cup ChunkRow \cup OtherRow
    /\ None \notin Content
    /\ None \notin Nat
    /\ "cleanup" \notin Handlers /\ Readers \cap Handlers = {}
    /\ IsFiniteSet(Ids) /\ IsFiniteSet(Paths)

Length(content) == IF content = None THEN 0 ELSE Len(content)

Whole(n) == [k \in 1..n |-> k - 1]

---------------------------------------------------------------------------
(* _calc_dir_size and _get_usage_sync.                                     *)

\* The sum of a function's values, as the number of positions below them.
Total(length) ==
    Cardinality(UNION {{x} \X (1..length[x]) : x \in DOMAIN length})

TmpLength == [i \in Ids |-> Length(tmp[i])]
FileLength == [p \in Paths |-> IF file[p] = None THEN 0 ELSE file[p].len]

DirSize == Total(TmpLength) + Total(FileLength)

\* The walk counts, and another step stores what it found, whatever the files
\* and the cache are by then.
BeginCount(c) ==
    /\ count[c] = None
    /\ count' = [count EXCEPT ![c] = DirSize]

StoreCount(c) ==
    /\ count[c] # None
    /\ usage' = count[c]
    /\ count' = [count EXCEPT ![c] = None]

\* A file moves where a walk under way may be past, or on its way to.
WalkMet == \E c \in Counters : count[c] # None

\* The user's own quota, or the default one.
Fits(used, n) == used + n <= Quota

---------------------------------------------------------------------------
At(h, op, pc) == handler[h] # None /\ handler[h].op = op /\ handler[h].pc = pc
Goto(h, pc) == handler' = [handler EXCEPT ![h].pc = pc]
Free(h) == handler[h] = None
Start(h, row) == handler' = [handler EXCEPT ![h] = row]
End(h) == handler' = [handler EXCEPT ![h] = None]

\* No other handler holds the event loop, on which chunks and the cleanup run.
OnLoop(h) ==
    \A g \in Slots \ {h} :
        ~ (At(g, "chunk", "counted") \/ At(g, "chunk", "moved") \/ (g = "cleanup" /\ ~Free(g)))

\* A request other than h's holds the chunk path of upload i.
ChunkUnderWay(i) ==
    \E h \in Handlers : handler[h] # None /\ handler[h].op = "chunk" /\ handler[h].id = i

RacedWith(i) ==
    /\ raced' = IF ChunkUnderWay(i) THEN raced \cup {i} ELSE raced
    /\ shared' = (shared \/ ChunkUnderWay(i))

---------------------------------------------------------------------------
(* POST /upload/init *)

Resumable(p, s) == \E i \in Ids : meta[i] # None /\ meta[i].path = p /\ meta[i].size = s

\* Another upload exists, is about to, or has left something behind.
OtherUpload ==
    \/ \E i \in Ids : meta[i] # None \/ tmp[i] # None
    \/ \E h \in Handlers : At(h, "init", "create")

InitAdmits(used, p, s) == Fits(used, s) /\ ~Resumable(p, s)

\* Refused for want of space, answered with an upload to resume, or to create one.
InitLookup(h, p, s) ==
    /\ Free(h)
    /\ usage # None
    /\ IF InitAdmits(usage, p, s)
       THEN /\ Start(h, [op |-> "init", pc |-> "create", path |-> p, size |-> s])
            /\ shared' = (shared \/ OtherUpload)
       ELSE UNCHANGED <<handler, shared>>
    /\ UNCHANGED <<spaceVars, usageVars, raced>>

\* Nothing is cached: the request's own walk decides.
InitCount(h, p, s) ==
    /\ Free(h)
    /\ usage = None
    /\ BeginCount(h)
    /\ Start(h, [op |-> "init", pc |-> "counted", path |-> p, size |-> s])
    /\ UNCHANGED <<spaceVars, usage, raced, shared>>

InitStore(h) ==
    /\ At(h, "init", "counted")
    /\ StoreCount(h)
    /\ IF InitAdmits(count[h], handler[h].path, handler[h].size)
       THEN Goto(h, "create") /\ shared' = (shared \/ OtherUpload)
       ELSE End(h) /\ UNCHANGED shared
    /\ UNCHANGED <<spaceVars, raced>>

FreshId(i) ==
    /\ meta[i] = None /\ tmp[i] = None
    /\ \A h \in Slots : handler[h] # None /\ handler[h].op \in {"chunk", "remove"} => handler[h].id # i

InitCreate(h, i) ==
    /\ At(h, "init", "create")
    /\ FreshId(i)
    /\ meta' = [meta EXCEPT ![i] =
            [path |-> handler[h].path, size |-> handler[h].size, age |-> 0]]
    /\ tmp' = [tmp EXCEPT ![i] = <<>>]
    /\ raced' = raced \ {i}
    /\ End(h)
    /\ UNCHANGED <<file, usageVars, shared>>

---------------------------------------------------------------------------
(* POST /upload/chunk: a client sends the units of its file that belong at *)
(* the offset it names.                                                    *)

\* Seeded fault of OffsetMatches: no check.
AnyOffset(i, offset) == TRUE

OffsetMatches(i, offset) == offset = Length(tmp[i])

ChunkStart(h, i, offset, len) ==
    /\ OnLoop(h)
    /\ Free(h)
    /\ meta[i] # None
    /\ OffsetMatches(i, offset)
    /\ Start(h, [op |-> "chunk", pc |-> "read", id |-> i, offset |-> offset, len |-> len,
                 path |-> meta[i].path, size |-> meta[i].size])
    /\ raced' = IF ChunkUnderWay(i) THEN raced \cup {i} ELSE raced
    /\ shared' = (shared \/ ChunkUnderWay(i) \/ offset + len > meta[i].size)
    /\ UNCHANGED <<spaceVars, usageVars>>

ChunkQuota(h) ==
    /\ OnLoop(h)
    /\ At(h, "chunk", "read")
    /\ usage # None
    /\ IF Fits(usage, handler[h].len) THEN Goto(h, "append") ELSE End(h)
    /\ UNCHANGED <<spaceVars, usageVars, raced, shared>>

ChunkCount(h) ==
    /\ OnLoop(h)
    /\ At(h, "chunk", "read")
    /\ usage = None
    /\ BeginCount(h)
    /\ Goto(h, "counted")
    /\ UNCHANGED <<spaceVars, usage, raced, shared>>

ChunkStore(h) ==
    /\ At(h, "chunk", "counted")
    /\ StoreCount(h)
    /\ IF Fits(count[h], handler[h].len) THEN Goto(h, "append") ELSE End(h)
    /\ UNCHANGED <<spaceVars, raced, shared>>

\* The units k of the chunk, at the end of whatever the file holds by now.
Appended(h, k) ==
    LET i == handler[h].id  old == IF tmp[i] = None THEN <<>> ELSE tmp[i] IN
    [tmp EXCEPT ![i] = old \o [u \in 1..k |-> handler[h].offset + u - 1]]

ChunkAppend(h) ==
    /\ At(h, "chunk", "append")
    /\ tmp' = Appended(h, handler[h].len)
    /\ Goto(h, "appended")
    /\ UNCHANGED <<meta, file, usageVars, raced, shared>>

\* The disk refuses the rest of the chunk: the request fails.
ChunkAppendFails(h, k) ==
    /\ At(h, "chunk", "append")
    /\ k < handler[h].len
    /\ tmp' = Appended(h, k)
    /\ End(h)
    /\ UNCHANGED <<meta, file, usageVars, raced, shared>>

\* Seeded fault of WithoutTmp: the file stays.
TmpLeft(i) == tmp

WithoutTmp(i) == [tmp EXCEPT ![i] = None]

NewSize(h) == handler[h].offset + handler[h].len

ChunkTooLong(h) ==
    /\ OnLoop(h)
    /\ At(h, "chunk", "appended")
    /\ NewSize(h) > handler[h].size
    /\ tmp' = WithoutTmp(handler[h].id)
    /\ meta' = [meta EXCEPT ![handler[h].id] = None]
    /\ End(h)
    /\ UNCHANGED <<file, usageVars, raced, shared>>

ChunkStored(h) ==
    /\ OnLoop(h)
    /\ At(h, "chunk", "appended")
    /\ NewSize(h) < handler[h].size
    /\ End(h)
    /\ UNCHANGED <<spaceVars, usageVars, raced, shared>>

\* The last chunk: the temporary file becomes the user's, replacing an older one.
Publish(h) ==
    /\ OnLoop(h)
    /\ At(h, "chunk", "appended")
    /\ NewSize(h) = handler[h].size
    /\ LET i == handler[h].id IN
        IF tmp[i] = None
        THEN /\ End(h)
             /\ UNCHANGED <<tmp, file>>
        ELSE /\ file' = [file EXCEPT ![handler[h].path] =
                    [len |-> Len(tmp[i]), whole |-> tmp[i] = Whole(handler[h].size), raced |-> i \in raced]]
             /\ tmp' = [tmp EXCEPT ![i] = None]
             /\ Goto(h, "moved")
    /\ UNCHANGED <<meta, usageVars, raced, shared>>

\* Seeded fault of UsageForgotten: the cached usage stays.
UsageKept == usage

UsageForgotten == None

ChunkDone(h) ==
    /\ At(h, "chunk", "moved")
    /\ meta' = [meta EXCEPT ![handler[h].id] = None]
    /\ usage' = UsageForgotten
    /\ shared' = (shared \/ WalkMet)
    /\ End(h)
    /\ UNCHANGED <<tmp, file, count, raced>>

---------------------------------------------------------------------------
(* DELETE /upload/{id} and the hourly cleanup: the meta file, then the     *)
(* temporary one.                                                          *)

RemoveMeta(h, i) ==
    /\ Free(h)
    /\ meta[i] # None
    /\ meta' = [meta EXCEPT ![i] = None]
    /\ Start(h, [op |-> "remove", id |-> i, found |-> TRUE])
    /\ RacedWith(i)
    /\ UNCHANGED <<tmp, file, usageVars>>

\* The id of an upload already gone, whose temporary file may be left.
RemoveUnknown(h, i) ==
    /\ Free(h)
    /\ meta[i] = None
    /\ Start(h, [op |-> "remove", id |-> i, found |-> FALSE])
    /\ RacedWith(i)
    /\ UNCHANGED <<spaceVars, usageVars>>

Cancel(h, i) == h \in Handlers /\ (RemoveMeta(h, i) \/ RemoveUnknown(h, i))

Stale(i) == meta[i] # None /\ meta[i].age = StaleAge

Cleanup(i) == OnLoop("cleanup") /\ Stale(i) /\ RemoveMeta("cleanup", i)

RemoveTmp(h) ==
    /\ handler[h] # None /\ handler[h].op = "remove"
    /\ LET i == handler[h].id IN
        /\ tmp' = WithoutTmp(i)
        /\ usage' = IF h # "cleanup" /\ (handler[h].found \/ tmp[i] # None)
                    THEN UsageForgotten ELSE usage
    /\ End(h)
    /\ UNCHANGED <<meta, file, count, raced, shared>>

---------------------------------------------------------------------------
\* GET /space and others that report or check the usage, in a thread: where
\* nothing is cached, or refresh is set, they count.
SpaceCount(c) ==
    /\ BeginCount(c)
    /\ UNCHANGED <<spaceVars, usage, handler, raced, shared>>

SpaceStore(c) ==
    /\ StoreCount(c)
    /\ UNCHANGED <<spaceVars, handler, raced, shared>>

(* DELETE /file and POST /move.                                            *)

DeleteFile(p) ==
    /\ file[p] # None
    /\ file' = [file EXCEPT ![p] = None]
    /\ usage' = UsageForgotten
    /\ UNCHANGED <<meta, tmp, count, handler, raced, shared>>

MoveCheck(h, p, q) ==
    /\ Free(h)
    /\ p # q /\ file[p] # None /\ file[q] = None
    /\ Start(h, [op |-> "move", from |-> p, to |-> q])
    /\ UNCHANGED <<spaceVars, usageVars, raced, shared>>

\* The rename replaces a file that appeared at the target since.
Move(h) ==
    /\ handler[h] # None /\ handler[h].op = "move"
    /\ LET p == handler[h].from IN
        IF file[p] = None
        THEN UNCHANGED <<file, usage, shared>>
        ELSE /\ file' = [file EXCEPT ![handler[h].to] = file[p], ![p] = None]
             /\ usage' = UsageForgotten
             /\ shared' = (shared \/ WalkMet)
    /\ End(h)
    /\ UNCHANGED <<meta, tmp, count, raced>>

---------------------------------------------------------------------------
\* A day passes for the uploads, the cached usage expires.
Tick ==
    /\ usage # None \/ \E i \in Ids : meta[i] # None /\ meta[i].age < StaleAge
    /\ usage' = None
    /\ meta' = [i \in Ids |->
            IF meta[i] # None /\ meta[i].age < StaleAge
            THEN [meta[i] EXCEPT !.age = @ + 1] ELSE meta[i]]
    /\ UNCHANGED <<tmp, file, count, handler, raced, shared>>

\* The portal stops.  A removal cut short leaves the temporary file for good; a
\* publication cut short leaves the meta file, and its id takes chunks again.
Crash ==
    /\ \E h \in Slots : handler[h] # None
    /\ handler' = [h \in Slots |-> None]
    /\ usage' = None
    /\ count' = [c \in Counters |-> None]
    /\ raced' = raced \cup
            {i \in Ids : \E h \in Slots : /\ handler[h] # None /\ handler[h].op = "remove"
                                          /\ handler[h].id = i /\ tmp[i] # None}
    /\ shared' = (shared \/ raced' # raced \/ \E h \in Handlers : At(h, "chunk", "moved"))
    /\ UNCHANGED spaceVars

---------------------------------------------------------------------------
UploadInit ==
    /\ meta = [i \in Ids |-> None]
    /\ tmp = [i \in Ids |-> None]
    /\ file = [p \in Paths |-> None]
    /\ usage = None
    /\ count = [c \in Counters |-> None]
    /\ handler = [h \in Slots |-> None]
    /\ raced = {}
    /\ shared = FALSE

\* What the server does of itself once a request is in.
Proceed(h) ==
    \/ InitStore(h) \/ ChunkQuota(h) \/ ChunkCount(h) \/ ChunkStore(h)
    \/ ChunkAppend(h) \/ ChunkTooLong(h) \/ ChunkStored(h)
    \/ Publish(h) \/ ChunkDone(h) \/ Move(h)
    \/ \E i \in Ids : InitCreate(h, i)

Request(h) ==
    \/ \E p \in Paths, s \in Sizes : InitLookup(h, p, s) \/ InitCount(h, p, s)
    \/ \E i \in Ids, offset \in 0..Quota, len \in 1..ChunkSize : ChunkStart(h, i, offset, len)
    \/ \E i \in Ids : Cancel(h, i)
    \/ \E p, q \in Paths : MoveCheck(h, p, q)

Fault == Crash \/ \E h \in Handlers, k \in 0..ChunkSize - 1 : ChunkAppendFails(h, k)

UploadNext ==
    \/ \E h \in Handlers : Request(h) \/ Proceed(h)
    \/ \E h \in Slots : RemoveTmp(h)
    \/ \E p \in Paths : DeleteFile(p)
    \/ \E i \in Ids : Cleanup(i)
    \/ \E c \in Readers : SpaceCount(c) \/ SpaceStore(c)
    \/ Tick
    \/ Fault

UploadSpec == UploadInit /\ [][UploadNext]_uploadVars

---------------------------------------------------------------------------
\* Every file and request has its shape.
TypeOK ==
    /\ meta \in [Ids -> Meta \cup {None}]
    /\ tmp \in [Ids -> {None} \cup Content]
    /\ file \in [Paths -> {None} \cup File]
    /\ handler \in [Slots -> {None} \cup ChunkRow \cup OtherRow]
    /\ raced \subseteq Ids /\ shared \in BOOLEAN

(* A file that appears in the space is the whole declared file, unit for   *)
(* unit, whatever retries, failed appends, resumptions and crashes its     *)
(* chunks met, unless two requests worked on the upload at once            *)
(* (upload_chunk).  Files and requests keep their shapes.                  *)
PublishedWhole ==
    /\ TypeOK
    /\ \A p \in Paths : file[p] # None => file[p].raced \/ file[p].whole

(* A temporary file without its meta file, which no cleanup will find,     *)
(* is left only by requests that met or a removal cut short; otherwise the *)
(* request that removes it is under way.                                   *)
OrphansComeFromRaces ==
    \A i \in Ids : (meta[i] = None /\ tmp[i] # None) =>
        \/ i \in raced
        \/ \E h \in Slots : handler[h] # None /\ handler[h].op = "remove" /\ handler[h].id = i

(* One upload at a time, of no more than its declared size, not cut short  *)
(* as it is published or removed and begun when the one before is gone,    *)
(* keeps the space within the quota although the usage it is compared with *)
(* is up to a minute old.  Once a walk of the space has been under way as  *)
(* a published or moved file had the cached usage forgotten, nothing is    *)
(* said any more: the walk stores its old count afterwards, and uploads    *)
(* are admitted against it (_get_usage_sync, _invalidate_usage_cache).     *)
QuotaHoldsAlone ==
    /\ usage \in Nat \cup {None} /\ count \in [Counters -> Nat \cup {None}]
    /\ shared \/ DirSize <= Quota
=============================================================================
