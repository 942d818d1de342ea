---------------------------- MODULE UploadProofs ----------------------------
(***************************************************************************)
(* Theorems about Upload, for any number of uploads and requests, and any  *)
(* sizes.                                                                  *)
(***************************************************************************)
EXTENDS Upload, SequenceTheorems, FiniteSetTheorems, TLAPS

(* The inductive invariant.                                                *)

Chunks(h, i) == handler[h] # None /\ handler[h].op = "chunk" /\ handler[h].id = i
Removes(h, i) == handler[h] # None /\ handler[h].op = "remove" /\ handler[h].id = i

\* What a request has established about its upload when no other meets it.
Holds(h, i) ==
    /\ h \in Handlers
    /\ meta[i] # None /\ meta[i].path = handler[h].path /\ meta[i].size = handler[h].size
    /\ handler[h].pc \in {"read", "counted", "append"} => handler[h].offset = Length(tmp[i])
    /\ handler[h].pc = "appended" => tmp[i] # None /\ NewSize(h) = Len(tmp[i])
    /\ handler[h].pc = "moved" => tmp[i] = None

\* An upload no two requests worked on at once.
Alone(i) ==
    /\ tmp[i] # None => tmp[i] = Whole(Len(tmp[i]))
    /\ \A h, k \in Slots : Chunks(h, i) /\ Chunks(k, i) => h = k
    /\ \A h \in Slots : Chunks(h, i) => Holds(h, i)
    /\ \A h \in Slots : Removes(h, i) => meta[i] = None

UploadInv ==
    /\ PublishedWhole
    /\ OrphansComeFromRaces
    /\ \A i \in Ids \ raced : Alone(i)

-----------------------------------------------------------------------------
(* Contents.                                                               *)

\* The units of a chunk that starts at offset n.
Units(n, k) == [u \in 1..k |-> n + u - 1]

LEMMA WholeShape ==
    ASSUME NEW n \in Nat
    PROVE  Whole(n) \in Content /\ Len(Whole(n)) = n /\ Whole(n) # None
BY UploadAssumption DEF Whole, Content

\* A chunk sent for the end of a whole beginning leaves a whole beginning.
LEMMA WholeGrows ==
    ASSUME NEW n \in Nat, NEW k \in Nat
    PROVE  Whole(n) \o Units(n, k) = Whole(n + k)
<1>1. Whole(n) \in Seq(Int) /\ Len(Whole(n)) = n /\ \A u \in 1..n : Whole(n)[u] = u - 1
    BY DEF Whole
<1>2. Units(n, k) \in Seq(Int) /\ Len(Units(n, k)) = k /\ \A u \in 1..k : Units(n, k)[u] = n + u - 1
    BY DEF Units
<1>3. Whole(n + k) \in Seq(Int) /\ Len(Whole(n + k)) = n + k /\ \A u \in 1..n + k : Whole(n + k)[u] = u - 1
    BY DEF Whole
<1> DEFINE s == Whole(n) \o Units(n, k)
<1>4. s \in Seq(Int) /\ Len(s) = n + k
    <2>1. s \in Seq(Int) /\ Len(s) = Len(Whole(n)) + Len(Units(n, k))
        BY <1>1, <1>2, ConcatProperties, Zenon
    <2> QED
        BY <1>1, <1>2, <2>1
<1>5. ASSUME NEW u \in 1..n + k
      PROVE  s[u] = u - 1
    <2>1. CASE u \in 1..n
        BY <1>1, <1>2, <2>1
    <2>2. CASE u \notin 1..n
        <3>1. u - n \in 1..k /\ s[u] = Units(n, k)[u - n]
            BY <1>1, <1>2, <2>2
        <3> QED
            BY <1>2, <3>1
    <2> QED
        BY <2>1, <2>2
<1> HIDE DEF s
<1>6. s = Whole(n + k)
    BY <1>3, <1>4, <1>5, SeqEqual
<1> QED
    BY <1>6 DEF s

LEMMA UnitsShape ==
    ASSUME NEW n \in Nat, NEW k \in Nat, NEW s \in Content
    PROVE  s \o Units(n, k) \in Content /\ Len(s \o Units(n, k)) = Len(s) + k
<1>1. Units(n, k) \in Seq(Nat) /\ Len(Units(n, k)) = k
    BY DEF Units
<1> QED
    BY <1>1 DEF Content

-----------------------------------------------------------------------------
(* Requests.                                                               *)

Rows == {None} \cup ChunkRow \cup OtherRow

\* A request's row, and no other, becomes this.
RowBecomes(h, row) ==
    /\ row \in Rows
    /\ handler' \in [Slots -> Rows]
    /\ handler'[h] = row
    /\ \A k \in Slots \ {h} : handler'[k] = handler[k]

LEMMA RowSet ==
    ASSUME TypeOK, NEW h \in Slots, NEW row \in Rows, handler' = [handler EXCEPT ![h] = row]
    PROVE  RowBecomes(h, row)
BY DEF TypeOK, RowBecomes, Rows

LEMMA ChunkFields ==
    ASSUME TypeOK, NEW h \in Slots, handler[h] # None, handler[h].op = "chunk"
    PROVE  /\ handler[h] \in ChunkRow /\ handler[h].id \in Ids /\ handler[h].path \in Paths
           /\ handler[h].size \in Sizes /\ handler[h].size \in Nat /\ handler[h].offset \in Nat
           /\ handler[h].len \in 1..ChunkSize /\ handler[h].len \in Nat
           /\ handler[h].pc \in {"read", "counted", "append", "appended", "moved"}
<1>1. handler[h] \in ChunkRow \cup OtherRow
    BY DEF TypeOK
<1>2. handler[h] \in ChunkRow
    BY <1>1 DEF ChunkRow, OtherRow
<1>3. /\ handler[h].id \in Ids /\ handler[h].path \in Paths /\ handler[h].size \in Sizes
      /\ handler[h].offset \in Nat /\ handler[h].len \in 1..ChunkSize
      /\ handler[h].pc \in {"read", "counted", "append", "appended", "moved"}
    BY <1>2 DEF ChunkRow
<1>4. handler[h].size \in Nat /\ handler[h].len \in Nat
    <2>1. Sizes \subseteq Nat /\ ChunkSize \in Nat
        BY UploadAssumption
    <2>2. handler[h].size \in Nat
        BY <1>3, <2>1
    <2>3. \A x \in 1..ChunkSize : x \in Nat
        BY <2>1
    <2> QED
        BY <1>3, <2>2, <2>3
<1> QED
    BY <1>2, <1>3, <1>4

LEMMA RemoveFields ==
    ASSUME TypeOK, NEW h \in Slots, handler[h] # None, handler[h].op = "remove"
    PROVE  handler[h].id \in Ids
<1>1. handler[h] \in ChunkRow \cup OtherRow
    BY DEF TypeOK
<1> QED
    BY <1>1 DEF ChunkRow, OtherRow

\* The next step of a chunk's request.
Goes(h, pc) ==
    /\ handler' \in [Slots -> Rows]
    /\ handler'[h] # None /\ handler'[h].op = "chunk" /\ handler'[h].pc = pc
    /\ handler'[h].id = handler[h].id /\ handler'[h].path = handler[h].path
    /\ handler'[h].size = handler[h].size
    /\ handler'[h].offset = handler[h].offset /\ handler'[h].len = handler[h].len
    /\ \A k \in Slots \ {h} : handler'[k] = handler[k]

LEMMA GotoShape ==
    ASSUME TypeOK, NEW h \in Slots, handler[h] # None, handler[h].op = "chunk",
           NEW pc \in {"read", "counted", "append", "appended", "moved"}, Goto(h, pc)
    PROVE  Goes(h, pc)
<1>1. handler[h] \in ChunkRow
    BY ChunkFields
<1> DEFINE new == [handler[h] EXCEPT !.pc = pc]
<1>2. handler' = [handler EXCEPT ![h] = new]
    BY DEF Goto
<1>3. /\ new \in ChunkRow /\ new.pc = pc /\ new.op = "chunk"
      /\ new.id = handler[h].id /\ new.path = handler[h].path /\ new.size = handler[h].size
      /\ new.offset = handler[h].offset /\ new.len = handler[h].len
    BY <1>1 DEF ChunkRow
<1> HIDE DEF new
<1>4. RowBecomes(h, new)
    BY <1>2, <1>3, RowSet DEF Rows
<1>5. new # None
    BY <1>3, UploadAssumption
<1> QED
    BY <1>3, <1>4, <1>5 DEF RowBecomes, Goes

-----------------------------------------------------------------------------
(* Uploads that a step leaves as they were, but for requests that end.     *)

Traced(i) ==
    meta[i] = None /\ tmp[i] # None => i \in raced \/ \E h \in Slots : Removes(h, i)

Untouched(i) ==
    /\ tmp'[i] = tmp[i]
    /\ meta'[i] = None <=> meta[i] = None
    /\ meta[i] # None => meta'[i].path = meta[i].path /\ meta'[i].size = meta[i].size
    /\ i \in raced' <=> i \in raced
    /\ \A h \in Slots : Chunks(h, i)' => handler'[h] = handler[h]
    /\ \A h \in Slots : Removes(h, i)' <=> Removes(h, i)

Kept(i) == Traced(i)' /\ (i \notin raced' => Alone(i)')

LEMMA UntouchedKept ==
    ASSUME NEW i \in Ids, Untouched(i), Traced(i), i \notin raced => Alone(i)
    PROVE  Kept(i)
<1>1. Traced(i)'
    BY DEF Untouched, Traced
<1>2. ASSUME i \notin raced'
      PROVE  Alone(i)'
    <2>1. Alone(i)
        BY <1>2 DEF Untouched
    <2>2. \A h \in Slots : Chunks(h, i)' => Chunks(h, i) /\ handler'[h] = handler[h]
        BY DEF Untouched, Chunks
    <2>3. tmp'[i] # None => tmp'[i] = Whole(Len(tmp'[i]))
        BY <2>1 DEF Untouched, Alone
    <2>4. ASSUME NEW h \in Slots, Chunks(h, i)'
          PROVE  Holds(h, i)'
        <3>1. Holds(h, i) /\ handler'[h] = handler[h]
            BY <2>1, <2>2, <2>4 DEF Alone
        <3> QED
            BY <3>1 DEF Holds, NewSize, Untouched
    <2>5. \A h \in Slots : Removes(h, i)' => meta'[i] = None
        BY <2>1 DEF Untouched, Alone
    <2>6. \A h, k \in Slots : Chunks(h, i)' /\ Chunks(k, i)' => h = k
        BY <2>1, <2>2 DEF Alone
    <2> QED
        BY <2>3, <2>4, <2>5, <2>6 DEF Alone
<1> QED
    BY <1>1, <1>2 DEF Kept

\* The parts of the invariant.
LEMMA Parts ==
    ASSUME UploadInv
    PROVE  /\ TypeOK
           /\ \A i \in Ids : Traced(i) /\ (i \notin raced => Alone(i))
           /\ \A p \in Paths : file[p] # None => file[p].raced \/ file[p].whole
BY DEF UploadInv, PublishedWhole, OrphansComeFromRaces, Traced, Removes

LEMMA Together ==
    ASSUME UploadInv, TypeOK',
           \A p \in Paths : file'[p] # None => file'[p].raced \/ file'[p].whole,
           \A i \in Ids : Kept(i) \/ Untouched(i)
    PROVE  UploadInv'
<1>1. ASSUME NEW i \in Ids
      PROVE  Kept(i)
    BY Parts, UntouchedKept
<1>2. \A i \in Ids : Traced(i)' /\ (i \notin raced' => Alone(i)')
    BY <1>1 DEF Kept
<1>3. OrphansComeFromRaces'
    BY <1>2 DEF OrphansComeFromRaces, Traced, Removes
<1> QED
    BY <1>2, <1>3 DEF UploadInv, PublishedWhole

LEMMA TogetherBut ==
    ASSUME UploadInv, TypeOK',
           \A p \in Paths : file'[p] # None => file'[p].raced \/ file'[p].whole,
           NEW i \in Ids, Traced(i)', i \notin raced' => Alone(i)',
           \A j \in Ids \ {i} : Untouched(j)
    PROVE  UploadInv'
<1>1. ASSUME NEW j \in Ids
      PROVE  Kept(j) \/ Untouched(j)
    <2>1. CASE j = i
        BY <2>1 DEF Kept
    <2> QED
        BY <2>1
<1> QED
    BY <1>1, Together

\* A request that is no chunk's or removal's, before and after, touches none.
LEMMA OtherRequest ==
    ASSUME TypeOK, NEW h \in Slots, NEW row \in Rows, RowBecomes(h, row),
           handler[h] = None \/ handler[h].op \notin {"remove"},
           row = None \/ row.op \notin {"chunk", "remove"},
           NEW i \in Ids, tmp'[i] = tmp[i], meta'[i] = meta[i], i \in raced' <=> i \in raced
    PROVE  Untouched(i)
<1>1. \A k \in Slots \ {h} : handler'[k] = handler[k]
    BY DEF RowBecomes
<1>2. ~Chunks(h, i)' /\ ~Removes(h, i)' /\ ~Removes(h, i)
    BY DEF RowBecomes, Chunks, Removes
<1> QED
    BY <1>1, <1>2 DEF Untouched, Chunks, Removes

\* A request about one upload touches no other.
LEMMA OtherUploads ==
    ASSUME TypeOK, NEW h \in Slots, NEW j \in Ids, NEW i \in Ids \ {j},
           \A k \in Slots \ {h} : handler'[k] = handler[k],
           handler'[h] = None \/ handler'[h].op \notin {"chunk", "remove"} \/ handler'[h].id = j,
           handler[h] = None \/ handler[h].op \notin {"chunk", "remove"} \/ handler[h].id = j,
           tmp'[i] = tmp[i], meta'[i] = meta[i], i \in raced' <=> i \in raced
    PROVE  Untouched(i)
<1>1. ~Chunks(h, i)' /\ ~Removes(h, i)' /\ ~Removes(h, i)
    BY DEF Chunks, Removes
<1> QED
    BY <1>1 DEF Untouched, Chunks, Removes

-----------------------------------------------------------------------------
(* The steps of a chunk.                                                   *)

LEMMA ChunkStartKeeps ==
    ASSUME UploadInv, NEW h \in Handlers, NEW i \in Ids, NEW offset \in 0..Quota, NEW len \in 1..ChunkSize,
           ChunkStart(h, i, offset, len)
    PROVE  UploadInv'
<1>1. TypeOK /\ Traced(i) /\ (i \notin raced => Alone(i)) /\ h \in Slots
    BY Parts DEF Slots
<1> DEFINE row == [op |-> "chunk", pc |-> "read", id |-> i, offset |-> offset, len |-> len,
                   path |-> meta[i].path, size |-> meta[i].size]
<1>2. /\ handler[h] = None /\ meta[i] # None /\ offset = Length(tmp[i])
      /\ handler' = [handler EXCEPT ![h] = row]
      /\ raced' = IF ChunkUnderWay(i) THEN raced \cup {i} ELSE raced
      /\ shared' \in BOOLEAN
      /\ meta' = meta /\ tmp' = tmp /\ file' = file
    <2>1. shared' \in BOOLEAN
        BY <1>1 DEF ChunkStart, TypeOK
    <2> QED
        BY <2>1 DEF ChunkStart, Free, OffsetMatches, Start, spaceVars
<1>3. /\ row \in ChunkRow /\ row.op = "chunk" /\ row.pc = "read" /\ row.id = i /\ row.offset = offset
      /\ row.path = meta[i].path /\ row.size = meta[i].size
    <2>1. meta[i] \in Meta
        BY <1>1, <1>2 DEF TypeOK
    <2>2. meta[i].path \in Paths /\ meta[i].size \in Sizes /\ offset \in Nat
        BY <2>1, UploadAssumption DEF Meta
    <2> QED
        BY <2>2 DEF ChunkRow
<1> HIDE DEF row
<1>4. RowBecomes(h, row) /\ row # None
    BY <1>1, <1>2, <1>3, RowSet, UploadAssumption DEF Rows
<1>5. TypeOK'
    BY <1>1, <1>2, <1>4 DEF TypeOK, RowBecomes, Rows
<1>6. \A j \in Ids \ {i} : Untouched(j)
    BY <1>1, <1>2, <1>3, <1>4, OtherUploads DEF RowBecomes
<1>7. Traced(i)'
    BY <1>2 DEF Traced
<1>8. ASSUME i \notin raced'
      PROVE  Alone(i)'
    <2>1. Alone(i) /\ ~ChunkUnderWay(i)
        BY <1>1, <1>2, <1>8
    <2>2. \A k \in Slots : ~Chunks(k, i) /\ ~Removes(k, i)
        BY <1>2, <2>1 DEF Alone, Holds, ChunkUnderWay, Chunks
    <2>3. \A k \in Slots : ~Removes(k, i)' /\ (Chunks(k, i)' => k = h)
        BY <1>3, <1>4, <2>2 DEF Chunks, Removes, RowBecomes
    <2>4. Holds(h, i)'
        BY <1>2, <1>3, <1>4 DEF Holds, RowBecomes
    <2>5. tmp'[i] # None => tmp'[i] = Whole(Len(tmp'[i]))
        BY <1>2, <2>1 DEF Alone
    <2> QED
        BY <2>3, <2>4, <2>5 DEF Alone
<1>9. \A p \in Paths : file'[p] # None => file'[p].raced \/ file'[p].whole
    BY <1>2, Parts
<1> QED
    BY <1>5, <1>6, <1>7, <1>8, <1>9, TogetherBut

\* A request ended that touched nothing.
LEMMA EndKeeps ==
    ASSUME UploadInv, NEW h \in Slots, handler[h] # None, handler[h].op # "remove", End(h),
           UNCHANGED <<meta, tmp, file, raced, shared>>
    PROVE  UploadInv'
<1>1. TypeOK /\ \A p \in Paths : file[p] # None => file[p].raced \/ file[p].whole
    BY Parts
<1>2. RowBecomes(h, None)
    BY <1>1, RowSet DEF End, Rows
<1>3. TypeOK'
    BY <1>1, <1>2 DEF TypeOK, RowBecomes, Rows
<1>4. \A i \in Ids : Untouched(i)
    BY <1>1, <1>2, OtherRequest DEF Rows
<1> QED
    BY <1>1, <1>3, <1>4, Together

\* What a chunk's request knows of its upload.
LEMMA ChunkKnows ==
    ASSUME UploadInv, NEW h \in Slots, handler[h] # None, handler[h].op = "chunk",
           handler[h].id \notin raced
    PROVE  /\ Alone(handler[h].id) /\ Holds(h, handler[h].id)
           /\ \A k \in Slots : ~Removes(k, handler[h].id) /\ (Chunks(k, handler[h].id) => k = h)
<1>1. TypeOK /\ handler[h].id \in Ids /\ Chunks(h, handler[h].id)
    BY Parts, ChunkFields DEF Chunks
<1>2. Alone(handler[h].id)
    BY <1>1, Parts
<1> QED
    BY <1>1, <1>2 DEF Alone, Holds

\* The quota is looked up, or walked for, or compared with what a walk found.
LEMMA ChunkQuotaKeeps ==
    ASSUME UploadInv, NEW h \in Slots, ChunkQuota(h) \/ ChunkCount(h) \/ ChunkStore(h)
    PROVE  UploadInv'
<1>1. /\ TypeOK /\ handler[h] # None /\ handler[h].op = "chunk" /\ handler[h].pc \in {"read", "counted"}
      /\ UNCHANGED <<meta, tmp, file, raced, shared>>
    BY Parts DEF ChunkQuota, ChunkCount, ChunkStore, At, spaceVars
<1>2. PICK i \in Ids : i = handler[h].id
    BY <1>1, ChunkFields
<1>3. CASE End(h)
    BY <1>1, <1>3, EndKeeps
<1>4. ASSUME NEW pc \in {"counted", "append"}, Goto(h, pc)
      PROVE  UploadInv'
    <2>1. Goes(h, pc)
        BY <1>1, <1>4, GotoShape
    <2>2. TypeOK'
        BY <1>1, <2>1 DEF TypeOK, Goes, Rows
    <2>3. \A j \in Ids \ {i} : Untouched(j)
        BY <1>1, <1>2, <2>1, OtherUploads DEF Goes
    <2>4. Traced(i)'
        BY <1>1, <1>2, <2>1, Parts DEF Traced, Removes, Goes
    <2>5. ASSUME i \notin raced'
          PROVE  Alone(i)'
        <3>1. /\ Alone(i) /\ Holds(h, i)
              /\ \A k \in Slots : ~Removes(k, i) /\ (Chunks(k, i) => k = h)
            BY <1>1, <1>2, <2>5, ChunkKnows
        <3>2. \A k \in Slots : ~Removes(k, i)' /\ (Chunks(k, i)' => k = h)
            BY <1>1, <2>1, <3>1 DEF Chunks, Removes, Goes
        <3>3. Holds(h, i)'
            BY <1>1, <2>1, <3>1 DEF Holds, Goes
        <3> QED
            BY <1>1, <3>1, <3>2, <3>3 DEF Alone
    <2>6. \A p \in Paths : file'[p] # None => file'[p].raced \/ file'[p].whole
        BY <1>1, Parts
    <2> QED
        BY <2>2, <2>3, <2>4, <2>5, <2>6, TogetherBut
<1> QED
    BY <1>3, <1>4 DEF ChunkQuota, ChunkCount, ChunkStore

\* What an append leaves; alone, it leaves a longer beginning of the file.
LEMMA AppendShape ==
    ASSUME UploadInv, NEW h \in Slots, handler[h] # None, handler[h].op = "chunk", handler[h].pc = "append",
           NEW i \in Ids, i = handler[h].id, NEW k \in Nat, tmp' = Appended(h, k)
    PROVE  /\ tmp' \in [Ids -> {None} \cup Content] /\ tmp'[i] # None
           /\ \A j \in Ids \ {i} : tmp'[j] = tmp[j]
           /\ i \notin raced => tmp'[i] = Whole(handler[h].offset + k)
<1>1. TypeOK /\ handler[h].offset \in Nat /\ tmp \in [Ids -> {None} \cup Content] /\ <<>> \in Content
    BY Parts, ChunkFields DEF TypeOK, Content
<1> DEFINE old == IF tmp[i] = None THEN <<>> ELSE tmp[i]
           new == old \o Units(handler[h].offset, k)
<1>2. old \in Content
    BY <1>1
<1>3. new \in Content
    BY <1>1, <1>2, UnitsShape
<1>4. tmp' = [tmp EXCEPT ![i] = new]
    BY DEF Appended, Units
<1>5. ASSUME i \notin raced
      PROVE  new = Whole(handler[h].offset + k)
    <2>1. Alone(i) /\ handler[h].offset = Length(tmp[i])
        BY <1>5, ChunkKnows DEF Holds
    <2>2. old = Whole(handler[h].offset)
        <3>1. CASE tmp[i] = None
            <4>1. handler[h].offset = 0 /\ old = <<>>
                BY <2>1, <3>1 DEF Length
            <4>2. Whole(0) = <<>>
                BY DEF Whole
            <4> QED
                BY <4>1, <4>2
        <3>2. CASE tmp[i] # None
            BY <2>1, <3>2 DEF Length, Alone
        <3> QED
            BY <3>1, <3>2
    <2> QED
        BY <1>1, <2>2, WholeGrows
<1> HIDE DEF new
<1>6. new # None
    BY <1>3, UploadAssumption
<1> QED
    BY <1>1, <1>3, <1>4, <1>5, <1>6

LEMMA ChunkAppendKeeps ==
    ASSUME UploadInv, NEW h \in Slots, ChunkAppend(h)
    PROVE  UploadInv'
<1>1. /\ TypeOK /\ handler[h] # None /\ handler[h].op = "chunk" /\ handler[h].pc = "append"
      /\ UNCHANGED <<meta, file, raced, shared>>
    BY Parts DEF ChunkAppend, At
<1>2. PICK i \in Ids : i = handler[h].id
    BY <1>1, ChunkFields
<1>3. Goes(h, "appended") /\ handler[h].len \in Nat /\ handler[h].offset \in Nat
    BY <1>1, ChunkFields, GotoShape DEF ChunkAppend
<1>4. /\ tmp' \in [Ids -> {None} \cup Content] /\ tmp'[i] # None
      /\ \A j \in Ids \ {i} : tmp'[j] = tmp[j]
      /\ i \notin raced => tmp'[i] = Whole(handler[h].offset + handler[h].len)
    BY <1>1, <1>2, <1>3, AppendShape DEF ChunkAppend
<1>5. TypeOK'
    BY <1>1, <1>3, <1>4 DEF TypeOK, Goes, Rows
<1>6. \A j \in Ids \ {i} : Untouched(j)
    BY <1>1, <1>2, <1>3, <1>4, OtherUploads DEF Goes
<1>7. ASSUME i \notin raced
      PROVE  Alone(i)' /\ meta[i] # None
    <2>1. /\ Alone(i) /\ Holds(h, i)
          /\ \A k \in Slots : ~Removes(k, i) /\ (Chunks(k, i) => k = h)
        BY <1>1, <1>2, <1>7, ChunkKnows
    <2>2. \A k \in Slots : ~Removes(k, i)' /\ (Chunks(k, i)' => k = h)
        BY <1>1, <1>3, <2>1 DEF Chunks, Removes, Goes
    <2>3. tmp'[i] = Whole(Len(tmp'[i])) /\ Len(tmp'[i]) = handler[h].offset + handler[h].len
        <3>1. handler[h].offset + handler[h].len \in Nat
            BY <1>3
        <3> QED
            BY <1>4, <1>7, <3>1, WholeShape
    <2>4. Holds(h, i)'
        BY <1>1, <1>3, <1>4, <2>1, <2>3 DEF Holds, Goes, NewSize
    <2> QED
        BY <2>1, <2>2, <2>3, <2>4 DEF Alone, Holds
<1>8. Traced(i)'
    BY <1>1, <1>7 DEF Traced
<1>9. \A p \in Paths : file'[p] # None => file'[p].raced \/ file'[p].whole
    BY <1>1, Parts
<1> QED
    BY <1>1, <1>5, <1>6, <1>7, <1>8, <1>9, TogetherBut

LEMMA ChunkAppendFailsKeeps ==
    ASSUME UploadInv, NEW h \in Slots, NEW k \in 0..ChunkSize - 1, ChunkAppendFails(h, k)
    PROVE  UploadInv'
<1>1. /\ TypeOK /\ handler[h] # None /\ handler[h].op = "chunk" /\ handler[h].pc = "append"
      /\ UNCHANGED <<meta, file, raced, shared>>
    BY Parts DEF ChunkAppendFails, At
<1>2. PICK i \in Ids : i = handler[h].id
    BY <1>1, ChunkFields
<1>3. RowBecomes(h, None) /\ k \in Nat /\ handler[h].offset \in Nat
    <2>1. \A x \in 0..ChunkSize - 1 : x \in Nat
        OBVIOUS
    <2>2. RowBecomes(h, None)
        BY <1>1, RowSet DEF ChunkAppendFails, End, Rows
    <2> QED
        BY <1>1, <2>1, <2>2, ChunkFields
<1>4. /\ tmp' \in [Ids -> {None} \cup Content] /\ tmp'[i] # None
      /\ \A j \in Ids \ {i} : tmp'[j] = tmp[j]
      /\ i \notin raced => tmp'[i] = Whole(handler[h].offset + k)
    BY <1>1, <1>2, <1>3, AppendShape DEF ChunkAppendFails
<1>5. TypeOK'
    BY <1>1, <1>3, <1>4 DEF TypeOK, RowBecomes, Rows
<1>6. \A j \in Ids \ {i} : Untouched(j)
    BY <1>1, <1>2, <1>3, <1>4, OtherUploads DEF RowBecomes
<1>7. ASSUME i \notin raced
      PROVE  Alone(i)' /\ meta[i] # None
    <2>1. /\ Alone(i) /\ Holds(h, i)
          /\ \A g \in Slots : ~Removes(g, i) /\ (Chunks(g, i) => g = h)
        BY <1>1, <1>2, <1>7, ChunkKnows
    <2>2. \A g \in Slots : ~Removes(g, i)' /\ ~Chunks(g, i)'
        BY <1>1, <1>3, <2>1 DEF Chunks, Removes, RowBecomes
    <2>3. tmp'[i] = Whole(Len(tmp'[i]))
        BY <1>3, <1>4, <1>7, WholeShape
    <2> QED
        BY <2>1, <2>2, <2>3 DEF Alone, Holds
<1>8. Traced(i)'
    BY <1>1, <1>7 DEF Traced
<1>9. \A p \in Paths : file'[p] # None => file'[p].raced \/ file'[p].whole
    BY <1>1, Parts
<1> QED
    BY <1>1, <1>5, <1>6, <1>7, <1>8, <1>9, TogetherBut

LEMMA ChunkTooLongKeeps ==
    ASSUME UploadInv, NEW h \in Slots, ChunkTooLong(h)
    PROVE  UploadInv'
<1>1. /\ TypeOK /\ handler[h] # None /\ handler[h].op = "chunk"
      /\ UNCHANGED <<file, raced, shared>>
    BY Parts DEF ChunkTooLong, At
<1>2. PICK i \in Ids : i = handler[h].id
    BY <1>1, ChunkFields
<1>3. /\ RowBecomes(h, None)
      /\ tmp' = [tmp EXCEPT ![i] = None] /\ meta' = [meta EXCEPT ![i] = None]
    BY <1>1, <1>2, RowSet DEF ChunkTooLong, End, WithoutTmp, Rows
<1>4. TypeOK'
    BY <1>1, <1>3 DEF TypeOK, RowBecomes, Rows
<1>5. \A j \in Ids \ {i} : Untouched(j)
    BY <1>1, <1>2, <1>3, OtherUploads DEF RowBecomes, TypeOK
<1>6. tmp'[i] = None
    BY <1>1, <1>3 DEF TypeOK
<1>7. ASSUME i \notin raced'
      PROVE  Alone(i)'
    <2>1. \A k \in Slots : ~Removes(k, i) /\ (Chunks(k, i) => k = h)
        BY <1>1, <1>2, <1>7, ChunkKnows
    <2>2. \A k \in Slots : ~Removes(k, i)' /\ ~Chunks(k, i)'
        BY <1>1, <1>3, <2>1 DEF Chunks, Removes, RowBecomes
    <2> QED
        BY <1>6, <2>2 DEF Alone
<1>8. \A p \in Paths : file'[p] # None => file'[p].raced \/ file'[p].whole
    BY <1>1, Parts
<1> QED
    BY <1>4, <1>5, <1>6, <1>7, <1>8, TogetherBut DEF Traced

LEMMA ChunkStoredKeeps ==
    ASSUME UploadInv, NEW h \in Slots, ChunkStored(h)
    PROVE  UploadInv'
BY EndKeeps DEF ChunkStored, At, spaceVars

\* The file published is the temporary one, whole if no other request met.
LEMMA PublishKeeps ==
    ASSUME UploadInv, NEW h \in Slots, Publish(h)
    PROVE  UploadInv'
<1>1. /\ TypeOK /\ handler[h] # None /\ handler[h].op = "chunk" /\ handler[h].pc = "appended"
      /\ UNCHANGED <<meta, raced, shared>> /\ NewSize(h) = handler[h].size
    BY Parts DEF Publish, At
<1>2. PICK i \in Ids : i = handler[h].id
    BY <1>1, ChunkFields
<1>3. CASE tmp[i] = None
    BY <1>1, <1>2, <1>3, EndKeeps DEF Publish
<1>4. CASE tmp[i] # None
    <2> DEFINE new == [len |-> Len(tmp[i]), whole |-> tmp[i] = Whole(handler[h].size), raced |-> i \in raced]
    <2>1. /\ file' = [file EXCEPT ![handler[h].path] = new]
          /\ tmp' = [tmp EXCEPT ![i] = None]
          /\ Goto(h, "moved")
        BY <1>2, <1>4 DEF Publish
    <2>2. new \in File /\ new.raced = (i \in raced) /\ new.whole = (tmp[i] = Whole(handler[h].size))
        BY <1>1, <1>4 DEF TypeOK, File, Content
    <2>3. new.raced \/ new.whole
        <3>1. CASE i \in raced
            BY <2>2, <3>1
        <3>2. CASE i \notin raced
            <4>1. Alone(i) /\ Holds(h, i)
                BY <1>1, <1>2, <3>2, ChunkKnows
            <4>2. tmp[i] = Whole(Len(tmp[i])) /\ Len(tmp[i]) = handler[h].size
                BY <1>1, <1>4, <4>1 DEF Alone, Holds
            <4> QED
                BY <2>2, <4>2
        <3> QED
            BY <3>1, <3>2
    <2> HIDE DEF new
    <2>4. Goes(h, "moved") /\ handler[h].path \in Paths
        BY <1>1, <2>1, ChunkFields, GotoShape
    <2>5. TypeOK'
        BY <1>1, <2>1, <2>2, <2>4 DEF TypeOK, Goes, Rows
    <2>6. \A p \in Paths : file'[p] # None => file'[p].raced \/ file'[p].whole
        BY <1>1, <2>1, <2>3, <2>4, Parts DEF TypeOK
    <2>7. tmp'[i] = None /\ \A j \in Ids \ {i} : tmp'[j] = tmp[j]
        BY <1>1, <2>1 DEF TypeOK
    <2>8. \A j \in Ids \ {i} : Untouched(j)
        BY <1>1, <1>2, <2>4, <2>7, OtherUploads DEF Goes
    <2>9. ASSUME i \notin raced'
          PROVE  Alone(i)'
        <3>1. /\ Holds(h, i)
              /\ \A k \in Slots : ~Removes(k, i) /\ (Chunks(k, i) => k = h)
            BY <1>1, <1>2, <2>9, ChunkKnows
        <3>2. \A k \in Slots : ~Removes(k, i)' /\ (Chunks(k, i)' => k = h)
            BY <1>1, <2>4, <3>1 DEF Chunks, Removes, Goes
        <3>3. Holds(h, i)'
            BY <1>1, <2>4, <2>7, <3>1 DEF Holds, Goes
        <3> QED
            BY <2>7, <3>2, <3>3 DEF Alone
    <2> QED
        BY <2>5, <2>6, <2>7, <2>8, <2>9, TogetherBut DEF Traced
<1> QED
    BY <1>3, <1>4

LEMMA ChunkDoneKeeps ==
    ASSUME UploadInv, NEW h \in Slots, ChunkDone(h)
    PROVE  UploadInv'
<1>1. /\ TypeOK /\ handler[h] # None /\ handler[h].op = "chunk" /\ handler[h].pc = "moved"
      /\ UNCHANGED <<tmp, file, raced>> /\ shared' \in BOOLEAN
    BY Parts DEF ChunkDone, At, TypeOK
<1>2. PICK i \in Ids : i = handler[h].id
    BY <1>1, ChunkFields
<1>3. RowBecomes(h, None) /\ meta' = [meta EXCEPT ![i] = None]
    BY <1>1, <1>2, RowSet DEF ChunkDone, End, Rows
<1>4. TypeOK'
    BY <1>1, <1>3 DEF TypeOK, RowBecomes, Rows
<1>5. \A j \in Ids \ {i} : Untouched(j)
    BY <1>1, <1>2, <1>3, OtherUploads DEF RowBecomes, TypeOK
<1>6. ASSUME i \notin raced'
      PROVE  Alone(i)' /\ tmp'[i] = None
    <2>1. /\ tmp[i] = None
          /\ \A k \in Slots : ~Removes(k, i) /\ (Chunks(k, i) => k = h)
        BY <1>1, <1>2, <1>6, ChunkKnows DEF Holds
    <2>2. \A k \in Slots : ~Removes(k, i)' /\ ~Chunks(k, i)'
        BY <1>1, <1>3, <2>1 DEF Chunks, Removes, RowBecomes
    <2> QED
        BY <1>1, <2>1, <2>2 DEF Alone
<1>7. \A p \in Paths : file'[p] # None => file'[p].raced \/ file'[p].whole
    BY <1>1, Parts
<1> QED
    BY <1>4, <1>5, <1>6, <1>7, TogetherBut DEF Traced

-----------------------------------------------------------------------------
(* The other steps.                                                        *)

\* A request to remove an upload marks it raced if it meets a chunk's.
LEMMA RemoveKeeps ==
    ASSUME UploadInv, NEW h \in Slots, NEW i \in Ids, NEW found \in BOOLEAN, Free(h),
           meta' = [meta EXCEPT ![i] = None],
           Start(h, [op |-> "remove", id |-> i, found |-> found]),
           RacedWith(i), UNCHANGED <<tmp, file>>
    PROVE  UploadInv'
<1>1. TypeOK /\ Traced(i) /\ (i \notin raced => Alone(i))
    BY Parts
<1> DEFINE row == [op |-> "remove", id |-> i, found |-> found]
<1>2. row \in OtherRow /\ row.op = "remove" /\ row.id = i
    BY DEF OtherRow
<1>3. handler' = [handler EXCEPT ![h] = row] /\ handler[h] = None
    BY DEF Start, Free
<1> HIDE DEF row
<1>4. RowBecomes(h, row) /\ row # None
    BY <1>1, <1>2, <1>3, RowSet, UploadAssumption DEF Rows
<1>5. raced' = (IF ChunkUnderWay(i) THEN raced \cup {i} ELSE raced) /\ shared' \in BOOLEAN
    BY <1>1 DEF RacedWith, TypeOK
<1>6. TypeOK'
    BY <1>1, <1>4, <1>5 DEF TypeOK, RowBecomes, Rows
<1>7. /\ meta'[i] = None /\ \A j \in Ids \ {i} : meta'[j] = meta[j]
    BY <1>1 DEF TypeOK
<1>8. \A j \in Ids \ {i} : Untouched(j)
    BY <1>1, <1>2, <1>3, <1>4, <1>5, <1>7, OtherUploads DEF RowBecomes
<1>9. Traced(i)'
    BY <1>2, <1>4 DEF Traced, Removes, RowBecomes
<1>10. ASSUME i \notin raced'
       PROVE  Alone(i)'
    <2>1. Alone(i) /\ ~ChunkUnderWay(i)
        BY <1>1, <1>5, <1>10
    <2>2. \A k \in Slots : ~Chunks(k, i)
        BY <2>1 DEF Alone, Holds, ChunkUnderWay, Chunks
    <2>3. \A k \in Slots : ~Chunks(k, i)'
        BY <1>2, <1>4, <2>2 DEF Chunks, RowBecomes
    <2> QED
        BY <1>7, <2>1, <2>3 DEF Alone
<1>11. \A p \in Paths : file'[p] # None => file'[p].raced \/ file'[p].whole
    BY Parts
<1> QED
    BY <1>6, <1>8, <1>9, <1>10, <1>11, TogetherBut

LEMMA RemoveTmpKeeps ==
    ASSUME UploadInv, NEW h \in Slots, RemoveTmp(h)
    PROVE  UploadInv'
<1>1. /\ TypeOK /\ handler[h] # None /\ handler[h].op = "remove"
      /\ UNCHANGED <<meta, file, raced, shared>>
    BY Parts DEF RemoveTmp
<1>2. PICK i \in Ids : i = handler[h].id
    BY <1>1, RemoveFields
<1>3. RowBecomes(h, None) /\ tmp' = [tmp EXCEPT ![i] = None]
    BY <1>1, <1>2, RowSet DEF RemoveTmp, End, WithoutTmp, Rows
<1>4. TypeOK'
    BY <1>1, <1>3 DEF TypeOK, RowBecomes, Rows
<1>5. tmp'[i] = None /\ \A j \in Ids \ {i} : tmp'[j] = tmp[j]
    BY <1>1, <1>3 DEF TypeOK
<1>6. \A j \in Ids \ {i} : Untouched(j)
    BY <1>1, <1>2, <1>3, <1>5, OtherUploads DEF RowBecomes
<1>7. ASSUME i \notin raced'
      PROVE  Alone(i)'
    <2>1. Alone(i) /\ Removes(h, i) /\ meta[i] = None
        BY <1>1, <1>2, <1>7, Parts DEF Alone, Removes
    <2>2. \A k \in Slots : ~Chunks(k, i)
        BY <2>1 DEF Alone, Holds
    <2>3. \A k \in Slots : ~Chunks(k, i)'
        BY <1>3, <2>2 DEF Chunks, RowBecomes
    <2> QED
        BY <1>1, <1>5, <2>1, <2>3 DEF Alone
<1>8. \A p \in Paths : file'[p] # None => file'[p].raced \/ file'[p].whole
    BY <1>1, Parts
<1> QED
    BY <1>4, <1>5, <1>6, <1>7, <1>8, TogetherBut DEF Traced

\* A request that works on no upload has come, gone on or ended.
LEMMA ElsewhereKeeps ==
    ASSUME UploadInv, NEW h \in Slots, NEW row \in Rows, handler' = [handler EXCEPT ![h] = row],
           handler[h] = None \/ handler[h].op \in {"init", "move"},
           row = None \/ row.op \in {"init", "move"},
           UNCHANGED <<meta, tmp, raced>>, shared' \in BOOLEAN,
           file' \in [Paths -> {None} \cup File],
           \A p \in Paths : file'[p] # None => \E q \in Paths : file'[p] = file[q]
    PROVE  UploadInv'
<1>1. TypeOK /\ \A p \in Paths : file[p] # None => file[p].raced \/ file[p].whole
    BY Parts
<1>2. RowBecomes(h, row)
    BY <1>1, RowSet
<1>3. TypeOK'
    BY <1>1, <1>2 DEF TypeOK, RowBecomes, Rows
<1>4. \A i \in Ids : Untouched(i)
    BY <1>1, <1>2, OtherRequest
<1>5. \A p \in Paths : file'[p] # None => file'[p].raced \/ file'[p].whole
    BY <1>1
<1> QED
    BY <1>3, <1>4, <1>5, Together

LEMMA InitLookupKeeps ==
    ASSUME UploadInv, NEW h \in Handlers, NEW p \in Paths, NEW s \in Sizes,
           InitLookup(h, p, s) \/ InitCount(h, p, s)
    PROVE  UploadInv'
<1>1. TypeOK /\ h \in Slots
    BY Parts DEF Slots
<1>2. /\ shared' \in BOOLEAN /\ handler[h] = None
      /\ UNCHANGED <<meta, tmp, file, raced>>
    BY <1>1 DEF InitLookup, InitCount, Free, TypeOK, spaceVars
<1>3. file' \in [Paths -> {None} \cup File] /\ \A q \in Paths : file'[q] = file[q]
    BY <1>1, <1>2 DEF TypeOK
<1>4. ASSUME NEW pc \in {"counted", "create"},
             handler' = [handler EXCEPT ![h] = [op |-> "init", pc |-> pc, path |-> p, size |-> s]]
      PROVE  UploadInv'
    <2> DEFINE row == [op |-> "init", pc |-> pc, path |-> p, size |-> s]
    <2>1. row \in Rows /\ row.op = "init"
        BY DEF Rows, OtherRow
    <2>2. handler' = [handler EXCEPT ![h] = row]
        BY <1>4
    <2> HIDE DEF row
    <2> QED
        BY <1>1, <1>2, <1>3, <2>1, <2>2, ElsewhereKeeps
<1>5. CASE handler' = handler
    <2>1. handler' = [handler EXCEPT ![h] = None] /\ None \in Rows
        BY <1>1, <1>2, <1>5 DEF TypeOK, Rows
    <2> QED
        BY <1>1, <1>2, <1>3, <2>1, ElsewhereKeeps
<1> QED
    BY <1>4, <1>5 DEF InitLookup, InitCount, Start

\* What becomes of a request to begin an upload whose walk has ended.
LEMMA InitStoreShape ==
    ASSUME TypeOK, NEW h \in Slots, InitStore(h)
    PROVE  /\ handler[h] # None /\ handler[h].op = "init" /\ handler[h].pc = "counted"
           /\ handler[h].size \in Sizes
           /\ \E row \in Rows :
                 /\ handler' = [handler EXCEPT ![h] = row]
                 /\ \/ row = None /\ shared' = shared
                    \/ /\ row # None /\ row.op = "init" /\ row.pc = "create" /\ row.size = handler[h].size
                       /\ InitAdmits(count[h], handler[h].path, handler[h].size)
                       /\ shared' = (shared \/ OtherUpload)
<1>1. handler[h] # None /\ handler[h].op = "init" /\ handler[h].pc = "counted"
    BY DEF InitStore, At
<1>2. handler[h] \in ChunkRow \cup OtherRow
    BY <1>1 DEF TypeOK
<1>3. handler[h] \in [op : {"init"}, pc : {"counted", "create"}, path : Paths, size : Sizes]
    BY <1>1, <1>2 DEF ChunkRow, OtherRow
<1>4. handler[h].size \in Sizes
    BY <1>3
<1>5. CASE InitAdmits(count[h], handler[h].path, handler[h].size)
    <2> DEFINE new == [handler[h] EXCEPT !.pc = "create"]
    <2>1. new \in OtherRow /\ new.op = "init" /\ new.pc = "create" /\ new.size = handler[h].size
        BY <1>3 DEF OtherRow
    <2>2. handler' = [handler EXCEPT ![h] = new] /\ shared' = (shared \/ OtherUpload)
        BY <1>5 DEF InitStore, Goto
    <2> HIDE DEF new
    <2>3. new # None /\ new \in Rows
        BY <2>1, UploadAssumption DEF Rows
    <2> QED
        BY <1>1, <1>4, <1>5, <2>1, <2>2, <2>3
<1>6. CASE ~InitAdmits(count[h], handler[h].path, handler[h].size)
    <2>1. handler' = [handler EXCEPT ![h] = None] /\ shared' = shared /\ None \in Rows
        BY <1>6 DEF InitStore, End, Rows
    <2> QED
        BY <1>1, <1>4, <2>1
<1> QED
    BY <1>5, <1>6

LEMMA InitStoreKeeps ==
    ASSUME UploadInv, NEW h \in Slots, InitStore(h)
    PROVE  UploadInv'
<1>1. TypeOK
    BY Parts
<1>2. PICK row \in Rows : /\ handler' = [handler EXCEPT ![h] = row]
                          /\ row = None \/ row.op = "init"
                          /\ shared' \in {shared, shared \/ OtherUpload}
    BY <1>1, InitStoreShape
<1>3. handler[h].op = "init" /\ UNCHANGED <<meta, tmp, file, raced>> /\ shared' \in BOOLEAN
    BY <1>1, <1>2 DEF InitStore, At, spaceVars, TypeOK
<1>4. file' \in [Paths -> {None} \cup File] /\ \A q \in Paths : file'[q] = file[q]
    BY <1>1, <1>3 DEF TypeOK
<1> QED
    BY <1>2, <1>3, <1>4, ElsewhereKeeps

\* A new upload takes an id nothing is left of.
LEMMA InitCreateKeeps ==
    ASSUME UploadInv, NEW h \in Slots, NEW i \in Ids, InitCreate(h, i)
    PROVE  UploadInv'
<1>1. /\ TypeOK /\ handler[h] # None /\ handler[h].op = "init" /\ FreshId(i)
      /\ UNCHANGED <<file, shared>> /\ raced' = raced \ {i}
      /\ handler' = [handler EXCEPT ![h] = None] /\ tmp' = [tmp EXCEPT ![i] = <<>>]
    BY Parts DEF InitCreate, At, End
<1> DEFINE new == [path |-> handler[h].path, size |-> handler[h].size, age |-> 0]
<1>2. new \in Meta
    <2>1. handler[h] \in ChunkRow \cup OtherRow
        BY <1>1 DEF TypeOK
    <2>2. handler[h].path \in Paths /\ handler[h].size \in Sizes
        BY <1>1, <2>1 DEF ChunkRow, OtherRow
    <2>3. 0 \in 0..StaleAge
        BY UploadAssumption
    <2> QED
        BY <2>2, <2>3 DEF Meta
<1>3. meta' = [meta EXCEPT ![i] = new]
    BY DEF InitCreate
<1> HIDE DEF new
<1>4. RowBecomes(h, None) /\ new # None /\ <<>> \in Content
    <2>1. RowBecomes(h, None)
        BY <1>1, RowSet DEF Rows
    <2>2. new # None
        BY <1>2, UploadAssumption
    <2> QED
        BY <2>1, <2>2 DEF Content
<1>5. /\ meta' \in [Ids -> Meta \cup {None}] /\ meta'[i] # None
      /\ tmp' \in [Ids -> {None} \cup Content] /\ tmp'[i] = <<>>
      /\ \A j \in Ids \ {i} : meta'[j] = meta[j] /\ tmp'[j] = tmp[j]
    BY <1>1, <1>2, <1>3, <1>4 DEF TypeOK
<1>6. TypeOK'
    BY <1>1, <1>4, <1>5 DEF TypeOK, RowBecomes, Rows
<1>7. \A j \in Ids \ {i} : Untouched(j)
    BY <1>1, <1>4, <1>5, OtherRequest, OtherUploads DEF RowBecomes
<1>8. Alone(i)'
    <2>1. \A k \in Slots : ~Chunks(k, i) /\ ~Removes(k, i)
        BY <1>1 DEF FreshId, Chunks, Removes
    <2>2. \A k \in Slots : ~Chunks(k, i)' /\ ~Removes(k, i)'
        BY <1>4, <2>1 DEF Chunks, Removes, RowBecomes
    <2>3. <<>> = Whole(Len(<<>>))
        BY DEF Whole
    <2> QED
        BY <1>5, <2>2, <2>3 DEF Alone
<1>9. \A p \in Paths : file'[p] # None => file'[p].raced \/ file'[p].whole
    BY <1>1, Parts
<1> QED
    BY <1>5, <1>6, <1>7, <1>8, <1>9, TogetherBut DEF Traced

LEMMA MovesKeep ==
    ASSUME UploadInv,
           \/ \E h \in Handlers, p, q \in Paths : MoveCheck(h, p, q)
           \/ \E h \in Slots : Move(h)
    PROVE  UploadInv'
<1>1. TypeOK
    BY Parts
<1>2. ASSUME NEW h \in Handlers, NEW p \in Paths, NEW q \in Paths, MoveCheck(h, p, q)
      PROVE  UploadInv'
    <2> DEFINE row == [op |-> "move", from |-> p, to |-> q]
    <2>1. row \in Rows /\ row.op = "move" /\ h \in Slots
        BY DEF Rows, OtherRow, Slots
    <2>2. /\ handler' = [handler EXCEPT ![h] = row] /\ handler[h] = None
          /\ UNCHANGED <<meta, tmp, file, raced, shared>>
        BY <1>2 DEF MoveCheck, Start, Free, spaceVars
    <2>3. /\ file' \in [Paths -> {None} \cup File] /\ shared' \in BOOLEAN
          /\ \A r \in Paths : file'[r] = file[r]
        BY <1>1, <2>2 DEF TypeOK
    <2> HIDE DEF row
    <2> QED
        BY <2>1, <2>2, <2>3, ElsewhereKeeps
<1>3. ASSUME NEW h \in Slots, Move(h)
      PROVE  UploadInv'
    <2>1. /\ handler' = [handler EXCEPT ![h] = None] /\ handler[h] # None /\ handler[h].op = "move"
          /\ UNCHANGED <<meta, tmp, raced>> /\ shared' \in BOOLEAN /\ None \in Rows
        BY <1>1, <1>3 DEF Move, End, Rows, TypeOK
    <2>2. handler[h].from \in Paths /\ handler[h].to \in Paths
        <3>1. handler[h] \in ChunkRow \cup OtherRow
            BY <1>1, <2>1 DEF TypeOK
        <3> QED
            BY <2>1, <3>1 DEF ChunkRow, OtherRow
    <2>3. /\ file' \in [Paths -> {None} \cup File] /\ shared' \in BOOLEAN
          /\ \A r \in Paths : file'[r] # None => \E q \in Paths : file'[r] = file[q]
        <3>1. file \in [Paths -> {None} \cup File] /\ shared \in BOOLEAN
            BY <1>1 DEF TypeOK
        <3>2. CASE file[handler[h].from] = None
            BY <1>3, <2>1, <3>1, <3>2 DEF Move
        <3>3. CASE file[handler[h].from] # None
            <4>1. file' = [file EXCEPT ![handler[h].to] = file[handler[h].from], ![handler[h].from] = None]
                BY <1>3, <3>3 DEF Move
            <4> QED
                BY <2>1, <2>2, <3>1, <4>1
        <3> QED
            BY <3>2, <3>3
    <2> QED
        BY <2>1, <2>3, ElsewhereKeeps
<1> QED
    BY <1>2, <1>3

\* A day makes uploads older, and leaves them otherwise what they are.
LEMMA TickAges ==
    ASSUME TypeOK, Tick
    PROVE  /\ meta' \in [Ids -> Meta \cup {None}]
           /\ \A i \in Ids :
                 /\ meta'[i] = None <=> meta[i] = None
                 /\ meta[i] # None => meta'[i].path = meta[i].path /\ meta'[i].size = meta[i].size
<1>1. meta' = [i \in Ids |->
            IF meta[i] # None /\ meta[i].age < StaleAge
            THEN [meta[i] EXCEPT !.age = @ + 1] ELSE meta[i]]
    BY DEF Tick
<1>2. ASSUME NEW i \in Ids, meta[i] # None, meta[i].age < StaleAge
      PROVE  /\ [meta[i] EXCEPT !.age = @ + 1] \in Meta
             /\ [meta[i] EXCEPT !.age = @ + 1].path = meta[i].path
             /\ [meta[i] EXCEPT !.age = @ + 1].size = meta[i].size
    <2>1. meta[i] \in Meta
        BY <1>2 DEF TypeOK
    <2>2. meta[i].age \in 0..StaleAge
        BY <2>1 DEF Meta
    <2>3. meta[i].age + 1 \in 0..StaleAge
        BY <1>2, <2>2, UploadAssumption
    <2> DEFINE n == meta[i].age + 1
    <2>4. n \in 0..StaleAge
        BY <2>3
    <2>5. [meta[i] EXCEPT !.age = @ + 1] = [meta[i] EXCEPT !.age = n]
        OBVIOUS
    <2> HIDE DEF n
    <2> QED
        BY <2>1, <2>4, <2>5 DEF Meta
<1>3. ASSUME NEW i \in Ids
      PROVE  /\ meta'[i] \in Meta \cup {None}
             /\ meta'[i] = None <=> meta[i] = None
             /\ meta[i] # None => meta'[i].path = meta[i].path /\ meta'[i].size = meta[i].size
    <2>1. CASE meta[i] # None /\ meta[i].age < StaleAge
        <3>1. meta'[i] = [meta[i] EXCEPT !.age = @ + 1]
            BY <1>1, <2>1
        <3> QED
            BY <1>2, <2>1, <3>1, UploadAssumption
    <2>2. CASE ~(meta[i] # None /\ meta[i].age < StaleAge)
        <3>1. meta'[i] = meta[i]
            BY <1>1, <2>2
        <3> QED
            BY <3>1 DEF TypeOK
    <2> QED
        BY <2>1, <2>2
<1>4. \E f : meta' = [i \in Ids |-> f[i]]
    <2> DEFINE f == [i \in Ids |->
            IF meta[i] # None /\ meta[i].age < StaleAge
            THEN [meta[i] EXCEPT !.age = @ + 1] ELSE meta[i]]
    <2>1. meta' = f /\ f = [i \in Ids |-> f[i]]
        BY <1>1
    <2> QED
        BY <2>1
<1> QED
    BY <1>3, <1>4

\* Steps of no request at all.
LEMMA IdleKeeps ==
    ASSUME UploadInv,
           \/ \E p \in Paths : DeleteFile(p)
           \/ \E c \in Readers : SpaceCount(c) \/ SpaceStore(c)
           \/ Tick \/ UNCHANGED uploadVars
    PROVE  UploadInv'
<1>1. TypeOK /\ \A p \in Paths : file[p] # None => file[p].raced \/ file[p].whole
    BY Parts
<1>2. UNCHANGED <<tmp, handler, raced, shared>>
    BY DEF DeleteFile, SpaceCount, SpaceStore, Tick, uploadVars, spaceVars
<1>3. /\ file' \in [Paths -> {None} \cup File]
      /\ \A p \in Paths : file'[p] \in {None, file[p]}
    BY <1>1 DEF DeleteFile, SpaceCount, SpaceStore, Tick, uploadVars, spaceVars, TypeOK
<1>4. /\ meta' \in [Ids -> Meta \cup {None}]
      /\ \A i \in Ids :
            /\ meta'[i] = None <=> meta[i] = None
            /\ meta[i] # None => meta'[i].path = meta[i].path /\ meta'[i].size = meta[i].size
    <2>1. CASE Tick
        BY <1>1, <2>1, TickAges
    <2>2. CASE ~Tick
        <3>1. meta' = meta
            BY <2>2 DEF DeleteFile, SpaceCount, SpaceStore, uploadVars, spaceVars
        <3> QED
            BY <1>1, <3>1 DEF TypeOK
    <2> QED
        BY <2>1, <2>2
<1>5. TypeOK'
    BY <1>1, <1>2, <1>3, <1>4 DEF TypeOK
<1>6. \A i \in Ids : Untouched(i)
    BY <1>2, <1>4 DEF Untouched, Chunks, Removes
<1>7. \A p \in Paths : file'[p] # None => file'[p].raced \/ file'[p].whole
    BY <1>1, <1>3
<1> QED
    BY <1>5, <1>6, <1>7, Together

\* A crash forgets every request; what a removal leaves behind counts as raced.
LEMMA CrashKeeps ==
    ASSUME UploadInv, Crash
    PROVE  UploadInv'
<1>1. /\ TypeOK /\ \A p \in Paths : file[p] # None => file[p].raced \/ file[p].whole
      /\ \A i \in Ids : Traced(i) /\ (i \notin raced => Alone(i))
    BY Parts
<1>2. /\ \A h \in Slots : handler'[h] = None
      /\ handler' \in [Slots -> Rows]
      /\ \A i \in Ids : i \in raced' <=> i \in raced \/ (tmp[i] # None /\ \E h \in Slots : Removes(h, i))
      /\ raced' \subseteq Ids /\ UNCHANGED <<meta, tmp, file>>
    <2>1. raced' = raced \cup
            {i \in Ids : \E h \in Slots : /\ handler[h] # None /\ handler[h].op = "remove"
                                          /\ handler[h].id = i /\ tmp[i] # None}
        BY DEF Crash
    <2>2. raced \subseteq Ids
        BY <1>1 DEF TypeOK
    <2> QED
        BY <2>1, <2>2 DEF Crash, Removes, Rows, spaceVars
<1>3. shared' \in BOOLEAN
    BY <1>1 DEF Crash, TypeOK
<1>4. TypeOK'
    BY <1>1, <1>2, <1>3 DEF TypeOK, Rows
<1>5. ASSUME NEW i \in Ids
      PROVE  Kept(i)
    <2>1. Traced(i)'
        BY <1>1, <1>2 DEF Traced
    <2>2. ASSUME i \notin raced'
          PROVE  Alone(i)'
        <3>1. Alone(i)
            BY <1>1, <1>2, <2>2
        <3> QED
            BY <1>2, <3>1 DEF Alone, Chunks, Removes
    <2> QED
        BY <2>1, <2>2 DEF Kept
<1>6. \A p \in Paths : file'[p] # None => file'[p].raced \/ file'[p].whole
    BY <1>1, <1>2
<1> QED
    BY <1>4, <1>5, <1>6, Together

-----------------------------------------------------------------------------
LEMMA InitUploadInv == UploadInit => UploadInv
<1> SUFFICES ASSUME UploadInit
             PROVE  UploadInv
    OBVIOUS
<1>1. TypeOK
    BY DEF UploadInit, TypeOK
<1>2. \A i \in Ids : Alone(i)
    BY DEF UploadInit, Alone, Chunks, Removes
<1> QED
    BY <1>1, <1>2 DEF UploadInit, UploadInv, PublishedWhole, OrphansComeFromRaces

LEMMA RequestKeeps ==
    ASSUME UploadInv, NEW h \in Handlers, Request(h)
    PROVE  UploadInv'
<1>1. CASE \E p \in Paths, s \in Sizes : InitLookup(h, p, s) \/ InitCount(h, p, s)
    BY <1>1, InitLookupKeeps
<1>2. CASE \E i \in Ids, offset \in 0..Quota, len \in 1..ChunkSize : ChunkStart(h, i, offset, len)
    BY <1>2, ChunkStartKeeps
<1>3. ASSUME NEW i \in Ids, Cancel(h, i)
      PROVE  UploadInv'
    <2>1. CASE RemoveMeta(h, i)
        BY <2>1, RemoveKeeps DEF RemoveMeta, Slots
    <2>2. CASE RemoveUnknown(h, i)
        <3>1. meta' = [meta EXCEPT ![i] = None]
            BY <2>2, Parts DEF RemoveUnknown, TypeOK, spaceVars
        <3> QED
            BY <2>2, <3>1, RemoveKeeps DEF RemoveUnknown, Slots, spaceVars
    <2> QED
        BY <1>3, <2>1, <2>2 DEF Cancel
<1>4. CASE \E p, q \in Paths : MoveCheck(h, p, q)
    BY <1>4, MovesKeep
<1> QED
    BY <1>1, <1>2, <1>3, <1>4 DEF Request

LEMMA UploadStep == UploadInv /\ [UploadNext]_uploadVars => UploadInv'
<1> SUFFICES ASSUME UploadInv, [UploadNext]_uploadVars
             PROVE  UploadInv'
    OBVIOUS
<1>1. CASE \E h \in Handlers : Request(h)
    BY <1>1, RequestKeeps
<1>2. ASSUME NEW h \in Handlers, Proceed(h)
      PROVE  UploadInv'
    BY <1>2, ChunkQuotaKeeps, ChunkAppendKeeps, ChunkTooLongKeeps, ChunkStoredKeeps, PublishKeeps,
       ChunkDoneKeeps, MovesKeep, InitCreateKeeps, InitStoreKeeps DEF Proceed, Slots
<1>3. ASSUME NEW i \in Ids, Cleanup(i)
      PROVE  UploadInv'
    BY <1>3, RemoveKeeps DEF Cleanup, RemoveMeta, Slots
<1>4. CASE \/ \E p \in Paths : DeleteFile(p)
           \/ \E c \in Readers : SpaceCount(c) \/ SpaceStore(c)
           \/ Tick \/ UNCHANGED uploadVars
    BY <1>4, IdleKeeps
<1>5. CASE Fault
    <2>1. \A h \in Handlers : h \in Slots
        BY DEF Slots
    <2> QED
        BY <1>5, <2>1, CrashKeeps, ChunkAppendFailsKeeps DEF Fault
<1>6. CASE \E h \in Slots : RemoveTmp(h)
    BY <1>6, RemoveTmpKeeps
<1> QED
    BY <1>1, <1>2, <1>3, <1>4, <1>5, <1>6 DEF UploadNext

LEMMA UploadInvHolds == UploadSpec => []UploadInv
BY InitUploadInv, UploadStep, PTL DEF UploadSpec

-----------------------------------------------------------------------------
(* The properties.                                                         *)

(* Every file published is the whole declared one unless two requests      *)
(* worked on its upload at once, whatever number of uploads, retries,      *)
(* failed appends, removals and crashes, for any sizes and chunks          *)
(* (upload_chunk).                                                         *)
THEOREM FilesAreWhole == UploadSpec => []PublishedWhole
<1>1. UploadInv => PublishedWhole
    BY DEF UploadInv
<1> QED
    BY <1>1, UploadInvHolds, PTL

(* A temporary file that no cleanup will find comes from two requests that *)
(* met, or from a removal cut short (upload_chunk, cancel_upload,          *)
(* cleanup_stale_uploads).                                                 *)
THEOREM OrphansAreRaced == UploadSpec => []OrphansComeFromRaces
<1>1. UploadInv => OrphansComeFromRaces
    BY DEF UploadInv
<1> QED
    BY <1>1, UploadInvHolds, PTL

-----------------------------------------------------------------------------
(* Totals.                                                                 *)

Positions(length) == UNION {{x} \X (1..length[x]) : x \in DOMAIN length}

\* So many positions has one element.
LEMMA OnePart ==
    ASSUME NEW x, NEW n \in Nat
    PROVE  IsFiniteSet({x} \X (1..n)) /\ Cardinality({x} \X (1..n)) = n
<1>1. IsFiniteSet({x}) /\ Cardinality({x}) = 1
    BY FS_Singleton
<1>2. IsFiniteSet(1..n) /\ Cardinality(1..n) = n
    BY FS_Interval
<1>3. /\ IsFiniteSet({x} \X (1..n))
      /\ Cardinality({x} \X (1..n)) = Cardinality({x}) * Cardinality(1..n)
    BY <1>1, <1>2, FS_Product
<1> QED
    BY <1>1, <1>2, <1>3

LEMMA PositionsFinite ==
    ASSUME NEW S, IsFiniteSet(S), NEW f \in [S -> Nat]
    PROVE  IsFiniteSet(Positions(f)) /\ Total(f) = Cardinality(Positions(f)) /\ Total(f) \in Nat
<1> DEFINE parts == [x \in S |-> {x} \X (1..f[x])]
           all == {parts[x] : x \in S}
<1>1. parts \in Surjection(S, all)
    BY DEF Surjection
<1>2. IsFiniteSet(all)
    BY <1>1, FS_Surjection
<1>3. ASSUME NEW T \in all
      PROVE  IsFiniteSet(T)
    <2>1. PICK x \in S : T = {x} \X (1..f[x])
        OBVIOUS
    <2>2. f[x] \in Nat
        OBVIOUS
    <2> QED
        BY <2>1, <2>2, OnePart
<1>4. IsFiniteSet(UNION all)
    BY <1>2, <1>3, FS_UNION
<1>5. UNION all = Positions(f)
    BY DEF Positions
<1>6. Total(f) = Cardinality(Positions(f))
    BY DEF Total, Positions
<1> QED
    BY <1>4, <1>5, <1>6, FS_CardinalityType

\* Smaller values have a smaller total.
LEMMA TotalGrows ==
    ASSUME NEW S, IsFiniteSet(S), NEW f \in [S -> Nat], NEW g \in [S -> Nat],
           \A x \in S : f[x] <= g[x]
    PROVE  Total(f) <= Total(g)
<1>1. Positions(f) \in SUBSET Positions(g)
    BY DEF Positions
<1> QED
    BY <1>1, PositionsFinite, FS_Subset

\* Another value of one element is all a total changes by.
LEMMA TotalChanges ==
    ASSUME NEW S, IsFiniteSet(S), NEW f \in [S -> Nat], NEW x \in S, NEW n \in Nat
    PROVE  Total([f EXCEPT ![x] = n]) = Total(f) - f[x] + n
<1> DEFINE g == [f EXCEPT ![x] = n]
           A == {x} \X (1..f[x])
           B == {x} \X (1..n)
           R == Positions(f) \ A
<1>1. g \in [S -> Nat] /\ g[x] = n /\ \A y \in S \ {x} : g[y] = f[y]
    OBVIOUS
<1>2. IsFiniteSet(Positions(f)) /\ Total(f) = Cardinality(Positions(f)) /\ Total(f) \in Nat
    BY PositionsFinite
<1>3. Total(g) = Cardinality(Positions(g))
    BY <1>1, PositionsFinite
<1>4. /\ IsFiniteSet(A) /\ Cardinality(A) = f[x]
      /\ IsFiniteSet(B) /\ Cardinality(B) = n
    BY OnePart
<1> HIDE DEF g
<1>5. Positions(f) = R \cup A /\ R \cap A = {}
    BY DEF Positions
<1>6. Positions(g) = R \cup B /\ R \cap B = {}
    BY <1>1 DEF Positions
<1>7. IsFiniteSet(R)
    BY <1>2, FS_Difference
<1>8. Cardinality(R \cup A) = Cardinality(R) + Cardinality(A) - Cardinality(R \cap A)
    BY <1>4, <1>7, FS_Union
<1>9. Cardinality(R \cup B) = Cardinality(R) + Cardinality(B) - Cardinality(R \cap B)
    BY <1>4, <1>7, FS_Union
<1>10. Cardinality({}) = 0 /\ Cardinality(R) \in Nat
    BY <1>7, FS_EmptySet, FS_CardinalityType
<1>11. Total(f) = Cardinality(R) + f[x]
    <2>1. Total(f) = Cardinality(R \cup A) /\ Cardinality(R \cap A) = 0
        BY <1>2, <1>5, <1>10
    <2>2. Total(f) = Cardinality(R) + Cardinality(A) - 0
        BY <1>8, <2>1
    <2> HIDE DEF R, A
    <2> QED
        BY <1>4, <1>10, <2>2
<1>12. Total(g) = Cardinality(R) + n
    <2>1. Total(g) = Cardinality(R \cup B) /\ Cardinality(R \cap B) = 0
        BY <1>3, <1>6, <1>10
    <2>2. Total(g) = Cardinality(R) + Cardinality(B) - 0
        BY <1>9, <2>1
    <2> HIDE DEF R, B
    <2> QED
        BY <1>4, <1>10, <2>2
<1>13. Total(g) = Total(f) - f[x] + n
    <2> HIDE DEF R
    <2> QED
        BY <1>2, <1>10, <1>11, <1>12
<1> QED
    BY <1>13 DEF g

\* The total of one value.
LEMMA TotalOfOne ==
    ASSUME NEW S, IsFiniteSet(S), NEW f \in [S -> Nat], NEW x \in S,
           \A y \in S \ {x} : f[y] = 0
    PROVE  Total(f) = f[x]
<1>1. Positions(f) = {x} \X (1..f[x])
    BY DEF Positions
<1>2. Total(f) = Cardinality(Positions(f)) /\ f[x] \in Nat
    BY PositionsFinite
<1>3. Cardinality({x} \X (1..f[x])) = f[x]
    BY <1>2, OnePart
<1> QED
    BY <1>1, <1>2, <1>3

LEMMA TotalOfNone ==
    ASSUME NEW S, IsFiniteSet(S), NEW f \in [S -> Nat], \A y \in S : f[y] = 0
    PROVE  Total(f) = 0
<1>1. Positions(f) = {}
    BY DEF Positions
<1> QED
    BY <1>1, PositionsFinite, FS_EmptySet

-----------------------------------------------------------------------------
(* The quota.  While no upload has met another, one upload at most is in    *)
(* progress, about to begin, or being removed; what it will take is already *)
(* counted; and neither the cached usage nor a walk under way misses a file. *)

FileSize == Total(FileLength)

Exists(i) == meta[i] # None \/ tmp[i] # None

IsChunk(h) == handler[h] # None /\ handler[h].op = "chunk"

Inits(h) == handler[h] # None /\ handler[h].op = "init" /\ handler[h].pc = "create"

\* The upload has become a file, and the usage is about to be forgotten.
Moved == \E h \in Slots : IsChunk(h) /\ handler[h].pc = "moved"

OneUpload == \A i, j \in Ids : Exists(i) /\ Exists(j) => i = j

UploadFits(i) ==
    /\ meta[i] # None => /\ Length(tmp[i]) <= meta[i].size
                         /\ Moved \/ FileSize + meta[i].size <= Quota
    /\ FileSize + Length(tmp[i]) <= Quota

InitFits(h) ==
    /\ h \in Handlers
    /\ \A i \in Ids : ~Exists(i)
    /\ \A k \in Slots : Inits(k) => k = h
    /\ FileSize + handler[h].size <= Quota

UsageCounts ==
    /\ usage # None => Moved \/ FileSize <= usage
    /\ \A c \in Counters : count[c] # None => Moved \/ FileSize <= count[c]

Fitting ==
    /\ raced = {}
    /\ OneUpload
    /\ \A i \in Ids : UploadFits(i)
    /\ \A h \in Slots : Inits(h) => InitFits(h)
    /\ \A h \in Slots : IsChunk(h) => NewSize(h) <= handler[h].size
    /\ FileSize <= Quota
    /\ UsageCounts

UsageTyped == usage \in Nat \cup {None} /\ count \in [Counters -> Nat \cup {None}]

\* The cache is forgotten or takes what a walk counted; a walk counts the space.
UsageMoves ==
    /\ usage' \in {None, usage} \cup {count[c] : c \in Counters}
    /\ \A c \in Counters : count'[c] \in {None, count[c], DirSize}

LEMMA UsageKeeps ==
    ASSUME UsageTyped, usage' \in {None, usage}, count' = count
    PROVE  UsageMoves
BY DEF UsageMoves

LEMMA UsageBegins ==
    ASSUME UsageTyped, NEW c \in Counters, BeginCount(c), usage' = usage
    PROVE  UsageMoves /\ count' = [count EXCEPT ![c] = DirSize]
BY DEF UsageMoves, BeginCount, UsageTyped

LEMMA UsageStores ==
    ASSUME UsageTyped, NEW c \in Counters, StoreCount(c)
    PROVE  UsageMoves /\ usage' = count[c] /\ count[c] \in Nat
           /\ count' = [count EXCEPT ![c] = None]
BY DEF UsageMoves, StoreCount, UsageTyped

QuotaInv == UploadInv /\ UsageTyped /\ (shared \/ Fitting)

\* What the space is counted from, before a step and after it.
LEMMA LengthTypes ==
    ASSUME TypeOK, TypeOK'
    PROVE  /\ TmpLength \in [Ids -> Nat] /\ FileLength \in [Paths -> Nat]
           /\ FileLength' \in [Paths -> Nat]
<1>1. ASSUME NEW c \in {None} \cup Content
      PROVE  Length(c) \in Nat
    BY <1>1 DEF Length, Content
<1>2. TmpLength \in [Ids -> Nat]
    BY <1>1 DEF TmpLength, TypeOK
<1>3. \A f \in File : f.len \in Nat
    BY DEF File
<1>4. FileLength \in [Paths -> Nat]
    BY <1>3 DEF FileLength, TypeOK
<1>5. FileLength' \in [Paths -> Nat]
    BY <1>3 DEF FileLength, TypeOK
<1> QED
    BY <1>2, <1>4, <1>5

LEMMA SizeTypes ==
    ASSUME TypeOK, TypeOK'
    PROVE  FileSize \in Nat /\ FileSize' \in Nat /\ DirSize \in Nat /\ FileSize <= DirSize
<1>1. FileSize \in Nat /\ Total(TmpLength) \in Nat
    BY LengthTypes, PositionsFinite, UploadAssumption DEF FileSize
<1>2. FileSize' \in Nat
    BY LengthTypes, PositionsFinite, UploadAssumption DEF FileSize
<1>3. DirSize = Total(TmpLength) + FileSize
    BY DEF DirSize, FileSize
<1> QED
    BY <1>1, <1>2, <1>3

LEMMA UploadSizes ==
    ASSUME TypeOK, NEW i \in Ids
    PROVE  Length(tmp[i]) \in Nat /\ (meta[i] # None => meta[i].size \in Nat)
<1>1. tmp[i] = None \/ tmp[i] \in Seq(Nat)
    BY DEF TypeOK, Content
<1>2. meta[i] # None => meta[i] \in Meta
    BY DEF TypeOK
<1>3. Length(tmp[i]) \in Nat
    BY <1>1 DEF Length
<1>4. meta[i] # None => meta[i].size \in Sizes
    BY <1>2 DEF Meta
<1> QED
    BY <1>3, <1>4, UploadAssumption

LEMMA InitSizes ==
    ASSUME TypeOK, NEW h \in Slots, Inits(h)
    PROVE  handler[h].size \in Nat
<1>1. handler[h] \in ChunkRow \cup OtherRow
    BY DEF TypeOK, Inits
<1>2. handler[h].size \in Sizes
    BY <1>1 DEF ChunkRow, OtherRow, Inits
<1> QED
    BY <1>2, UploadAssumption

\* A chunk's request is the only one, and its upload the only one.
LEMMA LoneChunk ==
    ASSUME UploadInv, Fitting, NEW h \in Slots, IsChunk(h), NEW i, i = handler[h].id
    PROVE  /\ h \in Handlers /\ i \in Ids /\ Holds(h, i)
           /\ meta[i] # None /\ meta[i].size = handler[h].size /\ meta[i].size \in Nat
           /\ \A k \in Slots : ~Inits(k) /\ (IsChunk(k) => k = h)
           /\ \A j \in Ids \ {i} : ~Exists(j)
           /\ Moved => handler[h].pc = "moved"
<1>1. TypeOK /\ raced = {}
    BY Parts DEF Fitting
<1>2. /\ h \in Handlers /\ i \in Ids /\ Holds(h, i)
      /\ meta[i] # None /\ meta[i].size = handler[h].size
      /\ \A k \in Slots : Chunks(k, i) => k = h
    <2>1. i \in Ids
        BY <1>1, ChunkFields DEF IsChunk
    <2>2. Holds(h, i) /\ \A k \in Slots : Chunks(k, i) => k = h
        BY <1>1, ChunkKnows DEF IsChunk
    <2> QED
        BY <2>1, <2>2 DEF Holds
<1>3. \A j \in Ids \ {i} : ~Exists(j)
    BY <1>2 DEF Fitting, OneUpload, Exists
<1>4. \A k \in Slots : ~Inits(k)
    BY <1>2 DEF Fitting, InitFits, Exists
<1>5. ASSUME NEW k \in Slots, IsChunk(k)
      PROVE  k = h
    <2>1. handler[k].id \in Ids
        BY <1>1, <1>5, ChunkFields DEF IsChunk
    <2>2. Holds(k, handler[k].id)
        BY <1>1, <1>5, ChunkKnows DEF IsChunk
    <2>3. handler[k].id = i
        BY <1>3, <2>1, <2>2 DEF Holds, Exists
    <2> QED
        BY <1>2, <1>5, <2>3 DEF IsChunk, Chunks
<1>6. meta[i].size \in Nat
    BY <1>1, <1>2, UploadSizes
<1> QED
    BY <1>2, <1>3, <1>4, <1>5, <1>6 DEF Moved

\* A step that adds nothing to the space and promises no more of it.
LEMMA NothingGrows ==
    ASSUME TypeOK, TypeOK', Fitting, FileSize' <= FileSize, raced' = {},
           \A i \in Ids : /\ meta'[i] # None => meta[i] # None /\ meta'[i].size = meta[i].size
                          /\ tmp'[i] = tmp[i] \/ tmp'[i] = None,
           \A h \in Slots : Inits(h)' => Inits(h) /\ handler'[h].size = handler[h].size,
           \A h \in Slots : IsChunk(h)' => NewSize(h)' <= handler'[h].size,
           Moved => Moved' \/ \A i \in Ids : meta'[i] = None,
           UsageCounts'
    PROVE  Fitting'
<1>1. FileSize \in Nat /\ FileSize' \in Nat /\ Quota \in Nat
    BY SizeTypes, UploadAssumption
<1>2. \A i \in Ids : Exists(i)' => Exists(i)
    BY DEF Exists
<1>3. OneUpload'
    BY <1>2 DEF Fitting, OneUpload
<1>4. ASSUME NEW i \in Ids
      PROVE  UploadFits(i)'
    <2>1. Length(tmp[i]) \in Nat /\ (meta[i] # None => meta[i].size \in Nat)
        BY UploadSizes
    <2>2. Length(tmp'[i]) \in Nat /\ Length(tmp'[i]) <= Length(tmp[i])
        BY <2>1 DEF Length
    <2>3. UploadFits(i)
        BY DEF Fitting
    <2>4. FileSize' + Length(tmp'[i]) <= Quota
        BY <1>1, <2>1, <2>2, <2>3 DEF UploadFits
    <2>5. ASSUME meta'[i] # None
          PROVE  Length(tmp'[i]) <= meta'[i].size /\ (Moved' \/ FileSize' + meta'[i].size <= Quota)
        <3>1. meta[i] # None /\ meta'[i].size = meta[i].size
            BY <2>5
        <3>2. Length(tmp[i]) <= meta[i].size /\ (Moved \/ FileSize + meta[i].size <= Quota)
            BY <2>3, <3>1 DEF UploadFits
        <3>3. Moved => Moved'
            BY <2>5
        <3> QED
            BY <1>1, <2>1, <2>2, <3>1, <3>2, <3>3
    <2> QED
        BY <2>4, <2>5 DEF UploadFits
<1>5. ASSUME NEW h \in Slots, Inits(h)'
      PROVE  InitFits(h)'
    <2>1. InitFits(h) /\ Inits(h) /\ handler'[h].size = handler[h].size
        BY <1>5 DEF Fitting
    <2>2. FileSize' + handler'[h].size <= Quota
        BY <1>1, <2>1, InitSizes DEF InitFits
    <2> QED
        BY <1>2, <2>1, <2>2 DEF InitFits
<1>6. FileSize' <= Quota
    BY <1>1 DEF Fitting
<1> QED
    BY <1>3, <1>4, <1>5, <1>6 DEF Fitting

-----------------------------------------------------------------------------
(* The steps that leave what is promised within the quota.                 *)

\* A step among uploads that have not met, which makes none meet.
Within ==
    /\ UploadInv /\ UploadInv'
    /\ UsageTyped /\ Fitting
    /\ raced' = {}

LEMMA SizesCount ==
    ASSUME Within
    PROVE  /\ TypeOK /\ TypeOK' /\ FileSize \in Nat /\ FileSize' \in Nat /\ FileSize <= Quota
           /\ DirSize \in Nat /\ FileSize <= DirSize
           /\ UsageTyped
           /\ Quota \in Nat
<1>1. TypeOK /\ TypeOK'
    BY DEF Within, UploadInv, PublishedWhole
<1>2. FileSize \in Nat /\ FileSize' \in Nat /\ DirSize \in Nat /\ FileSize <= DirSize
    BY <1>1, SizeTypes
<1> QED
    BY <1>1, <1>2, UploadAssumption DEF Within, Fitting

LEMMA FilesStay ==
    ASSUME file' = file
    PROVE  FileSize' = FileSize
BY DEF FileSize, FileLength

LEMMA UsageStaysCounted ==
    ASSUME Within, UsageMoves, FileSize' <= FileSize,
           Moved => Moved' \/ (usage' = None /\ \A c \in Counters : count'[c] = None)
    PROVE  UsageCounts'
<1>1. FileSize \in Nat /\ FileSize' \in Nat /\ FileSize <= DirSize /\ DirSize \in Nat
    BY SizesCount
<1> DEFINE Counts(n) == n \in Nat /\ (Moved \/ FileSize <= n)
<1>2. /\ usage # None => Counts(usage)
      /\ \A c \in Counters : count[c] # None => Counts(count[c])
    BY DEF Within, UsageTyped, Fitting, UsageCounts
<1>3. Counts(DirSize)
    BY <1>1
<1>4. usage' # None => Counts(usage')
    <2> HIDE DEF Counts
    <2> QED
        BY <1>2 DEF UsageMoves
<1>5. ASSUME NEW c \in Counters, count'[c] # None
      PROVE  Counts(count'[c])
    <2> HIDE DEF Counts
    <2> QED
        BY <1>2, <1>3, <1>5 DEF UsageMoves
<1>6. usage' # None => Moved' \/ FileSize' <= usage'
    BY <1>1, <1>4
<1>7. ASSUME NEW c \in Counters, count'[c] # None
      PROVE  Moved' \/ FileSize' <= count'[c]
    <2>1. Counts(count'[c])
        BY <1>5, <1>7
    <2> QED
        BY <1>1, <1>7, <2>1
<1> QED
    BY <1>6, <1>7 DEF UsageCounts

\* A step of one request that touches no file.
LEMMA RequestGrowsNothing ==
    ASSUME Within, NEW h \in Slots, UNCHANGED <<meta, tmp, file>>,
           UsageMoves,
           \A k \in Slots \ {h} : handler'[k] = handler[k],
           ~Inits(h)', IsChunk(h)' => NewSize(h)' <= handler'[h].size,
           ~(IsChunk(h) /\ handler[h].pc = "moved")
    PROVE  Fitting'
<1>1. TypeOK /\ TypeOK' /\ raced' = {} /\ Fitting
    BY SizesCount DEF Within
<1>2. FileSize' = FileSize /\ FileSize' <= FileSize
    BY SizesCount, FilesStay
<1>3. Moved => Moved'
    BY DEF Moved, IsChunk
<1>4. UsageCounts'
    BY <1>2, <1>3, UsageStaysCounted
<1>5. ASSUME NEW k \in Slots, IsChunk(k)'
      PROVE  NewSize(k)' <= handler'[k].size
    <2>1. CASE k # h
        BY <1>1, <1>5, <2>1 DEF Fitting, IsChunk, NewSize
    <2> QED
        BY <1>5, <2>1
<1>6. ASSUME NEW k \in Slots, Inits(k)'
      PROVE  Inits(k) /\ handler'[k].size = handler[k].size
    BY <1>6 DEF Inits
<1> QED
    BY <1>1, <1>2, <1>3, <1>4, <1>5, <1>6, NothingGrows

LEMMA ChunkStartFits ==
    ASSUME Within, ~shared', NEW h \in Handlers, NEW i \in Ids, NEW offset \in 0..Quota,
           NEW len \in 1..ChunkSize, ChunkStart(h, i, offset, len)
    PROVE  Fitting'
<1>1. TypeOK /\ h \in Slots
    BY SizesCount DEF Slots
<1> DEFINE row == [op |-> "chunk", pc |-> "read", id |-> i, offset |-> offset, len |-> len,
                   path |-> meta[i].path, size |-> meta[i].size]
<1>2. /\ handler[h] = None /\ handler' = [handler EXCEPT ![h] = row]
      /\ UNCHANGED <<meta, tmp, file>> /\ UNCHANGED <<usage, count>>
      /\ ~(offset + len > meta[i].size) /\ meta[i] # None
    BY DEF ChunkStart, Free, Start, spaceVars, usageVars
<1>3. /\ row.op = "chunk" /\ row.offset = offset /\ row.len = len /\ row.size = meta[i].size
    OBVIOUS
<1> HIDE DEF row
<1>4. handler'[h] = row /\ \A k \in Slots \ {h} : handler'[k] = handler[k]
    BY <1>1, <1>2 DEF TypeOK
<1>5. offset + len <= meta[i].size
    <2>1. meta[i].size \in Nat /\ offset \in Nat /\ len \in Nat
        BY <1>1, <1>2, UploadSizes, UploadAssumption
    <2> QED
        BY <1>2, <2>1
<1>6. ~Inits(h)' /\ NewSize(h)' <= handler'[h].size
    BY <1>3, <1>4, <1>5 DEF Inits, NewSize
<1>7. ~IsChunk(h)
    BY <1>2 DEF IsChunk
<1>8. UsageMoves
    BY <1>2, SizesCount, UsageKeeps
<1> QED
    BY <1>1, <1>2, <1>4, <1>6, <1>7, <1>8, RequestGrowsNothing

LEMMA ChunkQuotaFits ==
    ASSUME Within, NEW h \in Handlers, ChunkQuota(h) \/ ChunkCount(h) \/ ChunkStore(h)
    PROVE  Fitting'
<1>1. TypeOK /\ Fitting /\ UsageTyped /\ h \in Slots /\ h \in Counters
    BY SizesCount DEF Within, Slots, Counters
<1>2. IsChunk(h) /\ handler[h].pc \in {"read", "counted"} /\ UNCHANGED <<meta, tmp, file>>
    BY DEF ChunkQuota, ChunkCount, ChunkStore, At, IsChunk, spaceVars
<1>3. UsageMoves
    <2>1. CASE ChunkQuota(h)
        BY <1>1, <2>1, UsageKeeps DEF ChunkQuota, usageVars
    <2>2. CASE ChunkCount(h)
        BY <1>1, <2>2, UsageBegins DEF ChunkCount
    <2>3. CASE ChunkStore(h)
        BY <1>1, <2>3, UsageStores DEF ChunkStore
    <2> QED
        BY <2>1, <2>2, <2>3
<1>4. ASSUME NEW pc \in {"counted", "append"}, Goto(h, pc)
      PROVE  Fitting'
    <2>1. Goes(h, pc)
        BY <1>1, <1>2, <1>4, GotoShape DEF IsChunk
    <2>2. ~Inits(h)' /\ NewSize(h)' <= handler'[h].size
        BY <1>1, <1>2, <2>1 DEF Goes, Inits, IsChunk, NewSize, Fitting
    <2> QED
        BY <1>1, <1>2, <1>3, <2>1, <2>2, RequestGrowsNothing DEF Goes
<1>5. CASE End(h)
    <2>1. handler'[h] = None /\ \A k \in Slots \ {h} : handler'[k] = handler[k]
        BY <1>1, <1>5 DEF End, TypeOK
    <2> QED
        BY <1>1, <1>2, <1>3, <2>1, RequestGrowsNothing DEF Inits, IsChunk
<1> QED
    BY <1>4, <1>5 DEF ChunkQuota, ChunkCount, ChunkStore

LEMMA ChunkStoredFits ==
    ASSUME Within, NEW h \in Slots, ChunkStored(h)
    PROVE  Fitting'
<1>1. TypeOK
    BY SizesCount
<1>2. handler[h].pc = "appended" /\ UNCHANGED <<meta, tmp, file>> /\ UsageMoves /\ End(h)
    BY SizesCount, UsageKeeps DEF ChunkStored, At, spaceVars, usageVars
<1>3. handler'[h] = None /\ \A k \in Slots \ {h} : handler'[k] = handler[k]
    BY <1>1, <1>2 DEF End, TypeOK
<1> QED
    BY <1>2, <1>3, RequestGrowsNothing DEF Inits, IsChunk

\* The last chunk's request ends: the upload is gone, the usage forgotten, and
\* no walk is under way.
LEMMA ChunkDoneFits ==
    ASSUME Within, ~shared', NEW h \in Slots, ChunkDone(h)
    PROVE  Fitting'
<1>1. TypeOK /\ TypeOK' /\ raced' = {} /\ UploadInv /\ Fitting /\ UploadInv'
    BY SizesCount DEF Within
<1> DEFINE i == handler[h].id
<1>2. /\ IsChunk(h) /\ End(h) /\ UNCHANGED <<tmp, file>>
      /\ meta' = [meta EXCEPT ![i] = None] /\ usage' = None
      /\ \A c \in Counters : count'[c] = None
    BY DEF ChunkDone, At, IsChunk, UsageForgotten, WalkMet
<1>3. \A j \in Ids \ {i} : ~Exists(j)
    BY <1>1, <1>2, LoneChunk
<1>4. \A j \in Ids : meta'[j] = None /\ tmp'[j] = tmp[j]
    BY <1>1, <1>2, <1>3 DEF Exists, TypeOK
<1>5. handler'[h] = None /\ \A k \in Slots \ {h} : handler'[k] = handler[k]
    BY <1>1, <1>2 DEF End, TypeOK
<1>6. FileSize' <= FileSize /\ UsageCounts'
    BY <1>2, FilesStay, SizesCount DEF UsageCounts
<1>7. ASSUME NEW k \in Slots
      PROVE  /\ IsChunk(k)' => NewSize(k)' <= handler'[k].size
             /\ Inits(k)' => Inits(k) /\ handler'[k].size = handler[k].size
    BY <1>1, <1>5 DEF Fitting, IsChunk, NewSize, Inits
<1> QED
    BY <1>1, <1>4, <1>6, <1>7, NothingGrows

\* The removal of an upload that no chunk's request holds.
LEMMA RemoveFits ==
    ASSUME Within, ~shared', NEW h \in Slots, NEW i \in Ids,
           RemoveMeta(h, i) \/ RemoveUnknown(h, i)
    PROVE  Fitting'
<1>1. TypeOK /\ TypeOK' /\ raced' = {} /\ Fitting
    BY SizesCount DEF Within
<1>2. \E found \in BOOLEAN : handler' = [handler EXCEPT ![h] = [op |-> "remove", id |-> i, found |-> found]]
    BY DEF RemoveMeta, RemoveUnknown, Start
<1>3. handler'[h].op = "remove" /\ \A k \in Slots \ {h} : handler'[k] = handler[k]
    BY <1>1, <1>2 DEF TypeOK
<1>4. handler[h] = None /\ UNCHANGED <<tmp, file>> /\ UsageMoves
    BY SizesCount, UsageKeeps DEF RemoveMeta, RemoveUnknown, Free, spaceVars, usageVars
<1>5. \A j \in Ids : meta'[j] \in {None, meta[j]} /\ tmp'[j] = tmp[j]
    BY <1>1, <1>4 DEF RemoveMeta, RemoveUnknown, TypeOK, spaceVars
<1>6. Moved => Moved'
    BY <1>3, <1>4 DEF Moved, IsChunk
<1>7. FileSize' <= FileSize /\ UsageCounts'
    <2>1. FileSize' <= FileSize
        BY <1>4, FilesStay, SizesCount
    <2> QED
        BY <1>4, <1>6, <2>1, UsageStaysCounted
<1>8. ASSUME NEW k \in Slots
      PROVE  /\ IsChunk(k)' => NewSize(k)' <= handler'[k].size
             /\ Inits(k)' => Inits(k) /\ handler'[k].size = handler[k].size
    BY <1>1, <1>3 DEF Fitting, IsChunk, NewSize, Inits
<1> QED
    BY <1>1, <1>5, <1>6, <1>7, <1>8, NothingGrows

LEMMA RemoveTmpFits ==
    ASSUME Within, NEW h \in Slots, RemoveTmp(h)
    PROVE  Fitting'
<1>1. TypeOK /\ TypeOK' /\ raced' = {} /\ Fitting
    BY SizesCount DEF Within
<1> DEFINE i == handler[h].id
<1>2. /\ handler[h] # None /\ handler[h].op = "remove" /\ End(h)
      /\ UNCHANGED <<meta, file>> /\ tmp' = [tmp EXCEPT ![i] = None] /\ UsageMoves
    <2>1. usage' \in {None, usage} /\ count' = count
        BY DEF RemoveTmp, UsageForgotten
    <2>2. UsageMoves
        BY <2>1, SizesCount, UsageKeeps
    <2> QED
        BY <2>2 DEF RemoveTmp, WithoutTmp
<1>3. handler'[h] = None /\ \A k \in Slots \ {h} : handler'[k] = handler[k]
    BY <1>1, <1>2 DEF End, TypeOK
<1>4. \A j \in Ids : meta'[j] = meta[j] /\ tmp'[j] \in {None, tmp[j]}
    BY <1>1, <1>2 DEF TypeOK
<1>5. Moved => Moved'
    BY <1>2, <1>3 DEF Moved, IsChunk
<1>6. FileSize' <= FileSize
    BY <1>2, FilesStay, SizesCount
<1>7. UsageCounts'
    BY <1>2, <1>5, <1>6, UsageStaysCounted
<1>8. ASSUME NEW k \in Slots
      PROVE  /\ IsChunk(k)' => NewSize(k)' <= handler'[k].size
             /\ Inits(k)' => Inits(k) /\ handler'[k].size = handler[k].size
    BY <1>1, <1>3 DEF Fitting, IsChunk, NewSize, Inits
<1> QED
    BY <1>1, <1>4, <1>5, <1>6, <1>7, <1>8, NothingGrows

\* A step of no request and one that ends or starts a move.
LEMMA FilesShrinkFits ==
    ASSUME Within, FileSize' <= FileSize, UsageMoves,
           tmp' = tmp,
           \A i \in Ids : /\ meta'[i] = None <=> meta[i] = None
                          /\ meta[i] # None => meta'[i].size = meta[i].size,
           \A k \in Slots : \/ handler'[k] = handler[k]
                            \/ /\ handler[k] = None \/ handler[k].op = "move"
                               /\ handler'[k] = None \/ handler'[k].op = "move"
    PROVE  Fitting'
<1>1. TypeOK /\ TypeOK' /\ raced' = {} /\ Fitting
    BY SizesCount DEF Within
<1>2. Moved => Moved'
    BY DEF Moved, IsChunk
<1>3. UsageCounts'
    BY <1>2, UsageStaysCounted
<1>4. ASSUME NEW k \in Slots
      PROVE  /\ IsChunk(k)' => NewSize(k)' <= handler'[k].size
             /\ Inits(k)' => Inits(k) /\ handler'[k].size = handler[k].size
    BY <1>1 DEF Fitting, IsChunk, NewSize, Inits
<1> QED
    BY <1>1, <1>2, <1>3, <1>4, NothingGrows

LEMMA DeleteFits ==
    ASSUME Within, NEW p \in Paths, DeleteFile(p)
    PROVE  Fitting'
<1>1. TypeOK /\ TypeOK'
    BY SizesCount
<1>2. UNCHANGED <<meta, tmp, handler>> /\ UsageMoves /\ file' = [file EXCEPT ![p] = None]
    BY SizesCount, UsageKeeps DEF DeleteFile, UsageForgotten
<1>3. \A q \in Paths : file'[q] \in {None, file[q]}
    BY <1>1, <1>2 DEF TypeOK
<1>4. FileLength \in [Paths -> Nat] /\ FileLength' \in [Paths -> Nat]
    BY <1>1, LengthTypes
<1>5. \A q \in Paths : FileLength'[q] <= FileLength[q]
    BY <1>3, <1>4 DEF FileLength
<1>6. FileSize' <= FileSize
    BY <1>4, <1>5, TotalGrows, UploadAssumption DEF FileSize
<1> QED
    BY <1>2, <1>6, FilesShrinkFits

\* A rename over another file frees that file's space.
LEMMA RenameShrinks ==
    ASSUME TypeOK, TypeOK', NEW p \in Paths, NEW q \in Paths, file[p] # None,
           file' = [file EXCEPT ![q] = file[p], ![p] = None]
    PROVE  FileSize' <= FileSize
<1>1. FileLength \in [Paths -> Nat] /\ FileLength' \in [Paths -> Nat] /\ IsFiniteSet(Paths)
    BY LengthTypes, UploadAssumption
<1> DEFINE f == FileLength
           g == [f EXCEPT ![q] = f[p]]
           k == [g EXCEPT ![p] = 0]
<1>2. g \in [Paths -> Nat] /\ k \in [Paths -> Nat] /\ g[p] = f[p] /\ f[p] \in Nat /\ f[q] \in Nat
    BY <1>1
<1>3. FileLength' = k
    <2>1. \A r \in Paths : file'[r] = IF r = p THEN None ELSE IF r = q THEN file[p] ELSE file[r]
        BY DEF TypeOK
    <2>2. \A r \in Paths : FileLength'[r] = k[r]
        <3> SUFFICES ASSUME NEW r \in Paths
                     PROVE  FileLength'[r] = k[r]
            OBVIOUS
        <3>1. /\ FileLength[p] = file[p].len
              /\ FileLength[r] = IF file[r] = None THEN 0 ELSE file[r].len
              /\ FileLength'[r] = IF file'[r] = None THEN 0 ELSE file'[r].len
            BY DEF FileLength
        <3>2. FileLength'[r] = IF r = p THEN 0 ELSE IF r = q THEN FileLength[p] ELSE FileLength[r]
            BY <2>1, <3>1
        <3> QED
            BY <1>1, <3>2
    <2> QED
        BY <1>1, <1>2, <2>2
<1>4. Total(g) = Total(f) - f[q] + f[p] /\ Total(f) \in Nat
    <2>1. f \in [Paths -> Nat] /\ f[p] \in Nat
        BY <1>1
    <2> HIDE DEF f
    <2> QED
        BY <1>1, <2>1, TotalChanges, PositionsFinite
<1>5. Total(k) = Total(g) - g[p] + 0
    <2> HIDE DEF g
    <2>1. g \in [Paths -> Nat] /\ IsFiniteSet(Paths) /\ 0 \in Nat
        BY <1>1, <1>2
    <2>2. Total([g EXCEPT ![p] = 0]) = Total(g) - g[p] + 0
        BY <2>1, TotalChanges
    <2> QED
        BY <2>2
<1>6. FileSize = Total(f) /\ FileSize' = Total(k)
    BY <1>3 DEF FileSize
<1> HIDE DEF f, g, k
<1> QED
    BY <1>2, <1>4, <1>5, <1>6

LEMMA MoveFits ==
    ASSUME Within,
           \/ \E h \in Handlers, p, q \in Paths : MoveCheck(h, p, q)
           \/ \E h \in Slots : Move(h)
    PROVE  Fitting'
<1>1. TypeOK /\ TypeOK'
    BY SizesCount
<1>2. ASSUME NEW h \in Handlers, NEW p \in Paths, NEW q \in Paths, MoveCheck(h, p, q)
      PROVE  Fitting'
    <2>1. /\ handler' = [handler EXCEPT ![h] = [op |-> "move", from |-> p, to |-> q]]
          /\ handler[h] = None /\ h \in Slots /\ UNCHANGED <<meta, tmp, file>> /\ UsageMoves
        BY <1>2, SizesCount, UsageKeeps DEF MoveCheck, Start, Free, Slots, spaceVars, usageVars
    <2>2. handler'[h].op = "move" /\ \A k \in Slots \ {h} : handler'[k] = handler[k]
        BY <1>1, <2>1 DEF TypeOK
    <2>3. FileSize' <= FileSize
        BY <2>1, FilesStay, SizesCount
    <2> QED
        BY <2>1, <2>2, <2>3, FilesShrinkFits
<1>3. ASSUME NEW h \in Slots, Move(h)
      PROVE  Fitting'
    <2>1. /\ handler' = [handler EXCEPT ![h] = None] /\ handler[h] # None /\ handler[h].op = "move"
          /\ UNCHANGED <<meta, tmp>> /\ UsageMoves
        <3>1. usage' \in {None, usage} /\ count' = count
            BY <1>3 DEF Move, UsageForgotten
        <3>2. UsageMoves
            BY <3>1, SizesCount, UsageKeeps
        <3> QED
            BY <1>3, <3>2 DEF Move, End
    <2>2. handler'[h] = None /\ \A k \in Slots \ {h} : handler'[k] = handler[k]
        BY <1>1, <2>1 DEF TypeOK
    <2>3. handler[h].from \in Paths /\ handler[h].to \in Paths
        <3>1. handler[h] \in ChunkRow \cup OtherRow
            BY <1>1, <2>1 DEF TypeOK
        <3> QED
            BY <2>1, <3>1 DEF ChunkRow, OtherRow
    <2>4. FileSize' <= FileSize
        <3>1. CASE file[handler[h].from] = None
            BY <1>3, <3>1, FilesStay, SizesCount DEF Move
        <3>2. CASE file[handler[h].from] # None
            <4>1. file' = [file EXCEPT ![handler[h].to] = file[handler[h].from], ![handler[h].from] = None]
                BY <1>3, <3>2 DEF Move
            <4> QED
                BY <1>1, <2>3, <3>2, <4>1, RenameShrinks
        <3> QED
            BY <3>1, <3>2
    <2> QED
        BY <2>1, <2>2, <2>4, FilesShrinkFits
<1> QED
    BY <1>2, <1>3

\* A walk by a request that reports the usage, a day, or nothing.
LEMMA IdleFits ==
    ASSUME Within, (\E c \in Readers : SpaceCount(c) \/ SpaceStore(c)) \/ Tick \/ UNCHANGED uploadVars
    PROVE  Fitting'
<1>1. UsageTyped /\ Readers \subseteq Counters
    BY SizesCount DEF Counters
<1>2. UNCHANGED <<tmp, file, handler>> /\ UsageMoves
    <2>1. ASSUME NEW c \in Readers, SpaceCount(c)
          PROVE  UNCHANGED <<tmp, file, handler>> /\ UsageMoves
        BY <1>1, <2>1, UsageBegins DEF SpaceCount, spaceVars
    <2>2. ASSUME NEW c \in Readers, SpaceStore(c)
          PROVE  UNCHANGED <<tmp, file, handler>> /\ UsageMoves
        BY <1>1, <2>2, UsageStores DEF SpaceStore, spaceVars
    <2>3. CASE Tick \/ UNCHANGED uploadVars
        BY <1>1, <2>3, UsageKeeps DEF Tick, uploadVars, spaceVars, usageVars
    <2> QED
        BY <2>1, <2>2, <2>3
<1>3. \A i \in Ids : /\ meta'[i] = None <=> meta[i] = None
                     /\ meta[i] # None => meta'[i].size = meta[i].size
    <2>1. CASE Tick
        BY <2>1, TickAges, SizesCount
    <2>2. CASE ~Tick
        BY <2>2 DEF SpaceCount, SpaceStore, uploadVars, spaceVars
    <2> QED
        BY <2>1, <2>2
<1>4. FileSize' <= FileSize
    BY <1>2, FilesStay, SizesCount
<1> QED
    BY <1>2, <1>3, <1>4, FilesShrinkFits

LEMMA CrashFits ==
    ASSUME Within, ~shared', Crash
    PROVE  Fitting'
<1>1. TypeOK /\ TypeOK' /\ raced' = {} /\ Fitting /\ UploadInv
    BY SizesCount DEF Within
<1>2. /\ \A k \in Slots : handler'[k] = None
      /\ UNCHANGED <<meta, tmp, file>> /\ usage' = None /\ \A c \in Counters : count'[c] = None
      /\ ~\E h \in Handlers : At(h, "chunk", "moved")
    BY DEF Crash, spaceVars
<1>3. ~Moved
    <2> SUFFICES ASSUME NEW h \in Slots, IsChunk(h), handler[h].pc = "moved"
                 PROVE  FALSE
        BY DEF Moved
    <2>1. h \in Handlers
        BY <1>1, LoneChunk
    <2> QED
        BY <1>2, <2>1 DEF At, IsChunk
<1>4. FileSize' <= FileSize /\ UsageCounts'
    BY <1>2, FilesStay, SizesCount DEF UsageCounts
<1>5. \A k \in Slots : ~IsChunk(k)' /\ ~Inits(k)'
    BY <1>2 DEF IsChunk, Inits
<1> QED
    BY <1>1, <1>2, <1>3, <1>4, <1>5, NothingGrows

-----------------------------------------------------------------------------
(* The steps that write what was promised.                                 *)

\* A chunk, or its beginning, at the end of the one temporary file.
LEMMA AppendFits ==
    ASSUME Within, NEW h \in Slots, At(h, "chunk", "append"), NEW k \in Nat, k <= handler[h].len,
           tmp' = Appended(h, k), UNCHANGED <<meta, file>>, UNCHANGED <<usage, count>>,
           \A g \in Slots \ {h} : handler'[g] = handler[g],
           ~Inits(h)', IsChunk(h)' => NewSize(h)' <= handler'[h].size
    PROVE  Fitting'
<1>1. TypeOK /\ TypeOK' /\ raced' = {} /\ Fitting /\ UploadInv /\ raced = {}
    BY SizesCount DEF Within, Fitting
<1> DEFINE i == handler[h].id
<1>2. /\ h \in Handlers /\ i \in Ids /\ Holds(h, i)
      /\ meta[i] # None /\ meta[i].size = handler[h].size /\ meta[i].size \in Nat
      /\ \A g \in Slots : ~Inits(g) /\ (IsChunk(g) => g = h)
      /\ \A j \in Ids \ {i} : ~Exists(j)
      /\ ~Moved
    BY <1>1, LoneChunk DEF At, IsChunk
<1>3. tmp'[i] = Whole(handler[h].offset + k) /\ \A j \in Ids \ {i} : tmp'[j] = tmp[j]
    BY <1>1, <1>2, AppendShape DEF At
<1>4. /\ handler[h].offset \in Nat /\ handler[h].len \in Nat
      /\ NewSize(h) <= handler[h].size
    BY <1>1, ChunkFields DEF At, Fitting, IsChunk
<1>5. Length(tmp'[i]) = handler[h].offset + k
    <2>1. PICK n \in Nat : n = handler[h].offset + k
        BY <1>4
    <2>2. Whole(n) # None /\ Len(Whole(n)) = n
        BY WholeShape
    <2>3. tmp'[i] = Whole(n)
        BY <1>3, <2>1
    <2> QED
        BY <2>1, <2>2, <2>3 DEF Length
<1>6. FileSize' = FileSize /\ FileSize \in Nat /\ FileSize <= Quota /\ Quota \in Nat
    BY FilesStay, SizesCount
<1>7. FileSize + meta[i].size <= Quota
    BY <1>1, <1>2 DEF Fitting, UploadFits
<1>8. Length(tmp'[i]) <= meta[i].size
    BY <1>2, <1>4, <1>5 DEF NewSize
<1>9. ASSUME NEW j \in Ids
      PROVE  UploadFits(j)'
    <2>1. CASE j = i
        <3>1. FileSize' + Length(tmp'[i]) <= Quota
            BY <1>2, <1>4, <1>5, <1>6, <1>7, <1>8
        <3> QED
            BY <1>6, <1>7, <1>8, <2>1, <3>1 DEF UploadFits
    <2>2. CASE j # i
        <3>1. meta'[j] = None /\ tmp'[j] = None
            BY <1>2, <1>3, <2>2 DEF Exists
        <3> QED
            BY <1>6, <3>1 DEF UploadFits, Length
    <2> QED
        BY <2>1, <2>2
<1>10. OneUpload'
    BY <1>2, <1>3 DEF OneUpload, Exists
<1>11. ASSUME NEW g \in Slots
       PROVE  ~Inits(g)' /\ (IsChunk(g)' => NewSize(g)' <= handler'[g].size)
    BY <1>1, <1>2 DEF Inits, IsChunk, NewSize
<1>12. UsageCounts'
    BY <1>1, <1>2, <1>6 DEF UsageCounts, Fitting
<1> QED
    BY <1>1, <1>6, <1>9, <1>10, <1>11, <1>12 DEF Fitting

LEMMA ChunkAppendFits ==
    ASSUME Within, NEW h \in Slots, ChunkAppend(h)
    PROVE  Fitting'
<1>1. TypeOK /\ Fitting /\ At(h, "chunk", "append") /\ IsChunk(h)
    BY SizesCount DEF Within, ChunkAppend, At, IsChunk
<1>2. Goes(h, "appended") /\ handler[h].len \in Nat
    BY <1>1, GotoShape, ChunkFields DEF ChunkAppend, At
<1>3. ~Inits(h)' /\ NewSize(h)' <= handler'[h].size
    BY <1>1, <1>2 DEF Goes, Inits, NewSize, Fitting
<1>4. tmp' = Appended(h, handler[h].len) /\ UNCHANGED <<meta, file>> /\ UNCHANGED <<usage, count>>
    BY DEF ChunkAppend, usageVars
<1> QED
    BY <1>1, <1>2, <1>3, <1>4, AppendFits DEF Goes

LEMMA ChunkAppendFailsFits ==
    ASSUME Within, NEW h \in Slots, NEW k \in 0..ChunkSize - 1, ChunkAppendFails(h, k)
    PROVE  Fitting'
<1>1. TypeOK /\ At(h, "chunk", "append") /\ End(h) /\ k < handler[h].len
    BY SizesCount DEF ChunkAppendFails
<1>2. handler'[h] = None /\ \A g \in Slots \ {h} : handler'[g] = handler[g]
    BY <1>1 DEF End, TypeOK
<1>3. ~Inits(h)' /\ ~IsChunk(h)'
    BY <1>2 DEF Inits, IsChunk
<1>4. handler[h].len \in Nat
    BY <1>1, ChunkFields DEF At
<1>5. k \in Nat /\ k <= handler[h].len
    BY <1>1, <1>4, UploadAssumption
<1>6. tmp' = Appended(h, k) /\ UNCHANGED <<meta, file>> /\ UNCHANGED <<usage, count>>
    BY DEF ChunkAppendFails, usageVars
<1> QED
    BY <1>1, <1>2, <1>3, <1>5, <1>6, AppendFits

\* A chunk checked against the quota never outgrows its upload.
LEMMA ChunkTooLongFits ==
    ASSUME Within, NEW h \in Slots, ChunkTooLong(h)
    PROVE  Fitting'
<1>1. TypeOK /\ Fitting /\ At(h, "chunk", "appended") /\ NewSize(h) > handler[h].size
    BY SizesCount DEF Within, ChunkTooLong
<1>2. NewSize(h) <= handler[h].size
    BY <1>1 DEF Fitting, IsChunk, At
<1>3. NewSize(h) \in Nat /\ handler[h].size \in Nat
    BY <1>1, ChunkFields DEF NewSize, At
<1> QED
    BY <1>1, <1>2, <1>3

\* The upload becomes a file, in the space it had.
LEMMA PublishFits ==
    ASSUME Within, NEW h \in Slots, Publish(h)
    PROVE  Fitting'
<1>1. TypeOK /\ TypeOK' /\ raced' = {} /\ Fitting /\ UploadInv
    BY SizesCount DEF Within
<1> DEFINE i == handler[h].id
           p == handler[h].path
           n == Len(tmp[i])
<1>2. /\ At(h, "chunk", "appended") /\ IsChunk(h) /\ UNCHANGED <<meta, usage>>
    BY DEF Publish, At, IsChunk, usageVars
<1>3. /\ h \in Handlers /\ i \in Ids /\ Holds(h, i)
      /\ meta[i] # None /\ meta[i].size = handler[h].size /\ meta[i].size \in Nat
      /\ \A g \in Slots : ~Inits(g) /\ (IsChunk(g) => g = h)
      /\ \A j \in Ids \ {i} : ~Exists(j)
      /\ ~Moved
    BY <1>1, <1>2, LoneChunk DEF At
<1>4. tmp[i] # None /\ p \in Paths
    BY <1>1, <1>2, <1>3, ChunkFields DEF Holds, At
<1>5. /\ Goto(h, "moved") /\ tmp' = [tmp EXCEPT ![i] = None]
      /\ file' = [file EXCEPT ![p] =
            [len |-> n, whole |-> tmp[i] = Whole(handler[h].size), raced |-> i \in raced]]
    BY <1>4 DEF Publish
<1>6. Goes(h, "moved")
    BY <1>1, <1>2, <1>5, GotoShape DEF IsChunk
<1>7. Moved'
    BY <1>6 DEF Moved, Goes, IsChunk
<1>8. n \in Nat /\ n <= meta[i].size /\ FileSize + meta[i].size <= Quota
    <2>1. UploadFits(i) /\ Length(tmp[i]) = n
        BY <1>1, <1>3, <1>4 DEF Fitting, Length
    <2>2. Length(tmp[i]) \in Nat
        BY <1>1, <1>3, UploadSizes
    <2> QED
        BY <1>3, <2>1, <2>2 DEF UploadFits
<1>9. FileSize' <= Quota
    <2> DEFINE f == FileLength
               g == [f EXCEPT ![p] = n]
    <2>1. f \in [Paths -> Nat] /\ FileLength' \in [Paths -> Nat] /\ IsFiniteSet(Paths) /\ f[p] \in Nat
        BY <1>1, <1>4, LengthTypes, UploadAssumption
    <2>2. FileLength' = g
        <3>1. file'[p].len = n /\ file'[p] # None /\ \A q \in Paths \ {p} : file'[q] = file[q]
            <4> DEFINE new == [len |-> n, whole |-> tmp[i] = Whole(handler[h].size), raced |-> i \in raced]
            <4>1. new \in File /\ new.len = n
                BY <1>8 DEF File
            <4>2. file' = [file EXCEPT ![p] = new]
                BY <1>5
            <4> HIDE DEF new
            <4> QED
                BY <1>1, <1>4, <4>1, <4>2, UploadAssumption DEF TypeOK
        <3>2. ASSUME NEW q \in Paths
              PROVE  FileLength'[q] = IF q = p THEN n ELSE FileLength[q]
            <4>1. /\ FileLength[q] = IF file[q] = None THEN 0 ELSE file[q].len
                  /\ FileLength'[q] = IF file'[q] = None THEN 0 ELSE file'[q].len
                BY DEF FileLength
            <4> HIDE DEF n, p
            <4> QED
                BY <3>1, <4>1
        <3> HIDE DEF n, p
        <3> QED
            BY <2>1, <3>2
    <2>3. Total(g) = Total(f) - f[p] + n
        <3>1. p \in Paths /\ n \in Nat
            BY <1>4, <1>8
        <3> HIDE DEF f, n, p
        <3> QED
            BY <2>1, <3>1, TotalChanges
    <2>4. FileSize = Total(f) /\ FileSize' = Total(g)
        BY <2>2 DEF FileSize
    <2>5. FileSize \in Nat /\ Quota \in Nat
        BY SizesCount
    <2> HIDE DEF f, g, n, p
    <2> QED
        BY <1>3, <1>8, <2>1, <2>3, <2>4, <2>5
<1>10. FileSize' \in Nat /\ Quota \in Nat
    BY SizesCount
<1>11. tmp'[i] = None /\ \A j \in Ids \ {i} : meta'[j] = None /\ tmp'[j] = None
    BY <1>1, <1>2, <1>3, <1>5 DEF TypeOK, Exists
<1>12. ASSUME NEW j \in Ids
       PROVE  UploadFits(j)'
    <2>1. Length(tmp'[j]) = 0
        BY <1>11 DEF Length
    <2>2. meta'[j] # None => meta'[j].size \in Nat
        BY <1>2, <1>3, <1>11
    <2> QED
        <3>1. FileSize' + Length(tmp'[j]) <= Quota
            <4>1. PICK size \in Nat : size = FileSize'
                BY <1>10
            <4>2. size <= Quota
                BY <1>9, <4>1
            <4>3. size + 0 <= Quota
                BY <1>10, <4>2
            <4>4. FileSize' + 0 <= Quota
                BY <4>1, <4>3, Zenon
            <4> QED
                BY <2>1, <4>4, Zenon
        <3>2. meta'[j] # None => Length(tmp'[j]) <= meta'[j].size
            BY <2>1, <2>2
        <3> QED
            BY <1>7, <3>1, <3>2 DEF UploadFits
<1>13. OneUpload'
    BY <1>11 DEF OneUpload, Exists
<1>14. ASSUME NEW g \in Slots
       PROVE  ~Inits(g)' /\ (IsChunk(g)' => NewSize(g)' <= handler'[g].size)
    BY <1>1, <1>2, <1>3, <1>6 DEF Inits, IsChunk, NewSize, Goes, Fitting
<1>15. UsageCounts'
    BY <1>7 DEF UsageCounts
<1> QED
    BY <1>1, <1>9, <1>12, <1>13, <1>14, <1>15 DEF Fitting

\* What an upload will take is counted before it is begun: it is admitted where
\* no other is, against a usage that misses no file.
LEMMA AdmittedFits ==
    ASSUME Within, NEW h \in Handlers, NEW s \in Nat, NEW n \in Nat, NEW row,
           handler' = [handler EXCEPT ![h] = row],
           row # None, row.op = "init", row.size = s,
           Inits(h) => FALSE, ~OtherUpload, Moved \/ FileSize <= n, Fits(n, s),
           UNCHANGED <<meta, tmp, file>>, UsageMoves
    PROVE  Fitting'
<1>1. TypeOK /\ TypeOK' /\ raced' = {} /\ Fitting /\ UploadInv /\ h \in Slots
    BY SizesCount DEF Within, Slots
<1>2. FileSize' = FileSize /\ FileSize' <= FileSize
    BY FilesStay, SizesCount
<1>3. handler'[h] = row /\ \A k \in Slots \ {h} : handler'[k] = handler[k]
    BY <1>1 DEF TypeOK
<1>4. \A i \in Ids : ~Exists(i) /\ meta'[i] = None /\ tmp'[i] = None
    BY DEF OtherUpload, Exists
<1>5. \A k \in Slots : ~IsChunk(k) /\ ~Inits(k)
    <2>1. \A k \in Slots : ~IsChunk(k)
        BY <1>1, <1>4, LoneChunk DEF Exists
    <2>2. \A k \in Slots : Inits(k) => k \in Handlers
        BY <1>1 DEF Fitting, InitFits
    <2> QED
        BY <2>1, <2>2 DEF OtherUpload, Inits, At
<1>6. \A k \in Slots : ~IsChunk(k)' /\ (Inits(k)' => k = h)
    BY <1>3, <1>5 DEF IsChunk, Inits
<1>7. ~Moved /\ FileSize <= n /\ FileSize \in Nat /\ Quota \in Nat /\ FileSize <= Quota
    BY <1>5, SizesCount DEF Moved
<1>8. FileSize' + handler'[h].size <= Quota
    BY <1>2, <1>3, <1>7 DEF Fits
<1>9. \A k \in Slots : Inits(k)' => InitFits(k)'
    BY <1>4, <1>6, <1>8 DEF InitFits, Exists
<1>10. \A i \in Ids : UploadFits(i)'
    BY <1>2, <1>4, <1>7 DEF UploadFits, Length
<1>11. UsageCounts' /\ OneUpload'
    <2>1. UsageCounts'
        BY <1>2, <1>7, UsageStaysCounted
    <2> QED
        BY <1>4, <2>1 DEF OneUpload, Exists
<1> QED
    BY <1>1, <1>2, <1>6, <1>7, <1>9, <1>10, <1>11 DEF Fitting

LEMMA InitLookupFits ==
    ASSUME Within, ~shared', NEW h \in Handlers, NEW p \in Paths, NEW s \in Sizes,
           InitLookup(h, p, s) \/ InitCount(h, p, s)
    PROVE  Fitting'
<1>1. TypeOK /\ UsageTyped /\ Fitting /\ h \in Slots /\ h \in Counters /\ s \in Nat
    BY SizesCount, UploadAssumption DEF Within, Slots, Counters
<1>2. handler[h] = None /\ UNCHANGED <<meta, tmp, file>>
    BY DEF InitLookup, InitCount, Free, spaceVars
<1>3. FileSize' <= FileSize
    BY <1>2, FilesStay, SizesCount
<1>4. CASE InitLookup(h, p, s)
    <2>1. usage \in Nat /\ (Moved \/ FileSize <= usage) /\ UsageMoves
        BY <1>1, <1>4, UsageKeeps DEF InitLookup, usageVars, UsageTyped, Fitting, UsageCounts
    <2>2. CASE handler' = handler
        BY <1>2, <1>3, <2>1, <2>2, FilesShrinkFits
    <2>3. CASE handler' # handler
        <3> DEFINE row == [op |-> "init", pc |-> "create", path |-> p, size |-> s]
        <3>1. Fits(usage, s) /\ handler' = [handler EXCEPT ![h] = row] /\ ~OtherUpload
            BY <1>4, <2>3 DEF InitLookup, InitAdmits, Start
        <3>2. row \in OtherRow /\ row.op = "init" /\ row.size = s
            BY DEF OtherRow
        <3> HIDE DEF row
        <3>3. row # None /\ ~Inits(h)
            BY <1>2, <3>2, UploadAssumption DEF Inits
        <3> QED
            BY <1>1, <1>2, <2>1, <3>1, <3>2, <3>3, AdmittedFits
    <2> QED
        BY <2>2, <2>3
<1>5. CASE InitCount(h, p, s)
    <2> DEFINE row == [op |-> "init", pc |-> "counted", path |-> p, size |-> s]
    <2>1. handler' = [handler EXCEPT ![h] = row] /\ UsageMoves
        BY <1>1, <1>5, UsageBegins DEF InitCount, Start
    <2>2. row.op = "init" /\ row.pc = "counted"
        OBVIOUS
    <2> HIDE DEF row
    <2>3. handler'[h] = row /\ \A k \in Slots \ {h} : handler'[k] = handler[k]
        BY <1>1, <2>1 DEF TypeOK
    <2>4. ~Inits(h)' /\ ~IsChunk(h)' /\ ~IsChunk(h)
        BY <1>2, <2>2, <2>3 DEF Inits, IsChunk
    <2> QED
        BY <1>1, <1>2, <2>1, <2>3, <2>4, RequestGrowsNothing
<1> QED
    BY <1>4, <1>5

LEMMA InitStoreFits ==
    ASSUME Within, ~shared', NEW h \in Handlers, InitStore(h)
    PROVE  Fitting'
<1>1. TypeOK /\ UsageTyped /\ Fitting /\ h \in Slots /\ h \in Counters /\ Sizes \subseteq Nat
    BY SizesCount, UploadAssumption DEF Within, Slots, Counters
<1>2. /\ handler[h] # None /\ handler[h].op = "init" /\ handler[h].pc = "counted"
      /\ handler[h].size \in Nat
    BY <1>1, InitStoreShape
<1>3. UNCHANGED <<meta, tmp, file>> /\ StoreCount(h)
    BY DEF InitStore, spaceVars
<1>4. UsageMoves /\ count[h] \in Nat /\ (Moved \/ FileSize <= count[h])
    <2>1. UsageMoves /\ count[h] \in Nat /\ count[h] # None
        BY <1>1, <1>3, UsageStores DEF StoreCount
    <2> QED
        BY <1>1, <2>1 DEF Fitting, UsageCounts
<1>5. PICK row : /\ handler' = [handler EXCEPT ![h] = row]
                 /\ \/ row = None
                    \/ /\ row # None /\ row.op = "init" /\ row.size = handler[h].size
                       /\ InitAdmits(count[h], handler[h].path, handler[h].size)
                       /\ shared' = (shared \/ OtherUpload)
    BY <1>1, InitStoreShape
<1>6. CASE row = None
    <2>1. handler'[h] = None /\ \A k \in Slots \ {h} : handler'[k] = handler[k]
        BY <1>1, <1>5, <1>6 DEF TypeOK
    <2>2. ~Inits(h)' /\ ~IsChunk(h)' /\ ~IsChunk(h)
        BY <1>2, <2>1 DEF Inits, IsChunk
    <2> QED
        BY <1>1, <1>3, <1>4, <2>1, <2>2, RequestGrowsNothing
<1>7. CASE row # None
    <2>1. ~OtherUpload /\ Fits(count[h], handler[h].size) /\ ~Inits(h)
        BY <1>2, <1>5, <1>7 DEF InitAdmits, Inits
    <2> QED
        BY <1>2, <1>3, <1>4, <1>5, <1>7, <2>1, AdmittedFits
<1> QED
    BY <1>6, <1>7

LEMMA InitCreateFits ==
    ASSUME Within, NEW h \in Slots, NEW i \in Ids, InitCreate(h, i)
    PROVE  Fitting'
<1>1. TypeOK /\ TypeOK' /\ raced' = {} /\ Fitting /\ UploadInv
    BY SizesCount DEF Within
<1>2. /\ Inits(h) /\ UNCHANGED <<file, usage, count>>
      /\ handler' = [handler EXCEPT ![h] = None] /\ tmp' = [tmp EXCEPT ![i] = <<>>]
    BY DEF InitCreate, At, Inits, End, usageVars
<1>3. InitFits(h)
    BY <1>1, <1>2 DEF Fitting
<1>4. handler[h].size \in Nat
    BY <1>1, <1>2, InitSizes
<1> DEFINE new == [path |-> handler[h].path, size |-> handler[h].size, age |-> 0]
<1>5. meta' = [meta EXCEPT ![i] = new] /\ new.size = handler[h].size
    BY DEF InitCreate
<1> HIDE DEF new
<1>6. /\ meta'[i].size = handler[h].size /\ tmp'[i] = <<>>
      /\ \A j \in Ids \ {i} : meta'[j] = None /\ tmp'[j] = None
    BY <1>1, <1>2, <1>3, <1>5 DEF TypeOK, InitFits, Exists
<1>7. handler'[h] = None /\ \A k \in Slots \ {h} : handler'[k] = handler[k]
    BY <1>1, <1>2 DEF TypeOK
<1>8. FileSize' = FileSize /\ FileSize \in Nat /\ FileSize <= Quota /\ Quota \in Nat
    BY <1>2, FilesStay, SizesCount
<1>9. FileSize + handler[h].size <= Quota
    BY <1>3 DEF InitFits
<1>10. \A j \in Ids : Length(tmp'[j]) = 0
    BY <1>6 DEF Length
<1>11. ASSUME NEW j \in Ids
       PROVE  UploadFits(j)'
    <2>1. FileSize' + Length(tmp'[j]) <= Quota
        BY <1>8, <1>10
    <2>2. CASE j = i
        BY <1>4, <1>6, <1>8, <1>9, <1>10, <2>1, <2>2 DEF UploadFits
    <2>3. CASE j # i
        BY <1>6, <2>1, <2>3 DEF UploadFits
    <2> QED
        BY <2>2, <2>3
<1>12. OneUpload'
    BY <1>6 DEF OneUpload, Exists
<1>13. \A k \in Slots : ~Inits(k)'
    BY <1>3, <1>7 DEF InitFits, Inits
<1>14. \A k \in Slots : IsChunk(k)' => NewSize(k)' <= handler'[k].size
    BY <1>1, <1>7 DEF IsChunk, NewSize, Fitting
<1>15. UsageCounts'
    <2>1. ~Moved
        BY <1>1, <1>3, LoneChunk DEF Moved, InitFits, Exists
    <2> QED
        BY <1>1, <1>2, <1>8, <2>1 DEF UsageCounts, Fitting
<1> QED
    BY <1>1, <1>8, <1>11, <1>12, <1>13, <1>14, <1>15 DEF Fitting

-----------------------------------------------------------------------------
(* The quota's invariant.                                                  *)

\* What the space met stays met.
LEMMA SharedStays ==
    ASSUME TypeOK, [UploadNext]_uploadVars
    PROVE  shared => shared'
<1>1. ASSUME NEW h \in Handlers, Request(h)
      PROVE  shared => shared'
    BY <1>1 DEF Request, InitLookup, InitCount, ChunkStart, Cancel, RemoveMeta, RemoveUnknown,
                RacedWith, MoveCheck
<1>2. ASSUME NEW h \in Handlers, Proceed(h)
      PROVE  shared => shared'
    BY <1>2 DEF Proceed, InitStore, ChunkQuota, ChunkCount, ChunkStore, ChunkAppend, ChunkTooLong,
                ChunkStored, Publish, ChunkDone, Move, InitCreate
<1>3. ASSUME Crash
      PROVE  shared => shared'
    BY <1>3 DEF Crash
<1>4. ASSUME NEW i \in Ids, Cleanup(i)
      PROVE  shared => shared'
    BY <1>4 DEF Cleanup, RemoveMeta, RacedWith
<1> QED
    BY <1>1, <1>2, <1>3, <1>4
       DEF UploadNext, Fault, ChunkAppendFails, RemoveTmp, DeleteFile, SpaceCount, SpaceStore, Tick,
           uploadVars

\* Uploads that have not met are not raced.
LEMMA UnsharedUnraced ==
    ASSUME TypeOK, raced = {}, [UploadNext]_uploadVars, ~shared'
    PROVE  raced' = {}
<1>1. ASSUME NEW h \in Handlers, Request(h)
      PROVE  raced' = raced
    BY <1>1 DEF Request, InitLookup, InitCount, ChunkStart, Cancel, RemoveMeta, RemoveUnknown,
                RacedWith, MoveCheck
<1>2. ASSUME NEW h \in Handlers, Proceed(h)
      PROVE  raced' \subseteq raced
    BY <1>2 DEF Proceed, InitStore, ChunkQuota, ChunkCount, ChunkStore, ChunkAppend, ChunkTooLong,
                ChunkStored, Publish, ChunkDone, Move, InitCreate
<1>3. ASSUME Crash
      PROVE  raced' = raced
    BY <1>3 DEF Crash
<1>4. ASSUME NEW i \in Ids, Cleanup(i)
      PROVE  raced' = raced
    BY <1>4 DEF Cleanup, RemoveMeta, RacedWith
<1> QED
    BY <1>1, <1>2, <1>3, <1>4
       DEF UploadNext, Fault, ChunkAppendFails, RemoveTmp, DeleteFile, SpaceCount, SpaceStore, Tick,
           uploadVars

LEMMA UsageStaysTyped ==
    ASSUME UploadInv, UsageTyped, [UploadNext]_uploadVars
    PROVE  UsageTyped'
<1>1. TypeOK /\ TypeOK'
    BY UploadStep, Parts DEF UploadInv, PublishedWhole
<1>2. DirSize \in Nat /\ Handlers \subseteq Counters /\ Readers \subseteq Counters
    BY <1>1, SizeTypes DEF Counters
<1> DEFINE Stays == usage' \in {None, usage} /\ count' = count
<1>3. ASSUME NEW c \in Counters, StoreCount(c) \/ (BeginCount(c) /\ usage' = usage)
      PROVE  UsageTyped'
    <2>1. CASE StoreCount(c)
        BY <2>1, UsageStores DEF UsageTyped
    <2>2. CASE BeginCount(c) /\ usage' = usage
        BY <1>2, <2>2 DEF BeginCount, UsageTyped
    <2> QED
        BY <1>3, <2>1, <2>2
<1>4. ASSUME NEW h \in Handlers, Request(h)
      PROVE  UsageTyped'
    <2>1. ASSUME NEW p \in Paths, NEW s \in Sizes, InitCount(h, p, s)
          PROVE  UsageTyped'
        BY <1>2, <1>3, <2>1 DEF InitCount
    <2>2. CASE ~\E p \in Paths, s \in Sizes : InitCount(h, p, s)
        <3>1. Stays
            BY <1>4, <2>2 DEF Request, InitLookup, ChunkStart, Cancel, RemoveMeta, RemoveUnknown,
                              MoveCheck, usageVars
        <3> QED
            BY <3>1 DEF UsageTyped
    <2> QED
        BY <2>1, <2>2
<1>5. ASSUME NEW h \in Handlers, Proceed(h)
      PROVE  UsageTyped'
    <2>1. CASE InitStore(h) \/ ChunkCount(h) \/ ChunkStore(h)
        BY <1>2, <1>3, <2>1 DEF InitStore, ChunkCount, ChunkStore
    <2>2. CASE ~(InitStore(h) \/ ChunkCount(h) \/ ChunkStore(h))
        <3>1. Stays
            BY <1>5, <2>2 DEF Proceed, ChunkQuota, ChunkAppend, ChunkTooLong, ChunkStored, Publish,
                              ChunkDone, Move, InitCreate, UsageForgotten, usageVars
        <3> QED
            BY <3>1 DEF UsageTyped
    <2> QED
        BY <2>1, <2>2
<1>6. ASSUME NEW c \in Readers, SpaceCount(c) \/ SpaceStore(c)
      PROVE  UsageTyped'
    BY <1>2, <1>3, <1>6 DEF SpaceCount, SpaceStore
<1>7. CASE Crash
    BY <1>7 DEF Crash, UsageTyped
<1>8. CASE \/ \E h \in Slots : RemoveTmp(h)
           \/ \E p \in Paths : DeleteFile(p)
           \/ \E i \in Ids : Cleanup(i)
           \/ Tick
           \/ \E h \in Handlers, k \in 0..ChunkSize - 1 : ChunkAppendFails(h, k)
           \/ UNCHANGED uploadVars
    <2>1. Stays
        BY <1>8 DEF RemoveTmp, DeleteFile, Cleanup, RemoveMeta, Tick, ChunkAppendFails, UsageForgotten,
                    uploadVars, usageVars
    <2> QED
        BY <2>1 DEF UsageTyped
<1> QED
    BY <1>4, <1>5, <1>6, <1>7, <1>8 DEF UploadNext, Fault

LEMMA FittingStep ==
    ASSUME UploadInv, UsageTyped, Fitting, [UploadNext]_uploadVars, ~shared'
    PROVE  Fitting'
<1>1. Within
    <2>1. TypeOK /\ raced = {}
        BY Parts DEF Fitting
    <2> QED
        BY <2>1, UploadStep, UnsharedUnraced DEF Within
<1>2. ASSUME NEW h \in Handlers, Request(h)
      PROVE  Fitting'
    BY <1>1, <1>2, InitLookupFits, ChunkStartFits, RemoveFits, MoveFits DEF Request, Cancel, Slots
<1>3. ASSUME NEW h \in Handlers, Proceed(h)
      PROVE  Fitting'
    <2>1. h \in Slots
        BY DEF Slots
    <2> QED
        BY <1>1, <1>3, <2>1, InitStoreFits, ChunkQuotaFits, ChunkAppendFits, ChunkTooLongFits,
           ChunkStoredFits, PublishFits, ChunkDoneFits, MoveFits, InitCreateFits DEF Proceed
<1>4. ASSUME NEW i \in Ids, Cleanup(i)
      PROVE  Fitting'
    BY <1>1, <1>4, RemoveFits DEF Cleanup, Slots
<1>5. CASE Fault
    <2>1. \A h \in Handlers : h \in Slots
        BY DEF Slots
    <2> QED
        BY <1>1, <1>5, <2>1, CrashFits, ChunkAppendFailsFits DEF Fault
<1> QED
    BY <1>1, <1>2, <1>3, <1>4, <1>5, RemoveTmpFits, DeleteFits, IdleFits DEF UploadNext

LEMMA QuotaStep == QuotaInv /\ [UploadNext]_uploadVars => QuotaInv'
<1> SUFFICES ASSUME QuotaInv, [UploadNext]_uploadVars
             PROVE  QuotaInv'
    OBVIOUS
<1>1. UploadInv' /\ UsageTyped' /\ (shared => shared')
    BY UploadStep, UsageStaysTyped, SharedStays, Parts DEF QuotaInv
<1>2. ASSUME ~shared'
      PROVE  Fitting'
    BY <1>1, <1>2, FittingStep DEF QuotaInv
<1> QED
    BY <1>1, <1>2 DEF QuotaInv

LEMMA InitQuotaInv == UploadInit => QuotaInv
<1> SUFFICES ASSUME UploadInit
             PROVE  QuotaInv
    OBVIOUS
<1>1. UploadInv /\ TypeOK
    BY InitUploadInv, Parts
<1>2. FileSize = 0
    <2>1. FileLength \in [Paths -> Nat] /\ \A p \in Paths : FileLength[p] = 0
        BY DEF UploadInit, FileLength
    <2> QED
        BY <2>1, TotalOfNone, UploadAssumption DEF FileSize
<1>3. \A i \in Ids : UploadFits(i)
    BY <1>2, UploadAssumption DEF UploadInit, UploadFits, Length
<1>4. \A h \in Slots : ~Inits(h) /\ ~IsChunk(h)
    BY DEF UploadInit, Inits, IsChunk
<1>5. OneUpload /\ UsageCounts /\ UsageTyped
    BY DEF UploadInit, OneUpload, Exists, UsageCounts, UsageTyped
<1> QED
    BY <1>1, <1>2, <1>3, <1>4, <1>5, UploadAssumption DEF UploadInit, QuotaInv, Fitting

\* What one upload and the files take together is what is promised them.
LEMMA FittingIsWithin ==
    ASSUME TypeOK, Fitting
    PROVE  DirSize <= Quota
<1>1. /\ TmpLength \in [Ids -> Nat] /\ IsFiniteSet(Ids)
      /\ FileSize \in Nat /\ FileSize <= Quota
    <2>1. \A i \in Ids : Length(tmp[i]) \in Nat
        BY UploadSizes
    <2>2. \A p \in Paths : file[p] # None => file[p].len \in Nat
        BY DEF TypeOK, File
    <2>3. FileLength \in [Paths -> Nat]
        BY <2>2 DEF FileLength
    <2>4. FileSize \in Nat
        BY <2>3, PositionsFinite, UploadAssumption DEF FileSize
    <2> QED
        BY <2>1, <2>4, UploadAssumption DEF TmpLength, Fitting
<1>2. CASE \E i \in Ids : tmp[i] # None
    <2>1. PICK i \in Ids : tmp[i] # None
        BY <1>2
    <2>2. \A j \in Ids \ {i} : TmpLength[j] = 0
        BY <2>1 DEF TmpLength, Length, Fitting, OneUpload, Exists
    <2>3. Total(TmpLength) = TmpLength[i]
        BY <1>1, <2>2, TotalOfOne
    <2>4. TmpLength[i] = Length(tmp[i]) /\ FileSize + Length(tmp[i]) <= Quota
        BY DEF TmpLength, Fitting, UploadFits
    <2>5. DirSize = Length(tmp[i]) + FileSize
        BY <2>3, <2>4 DEF DirSize, FileSize
    <2>6. Length(tmp[i]) \in Nat
        BY UploadSizes
    <2> QED
        BY <1>1, <2>4, <2>5, <2>6
<1>3. CASE \A i \in Ids : tmp[i] = None
    <2>1. \A i \in Ids : TmpLength[i] = 0
        BY <1>3 DEF TmpLength, Length
    <2>2. Total(TmpLength) = 0
        BY <1>1, <2>1, TotalOfNone
    <2>3. DirSize = 0 + FileSize
        BY <2>2 DEF DirSize, FileSize
    <2> QED
        BY <1>1, <2>3
<1> QED
    BY <1>2, <1>3

(* One upload at a time, of no more than it declared, begun when nothing   *)
(* of another is left and not cut short, keeps the space within the quota, *)
(* for any sizes, quota, number of files and order of requests, although   *)
(* the usage compared with it is cached, unless a walk of the space was    *)
(* under way as a file was published or moved (init_upload, upload_chunk,  *)
(* _get_usage_sync).                                                       *)
THEOREM SpaceStaysWithin == UploadSpec => []QuotaHoldsAlone
<1>1. QuotaInv => QuotaHoldsAlone
    BY FittingIsWithin, Parts DEF QuotaInv, QuotaHoldsAlone, UsageTyped
<1> QED
    BY <1>1, InitQuotaInv, QuotaStep, PTL DEF UploadSpec
=============================================================================
