------------------------------ MODULE ClStrBuf ------------------------------
(***************************************************************************)
(* The String Table of an object (ClStrBuf in objectImpl.c): a byte arena  *)
(* "buf" and an index "index" from logical id (1-based) to the byte offset *)
(* (0-based) of the entry in the arena.  bUsed is Len(buf) and iUsed is    *)
(* Len(index).  Entries carry no length: the length of entry i is the      *)
(* distance to the nearest entry that starts after it in the arena, or to  *)
(* bUsed (getBufIndexLen).                                                 *)
(*                                                                         *)
(* The growth of bMax and iMax by doubling, and the copy out of a borrowed *)
(* (flattened) arena before growing, preserve the bytes and the index and  *)
(* are abstracted away: a table is the pair of sequences.                  *)
(***************************************************************************)
LOCAL INSTANCE Naturals
LOCAL INSTANCE Sequences

\* The byte 0, which terminates a string entry added without a length.
NUL == 0

EmptyStrBuf == [buf |-> <<>>, index |-> <<>>]

\* addClStringN: copy the bytes to the end of the arena and index them.  The
\* new logical id is the new iUsed.  A string added without a length is its
\* characters followed by NUL (Terminated); an embedded object is added with
\* its size, verbatim.
AddClStringN(sb, bytes) ==
    [buf |-> sb.buf \o bytes, index |-> Append(sb.index, Len(sb.buf))]

Terminated(chars) == chars \o <<NUL>>

\* The id addClStringN returns for a table sb.
NextId(sb) == Len(sb.index) + 1

\* Faulty variant of GetBufIndexLen: the length taken as the distance to the
\* next index slot rather than to the nearest later start in the arena.
GetBufIndexLenNextSlot(index, bUsed, i) ==
    IF i < Len(index) THEN index[i + 1] - index[i] ELSE bUsed - index[i]

\* getBufIndexLen(indexPtr, bUsed, iUsed, i): the nearest start after our
\* start among all index entries, bounded by bUsed.
GetBufIndexLen(index, bUsed, i) ==
    LET ours  == index[i]
        later == {index[j] : j \in {k \in DOMAIN index :
                                      index[k] > ours /\ index[k] < bUsed}}
        nearest == IF later = {} THEN bUsed
                   ELSE CHOOSE o \in later : \A o2 \in later : o <= o2
    IN  nearest - ours

\* The bytes of entry id, as its derived length delimits them
\* (ClObjectGetClString returns the address; a reader sees these bytes).
Entry(sb, id) ==
    SubSeq(sb.buf, sb.index[id] + 1,
           sb.index[id] + GetBufIndexLen(sb.index, Len(sb.buf), id))

\* The compaction loop shared by replaceClStringN and removeClObject: every
\* entry but "skip", in index order, is copied to a temporary arena at the
\* running offset u, its length derived from the old index; its index slot
\* is rewritten to u.  The slot of "skip" keeps its old offset.
RECURSIVE CompactLoop(_, _, _, _, _)
CompactLoop(old, skip, i, ts, idx) ==
    IF i > Len(old.index) THEN [buf |-> ts, index |-> idx]
    ELSE IF i = skip THEN CompactLoop(old, skip, i + 1, ts, idx)
    ELSE CompactLoop(old, skip, i + 1, ts \o Entry(old, i),
                     [idx EXCEPT ![i] = Len(ts)])

Compact(sb, skip) == CompactLoop(sb, skip, 1, <<>>, sb.index)

\* Faulty variant of ReplaceClStringN: the slot addClStringN took for the new
\* bytes is not given back (no iUsed--).
ReplaceClStringNNoDecrement(sb, id, bytes) ==
    LET a == AddClStringN(Compact(sb, id), bytes)
    IN  [a EXCEPT !.index[id] = a.index[Len(a.index)]]

\* replaceClStringN: compact without entry id, append the new bytes (which
\* takes slot iUsed+1), take that slot back (iUsed--) and point slot id at
\* the new bytes.
ReplaceClStringN(sb, id, bytes) ==
    LET c == Compact(sb, id)
        a == AddClStringN(c, bytes)
    IN  [buf   |-> a.buf,
         index |-> [j \in 1 .. Len(sb.index) |->
                      IF j = id THEN a.index[Len(a.index)] ELSE a.index[j]]]

\* removeClObject: compact without entry id and decrement iUsed.  The slot
\* dropped is the last one, not slot id, which keeps its stale offset; the
\* caller is to follow with addClObject.
RemoveClObject(sb, id) ==
    LET c == Compact(sb, id)
    IN  [buf |-> c.buf, index |-> SubSeq(c.index, 1, Len(c.index) - 1)]

=============================================================================
