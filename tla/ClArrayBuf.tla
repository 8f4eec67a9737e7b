----------------------------- MODULE ClArrayBuf -----------------------------
(***************************************************************************)
(* The Array Table of an object (ClArrayBuf in objectImpl.c): an arena     *)
(* "buf" of CMPIData cells and an index from logical id (1-based) to the   *)
(* cell offset (0-based) where the array starts.  An array is a header    *)
(* cell (type | CMPI_ARRAY, value = element count) followed by its         *)
(* elements, so its length is the header's count + 1.  bUsed is Len(buf), *)
(* iUsed is Len(index); bMax is the arena's capacity in cells.  "owned" is *)
(* the arena's malloced flag: a table inside a flattened object is         *)
(* borrowed, with bMax = bUsed (copyArrayBuf).                             *)
(*                                                                         *)
(* Elements are scalar values (numbers >= 1): the string, dateTime, ref    *)
(* and instance elements of addClArray go through the String Table and    *)
(* leave the Array Table's layout as it is.  The index growth copies every *)
(* slot and is left out.                                                   *)
(***************************************************************************)
LOCAL INSTANCE Naturals
LOCAL INSTANCE Sequences

\* A CMPIData cell: h is the CMPI_ARRAY bit of its type, v its value.
Cell(h, v) == [h |-> h, v |-> v]

\* A cell the code never wrote: uninitialised malloc memory.
Junk == Cell(FALSE, 0)

\* arrayBufOffset == 0: the object has no Array Table yet.
NoArrayBuf == [present |-> FALSE, buf |-> <<>>, index |-> <<>>,
               bMax |-> 0, owned |-> TRUE]

\* sizeof(CMPIData) in bytes.  ClArrayBuf (objectImpl.h) ends with
\* CMPIData buf[1], so sizeof(ClArrayBuf) covers the first cell.
CMPIDataSize == 16

\* for (; nmax <= need; nmax *= 2);
RECURSIVE Doubled(_, _)
Doubled(n, need) == IF n > need THEN n ELSE Doubled(2 * n, need)

\* The cells memcpy(new, buf, bMax + sizeof(ClArrayBuf)) brings over: the
\* count is taken as bytes, so buf[0] and bMax more bytes, not bMax cells.
KeptCells(t) == 1 + t.bMax \div CMPIDataSize

KeepPrefix(t, k) ==
    [t EXCEPT !.buf = [j \in 1 .. Len(t.buf) |->
                         IF j <= k THEN t.buf[j] ELSE Junk]]

\* The growth of addClArray when bUsed + l >= bMax: a borrowed arena is
\* copied into a new malloc'ed one (moved), an owned one is realloc'ed
\* (moved or not, as realloc decides: mv).
GrowArrayBuf(t, need, mv) ==
    IF ~t.owned
    THEN [tab |-> [KeepPrefix(t, KeptCells(t)) EXCEPT
                     !.bMax = Doubled(t.bMax, need), !.owned = TRUE],
          moved |-> TRUE]
    ELSE [tab |-> [t EXCEPT !.bMax = Doubled(t.bMax, need)], moved |-> mv]

\* The header and elements addClArray writes for an array of values vals.
ArrayCells(vals) ==
    <<Cell(TRUE, Len(vals))>> \o [j \in 1 .. Len(vals) |-> Cell(FALSE, vals[j])]

AppendArray(t, vals) ==
    [t EXCEPT !.buf = t.buf \o ArrayCells(vals),
              !.index = Append(t.index, Len(t.buf))]

\* addClArray(hdr, d): the outcome is the table, the id (the new iUsed) and
\* whether the arena moved.  Without a table, one is malloc'ed with the
\* smallest 16 * 2^k above l = size + 1.
AddClArray(t, vals, mv) ==
    LET l == Len(vals) + 1
    IN  IF ~t.present
        THEN [tab |-> AppendArray([NoArrayBuf EXCEPT !.present = TRUE,
                                     !.bMax = Doubled(16, l)], vals),
              id |-> 1, moved |-> FALSE]
        ELSE IF Len(t.buf) + l >= t.bMax
        THEN [tab |-> AppendArray(GrowArrayBuf(t, Len(t.buf) + l, mv).tab, vals),
              id |-> Len(t.index) + 1,
              moved |-> GrowArrayBuf(t, Len(t.buf) + l, mv).moved]
        ELSE [tab |-> AppendArray(t, vals), id |-> Len(t.index) + 1,
              moved |-> FALSE]

\* The cells of the array at slot i, its length read from its header.
ArrayAt(t, i) ==
    SubSeq(t.buf, t.index[i] + 1, t.index[i] + t.buf[t.index[i] + 1].v + 1)

\* The compaction loop of replaceClArray: every array but slot id is
\* copied, in slot order, to the front of a temporary arena, its slot set
\* to its new offset; slot id keeps its old offset.
RECURSIVE Compacted(_, _, _, _)
Compacted(t, id, i, acc) ==
    IF i > Len(t.index) THEN acc
    ELSE IF i = id THEN Compacted(t, id, i + 1, acc)
    ELSE Compacted(t, id, i + 1,
                   [buf |-> acc.buf \o ArrayAt(t, i),
                    index |-> [acc.index EXCEPT ![i] = Len(acc.buf)]])

\* replaceClArray(hdr, id, d): compact, addClArray, then iUsed-- and
\* indexPtr[id-1] = indexPtr[i-1] through fb, the ClArrayBuf pointer taken
\* before addClArray.  If addClArray moved the arena, fb is the old one:
\* iUsed-- is lost to the new table; the index write still lands, as the
\* old header carries the same indexPtr.
ReplaceClArray(t, id, vals, mv) ==
    LET c  == Compacted(t, id, 1, [buf |-> <<>>, index |-> t.index])
        t1 == [t EXCEPT !.buf = c.buf, !.index = c.index]
        a  == AddClArray(t1, vals, mv)
        t2 == [a.tab EXCEPT !.index[id] = a.tab.index[a.id]]
    IN  IF a.moved THEN t2
        ELSE [t2 EXCEPT !.index = SubSeq(t2.index, 1, Len(t2.index) - 1)]

\* copyArrayBuf, as rebuildInstanceH and the relocation of the copy leave
\* it: the same cells and slots, borrowed, with bMax = bUsed.
FlattenArrayBuf(t) ==
    IF ~t.present THEN t
    ELSE [t EXCEPT !.bMax = Len(t.buf), !.owned = FALSE]

=============================================================================
