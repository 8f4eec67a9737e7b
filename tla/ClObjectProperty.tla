--------------------------- MODULE ClObjectProperty ---------------------------
(***************************************************************************)
(* The properties Section of a live object (objectImpl.c): each entry     *)
(* holds a name id and a CMPIData over the object's String Table           *)
(* (ClStrBuf).  The operation is addObjectPropertyH, reached through       *)
(* ClInstanceAddProperty, ClArgsAddArg, ClObjectPathAddKey and             *)
(* ClClassAddProperty, and ClInstanceAddPropertyQualifierSpecial; the      *)
(* reader is ClInstanceGetPropertyAt / ClArgsGetArgAt.  Array values live *)
(* in the object's Array Table (ClArrayBuf).  The object kind is chosen   *)
(* when the object is created; ClObject adds the other kinds' operations  *)
(* and the flatten.                                                        *)
(*                                                                         *)
(* A CMPIData is [type, null, raw, v].  For the types whose value lives in *)
(* the String Table (chars, dateTime, ref, instance) v is a logical id,    *)
(* unless raw: then the code stored the caller's CMPIData verbatim and v   *)
(* is the caller's pointer (here: the value it points to).  A "string"     *)
(* (CMPIString) is always such a pointer.  A scalar holds its value.  A    *)
(* null CMPIData carries the value 0.                                      *)
(***************************************************************************)
EXTENDS Integers, Sequences, FiniteSets
LOCAL INSTANCE SequencesExt

CONSTANTS
    Kinds,      \* the header types an object may be created with
    Names,      \* property names, as byte sequences
    InputData,  \* name -> the CMPIData values callers pass for it: [type, null, v]
    NameSpace,  \* the namespace and class name of an Instance or an
    ClassName,  \* ObjectPath, the name and parent name of a Class
    ParentName, \* (byte sequences)
    MaxOps,     \* kind -> bound on the number of calls on an object of it
    GetIds,     \* the 0-based ids callers pass to the GetPropertyAt readers
    Unset,      \* model value: a name no call has set yet
    NullRead,   \* model value: what a reader gets for a null CMPIData
    Garbage     \* model value: what a reader gets through a bad id

SB == INSTANCE ClStrBuf
AB == INSTANCE ClArrayBuf

ASSUME Kinds \subseteq {"Instance", "Args", "ObjectPath", "Class", "Qualifier"}
ASSUME \A k \in Kinds : MaxOps[k] \in Nat
ASSUME GetIds \subseteq Int

\* Types whose value addObjectPropertyH materialises into the String Table.
StrTypes == {"chars", "dateTime", "ref"}
IdTypes  == StrTypes \union {"instance"}

VARIABLES
    kind,       \* hdr.type: the kind of the object
    strBuf,     \* the String Table (ClStrBuf)
    arr,        \* the Array Table (ClArrayBuf)
    props,      \* the properties Section: a sequence of ClProperty
    quals,      \* ClProperty.quals of each entry (set of flags)
    expect,     \* ghost: name -> the value the last successful call set
    rc,         \* what the last call returned
    oob,        \* a slot outside an index array or Section was accessed
    ops         \* calls made so far (bounded by MaxOps)

vars == <<kind, strBuf, arr, props, quals, expect, rc, oob, ops>>

\* A stored CMPIData whose value field is 0 (a null pointer or id 0).  Values
\* of the caller (words, blobs, scalars, pointers) are byte sequences, ids
\* are numbers; a caller's CMPIData stored as given is 0 when it is null,
\* and a pointer otherwise.
Zero(dd) == IF dd.raw THEN dd.null ELSE dd.v = 0

\* The bytes a C reader gets from a char* into the arena: up to the first NUL.
CStr(e) ==
    IF \E k \in DOMAIN e : e[k] = SB!NUL
    THEN SubSeq(e, 1, (CHOOSE k \in DOMAIN e : e[k] = SB!NUL /\
                          \A k2 \in 1 .. k - 1 : e[k2] # SB!NUL) - 1)
    ELSE e

ValidId(sb, id) == id \in 1 .. Len(sb.index)

\* ClObjectLocateProperty: the first entry whose name, read through the
\* String Table, equals id (1-based position), or 0.
ClObjectLocateProperty(sb, ps, n) ==
    LET hits == {i \in 1 .. Len(ps) :
                   ValidId(sb, ps[i].name) /\ CStr(SB!Entry(sb, ps[i].name)) = n}
    IN  IF hits = {} THEN 0 ELSE CHOOSE i \in hits : \A j \in hits : i <= j

\* ClObjectGetClArray and the copy of its elements: the header's count,
\* then that many cells; a header that is not one reads as garbage.
ReadArray(ab, id) ==
    LET h == ab.buf[ab.index[id] + 1]
    IN  IF ~h.h THEN Garbage
        ELSE [j \in 1 .. h.v |-> ab.buf[ab.index[id] + 1 + j].v]

\* What ClInstanceGetPropertyAt / ClArgsGetArgAt hand back for a stored
\* CMPIData: ids are resolved through the String Table (C strings up to NUL,
\* an embedded instance as its bytes); a raw pointer taken for an id, or an
\* id outside the index, yields whatever memory it reaches.
ReadValue(sb, ab, d) ==
    IF d.null THEN NullRead
    ELSE IF d.type = "array"
         THEN IF d.raw \/ d.v \notin 1 .. Len(ab.index) THEN Garbage
              ELSE ReadArray(ab, d.v)
    ELSE IF d.type \in IdTypes
         THEN IF d.raw \/ ~ValidId(sb, d.v) THEN Garbage
              ELSE IF d.type = "instance" THEN SB!Entry(sb, d.v)
              ELSE CStr(SB!Entry(sb, d.v))
    ELSE d.v

\* The value a caller means by a CMPIData.
Logical(d) == IF d.null THEN NullRead ELSE d.v

\* The bytes addClString / addClObject store for a non-null input.
Stored(d) == IF d.type = "instance" THEN d.v ELSE SB!Terminated(d.v)

\* newQualifierDeclarationH: the qualifier's name (ClassName stands for it),
\* then the namespace; qualifierData starts empty.
newQualifierDeclaration == <<ClassName, NameSpace>>

\* The strings a new object's constructor adds to its String Table, in
\* order: newInstanceH and newObjectPathH the namespace, then the class
\* name; newClassH the name, then the parent; newArgsH none; a qualifier
\* declaration those of newQualifierDeclaration.
CtorStrings(k) ==
    CASE k \in {"Instance", "ObjectPath"} -> <<NameSpace, ClassName>>
      [] k = "Class" -> <<ClassName, ParentName>>
      [] k = "Args" -> <<>>
      [] k = "Qualifier" -> newQualifierDeclaration

NewObjectStrBuf(k) ==
    LET add(sb, w) == SB!AddClStringN(sb, SB!Terminated(w))
    IN  FoldLeft(add, SB!EmptyStrBuf, CtorStrings(k))

Init ==
    /\ kind \in Kinds
    /\ strBuf = NewObjectStrBuf(kind)
    /\ arr = AB!NoArrayBuf
    /\ props = <<>>
    /\ quals = <<>>
    /\ expect = [n \in Names |-> Unset]
    /\ rc = "none"
    /\ oob = FALSE
    /\ ops = 0

(***************************************************************************)
(* addObjectPropertyH, first branch: the name is not in the Section.  The  *)
(* name is added to the String Table first, then the refName if there is  *)
(* one (r # NullName), then a non-null string-like or instance value, or  *)
(* a non-null array into the Array Table; anything else is stored as      *)
(* given.                                                                  *)
(* A CMPIString is stored as chars; an instance sets the EmbeddedObject    *)
(* qualifier.  The entry's qualifiers Section starts empty.  NewEntry is   *)
(* the outcome: the tables, the ClProperty and its quals.  mv: whether a   *)
(* realloc moves.                                                          *)
(***************************************************************************)
\* A NULL char* (a refName, a host name).
NullName == <<>>

NewEntry(n, d, r, mv) ==
    LET sb0 == SB!AddClStringN(strBuf, SB!Terminated(n))
        sb1 == IF r = NullName THEN sb0 ELSE SB!AddClStringN(sb0, SB!Terminated(r))
        mat == ~d.null /\ d.type \in IdTypes \union {"string"}
        ary == ~d.null /\ d.type = "array"
        typ == IF d.type = "string" /\ ~d.null THEN "chars" ELSE d.type
    IN  [sb |-> IF mat THEN SB!AddClStringN(sb1, Stored(d)) ELSE sb1,
         ab |-> IF ary THEN AB!AddClArray(arr, d.v, mv).tab ELSE arr,
         p  |-> [name |-> SB!NextId(strBuf),
                 refName |-> IF r = NullName THEN 0 ELSE SB!NextId(sb0),
                 qualifiers |-> <<>>,
                 data |-> [type |-> typ, null |-> d.null, raw |-> FALSE,
                           v |-> IF mat THEN SB!NextId(sb1)
                                 ELSE IF ary THEN Len(arr.index) + 1
                                 ELSE IF d.null THEN 0 ELSE d.v]],
         q  |-> IF mat /\ d.type = "instance" THEN {"EmbeddedObject"} ELSE {}]

\* Faulty variant of AddNew: the new entry's qualifier word is not set.
AddNewNoQuals(n, d, r, mv) ==
    /\ strBuf' = NewEntry(n, d, r, mv).sb
    /\ arr' = NewEntry(n, d, r, mv).ab
    /\ props' = Append(props, NewEntry(n, d, r, mv).p)
    /\ UNCHANGED quals
    /\ rc' = "ok"
    /\ oob' = oob

AddNew(n, d, r, mv) ==
    /\ strBuf' = NewEntry(n, d, r, mv).sb
    /\ arr' = NewEntry(n, d, r, mv).ab
    /\ props' = Append(props, NewEntry(n, d, r, mv).p)
    /\ quals' = Append(quals, NewEntry(n, d, r, mv).q)
    /\ rc' = "ok"
    /\ oob' = oob

(***************************************************************************)
(* addObjectPropertyH, second branch: entry i holds od; d replaces it.     *)
(* The outcome is a record: the new String Table, the new CMPIData, the    *)
(* return code, and whether the index was written out of bounds.          *)
(***************************************************************************)
Mismatch == [ok |-> FALSE]

ReplaceOutcome(i, d, mv) ==
    LET od  == props[i].data
        q   == quals[i]
        nn  == ~d.null
        Put(sb, nd) == [ok |-> TRUE, sb |-> sb, ab |-> arr, data |-> nd, oob |-> FALSE]
        Id(v) == [type |-> d.type, null |-> FALSE, raw |-> FALSE, v |-> v]
        Raw == [type |-> d.type, null |-> d.null, raw |-> TRUE,
                v |-> IF d.null THEN 0 ELSE d.v]
    IN
    CASE od.type = "chars" /\ nn ->
           \* "quals && ClProperty_Q_EmbeddedObject": any qualifier at all
           IF q # {} THEN Mismatch
           ELSE IF d.type # "chars"
           THEN IF d.type # "string" THEN Mismatch
                ELSE [ok |-> TRUE,
                      sb |-> SB!ReplaceClStringN(strBuf, od.v, SB!Terminated(<<>>)),
                      ab |-> arr, data |-> Raw, oob |-> Zero(od)]
           ELSE IF ~Zero(od)
           THEN Put(SB!ReplaceClStringN(strBuf, od.v, SB!Terminated(d.v)), Id(od.v))
           ELSE Put(SB!AddClStringN(strBuf, SB!Terminated(d.v)), Id(SB!NextId(strBuf)))
      [] od.type = "string" /\ nn ->
           IF q # {} \/ d.type \notin {"chars", "string"} THEN Mismatch
           ELSE IF ~Zero(od) THEN Mismatch
           ELSE Put(SB!AddClStringN(strBuf, SB!Terminated(d.v)),
                    [type |-> "chars", null |-> FALSE, raw |-> FALSE,
                     v |-> SB!NextId(strBuf)])
      [] od.type \in {"dateTime", "ref"} /\ nn ->
           IF d.type # od.type THEN Mismatch
           ELSE IF ~Zero(od)
           THEN Put(SB!ReplaceClStringN(strBuf, od.v, SB!Terminated(d.v)), Id(od.v))
           ELSE Put(SB!AddClStringN(strBuf, SB!Terminated(d.v)), Id(SB!NextId(strBuf)))
      [] od.type = "array" /\ nn ->
           \* replaceClArray keeps the id; without one, addClArray
           IF d.type # "array" THEN Mismatch
           ELSE IF ~Zero(od)
           THEN [Put(strBuf, Id(od.v)) EXCEPT !.ab = AB!ReplaceClArray(arr, od.v, d.v, mv)]
           ELSE [Put(strBuf, Id(Len(arr.index) + 1)) EXCEPT
                   !.ab = AB!AddClArray(arr, d.v, mv).tab]
      [] kind = "Instance" /\ od.type = "instance" /\ nn ->
           \* data = d; replaceClObject keeps the entry but the caller's
           \* pointer stays in data.value.inst
           IF d.type # "instance" THEN Mismatch
           ELSE IF ~Zero(od)
           THEN Put(SB!ReplaceClStringN(strBuf, od.v, d.v), Raw)
           ELSE Put(SB!AddClStringN(strBuf, d.v), Id(SB!NextId(strBuf)))
      [] kind = "Args" /\ od.type = "instance" /\ nn ->
           IF d.type # "instance" THEN Mismatch
           ELSE LET sb1 == IF ~Zero(od) THEN SB!RemoveClObject(strBuf, od.v)
                           ELSE strBuf
                IN  Put(SB!AddClStringN(sb1, d.v), Id(SB!NextId(sb1)))
      [] OTHER ->
           \* (p + i - 1)->data = d
           Put(strBuf, IF d.type \in IdTypes \union {"string", "array"} THEN Raw
                       ELSE [type |-> d.type, null |-> d.null, raw |-> FALSE,
                             v |-> IF d.null THEN 0 ELSE d.v])

Replace(i, d, mv) ==
    LET o == ReplaceOutcome(i, d, mv)
    IN  IF o.ok
        THEN /\ strBuf' = o.sb
             /\ arr' = o.ab
             /\ props' = [props EXCEPT ![i].data = o.data]
             /\ rc' = "ok"
             /\ oob' = (oob \/ o.oob)
        ELSE /\ rc' = "mismatch"
             /\ UNCHANGED <<strBuf, arr, props, oob>>

\* ClInstanceAddProperty / ClArgsAddArg / ClObjectPathAddKey (refName NULL)
\* and ClClassAddProperty -> addObjectPropertyH(hdr, prps, n, d, r)
AddObjectPropertyH(n, d, r, mv) ==
    LET i == ClObjectLocateProperty(strBuf, props, n)
    IN  /\ ops < MaxOps[kind]
        /\ ops' = ops + 1
        /\ IF i = 0 THEN AddNew(n, d, r, mv) ELSE Replace(i, d, mv) /\ UNCHANGED quals
        /\ expect' = IF rc' = "ok" THEN [expect EXCEPT ![n] = Logical(d)]
                     ELSE expect
        /\ UNCHANGED kind

\* ClInstanceAddPropertyQualifierSpecial(inst, n, qualifier)
ClInstanceAddPropertyQualifierSpecial(n, qual) ==
    LET i == ClObjectLocateProperty(strBuf, props, n)
    IN  /\ kind = "Instance"
        /\ ops < MaxOps[kind]
        /\ ops' = ops + 1
        /\ IF i = 0
           THEN rc' = "nosuch" /\ UNCHANGED quals
           ELSE /\ rc' = "ok"
                /\ quals' = [quals EXCEPT ![i] = @ \union
                               CASE qual = "embeddedinstance" ->
                                      {"EmbeddedObject", "EmbeddedInstance"}
                                 [] qual = "embeddedobject" -> {"EmbeddedObject"}
                                 [] OTHER -> {}]
        /\ UNCHANGED <<kind, strBuf, arr, props, expect, oob>>

\* ClArgsGetArgAt(arg, id, data, name), and alike ClInstanceGetPropertyAt,
\* ClObjectPathGetKeyAt and ClClassGetPropertyAt: "id < 0 || id > used"
\* returns 1; any other id reads entry p + id (the value through ReadValue,
\* the name through the String Table) and returns 0.  For id = used that
\* entry lies one past the last one of the Section.  A qualifier
\* declaration has no properties Section and no such getter.
GetPropertyAt(id) ==
    /\ kind # "Qualifier"
    /\ ops < MaxOps[kind]
    /\ ops' = ops + 1
    /\ IF id < 0 \/ id > Len(props)
       THEN rc' = "range" /\ oob' = oob
       ELSE rc' = "ok" /\ oob' = (oob \/ id = Len(props))
    /\ UNCHANGED <<kind, strBuf, arr, props, quals, expect>>

-----------------------------------------------------------------------------
Types == {"chars", "string", "dateTime", "ref", "instance", "uint32", "array"}

\* A qualifiers Section: ClQualifier entries, a name id and a CMPIData whose
\* value is an id for chars and arrays, 0 when null, a scalar otherwise.
QualifiersOK(qs) ==
    /\ DOMAIN qs = 1 .. Len(qs)
    /\ \A k \in DOMAIN qs :
          LET dd == qs[k].data
          IN  /\ qs[k].name \in Nat
              /\ dd.type \in Types /\ dd.null \in BOOLEAN
              /\ IF dd.null \/ dd.type \in {"chars", "array"}
                 THEN dd.v \in Nat ELSE dd.v \in Seq(Nat)

TypeOK ==
    /\ kind \in Kinds
    /\ strBuf \in [buf : Seq(Nat), index : Seq(Nat)]
    /\ arr \in [present : BOOLEAN, buf : Seq([h : BOOLEAN, v : Nat]),
                index : Seq(Nat), bMax : Nat, owned : BOOLEAN]
    /\ DOMAIN props = 1 .. Len(props)
    /\ \A i \in DOMAIN props :
          LET dd == props[i].data
          IN  /\ props[i].name \in Nat /\ props[i].refName \in Nat
              /\ QualifiersOK(props[i].qualifiers)
              /\ dd.type \in Types /\ dd.null \in BOOLEAN /\ dd.raw \in BOOLEAN
              /\ IF dd.null \/ (dd.type \in IdTypes \union {"array"} /\ ~dd.raw)
                 THEN dd.v \in Nat ELSE dd.v \in Seq(Nat)
    /\ quals \in Seq(SUBSET {"Key", "EmbeddedObject", "EmbeddedInstance"})
    /\ Len(quals) = Len(props)
    /\ rc \in {"none", "ok", "mismatch", "nosuch", "zero", "range"}
    /\ oob \in BOOLEAN
    /\ ops \in 0 .. MaxOps[kind]

\* Every property a caller set reads back, through GetPropertyAt, as the
\* value the last successful AddProperty/AddArg gave it: no later call on
\* this or another property (replaceClStringN, removeClObject compaction,
\* raw CMPIData stores) changes what it resolves to.
PropertyValuesResolve ==
    \A n \in Names :
        expect[n] # Unset =>
            LET i == ClObjectLocateProperty(strBuf, props, n)
            IN  i # 0 /\ ReadValue(strBuf, arr, props[i].data) = expect[n]

\* No two index slots of the String Table start at the same offset and
\* every slot starts inside the arena: the assumption getBufIndexLen's
\* nearest-start length derivation rests on (replace and remove keep it).
DistinctEntryOffsets ==
    \A j \in 1 .. Len(strBuf.index) :
        /\ strBuf.index[j] < Len(strBuf.buf)
        /\ \A k \in 1 .. Len(strBuf.index) :
               j # k => strBuf.index[j] # strBuf.index[k]

\* No call accesses a slot outside its array: an index slot of the String
\* Table (replaceClString with the id 0 of a null property writes
\* indexPtr[-1]) or an entry past the properties Section (a GetPropertyAt
\* reader given id = used).
NoIndexOutOfBounds == ~oob

\* chars and CMPIString are one type tag: a raw string may replace a wrapped
\* one, and the add path stores a CMPIString as chars.
TagOf(t) == IF t = "string" THEN "chars" ELSE t

\* The AddX contract (spec 4.3) of addObjectPropertyH on a name that is
\* present: a non-null value with the stored type tag is stored, unless the
\* property carries the EmbeddedObject qualifier (an embedded object kept as
\* a string); any other tag fails with a type mismatch and leaves the old
\* value untouched.
ReplaceContract ==
    [][\A n \in Names : \A d \in InputData[n] :
         LET i == ClObjectLocateProperty(strBuf, props, n)
         IN  (i # 0 /\ ~d.null /\ \E mv \in BOOLEAN : AddObjectPropertyH(n, d, NullName, mv))
               => IF TagOf(d.type) = TagOf(props[i].data.type)
                  THEN "EmbeddedObject" \notin quals[i] => rc' = "ok"
                  ELSE rc' = "mismatch" /\ props'[i].data = props[i].data]_vars

=============================================================================
