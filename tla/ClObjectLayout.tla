--------------------------- MODULE ClObjectLayout ---------------------------
(***************************************************************************)
(* The flatten pipeline of objectImpl.c: the size* functions compute the   *)
(* bytes of the single block an object is rebuilt into, the rebuild*H and *)
(* copy* functions copy the header, each Section and the two tables into  *)
(* it, each at the offset the previous one left.  The relocate functions  *)
(* turn the tables' offsets back into pointers.                            *)
(*                                                                         *)
(* An object is abstracted to its shape: the kind, the number of entries  *)
(* of each Section (the qualifiers of each property, method and parameter *)
(* included) and the used counts of its String and Array Tables.  The     *)
(* rebuild is the sequence of memcpy regions [at, n] it writes, relative  *)
(* to the block.  The struct sizes and CLALIGN come from objectImpl.h,     *)
(* which this tree does not hold; they are constants.                     *)
(***************************************************************************)
LOCAL INSTANCE Naturals
LOCAL INSTANCE Sequences
LOCAL INSTANCE SequencesExt
LOCAL AB == INSTANCE ClArrayBuf

CONSTANTS
    SizeofHdr,        \* kind -> sizeof(ClInstance), sizeof(ClClass), ...
    SizeofProperty,   \* sizeof(ClProperty)
    SizeofQualifier,  \* sizeof(ClQualifier)
    SizeofMethod,     \* sizeof(ClMethod)
    SizeofParameter,  \* sizeof(ClParameter)
    SizeofStrBuf,     \* sizeof(ClStrBuf), with its char buf[1]
    SizeofArrayBuf,   \* sizeof(ClArrayBuf), with its CMPIData buf[1]
    CLALIGN,          \* the alignment of every component of the block
    CLEXTRA           \* the guard bytes rebuildClassH adds to a class

\* ALIGN(x, a): x rounded up to a multiple of a.
ALIGN(x, a) == ((x + a - 1) \div a) * a

\* sizeof(int): an index slot.
SizeofIndex == 4

\* The sum of f over the elements of a sequence.
SumOver(f(_), s) == FoldLeft(LAMBDA acc, x : acc + f(x), 0, s)

-----------------------------------------------------------------------------
(* The size functions.                                                     *)

sizeQualifiers(n) == ALIGN(n * SizeofQualifier, CLALIGN)

\* A property, a parameter: the Section, plus the qualifier Section of
\* each entry that has one.
QualsOf(n) == IF n > 0 THEN sizeQualifiers(n) ELSE 0

sizeProperties(ps) == ALIGN(Len(ps) * SizeofProperty + SumOver(QualsOf, ps), CLALIGN)

sizeParameters(pms) == ALIGN(Len(pms) * SizeofParameter + SumOver(QualsOf, pms), CLALIGN)

MethodExtra(m) == QualsOf(m.q) + (IF Len(m.params) > 0 THEN sizeParameters(m.params) ELSE 0)

\* Faulty variant of sizeMethods: the parameter Sections are not counted.
sizeMethodsNoParams(ms) ==
    ALIGN(Len(ms) * SizeofMethod + SumOver(LAMBDA m : QualsOf(m.q), ms), CLALIGN)

sizeMethods(ms) == ALIGN(Len(ms) * SizeofMethod + SumOver(MethodExtra, ms), CLALIGN)

\* The arena is padded to 4 bytes before the index.
sizeStringBuf(sb) ==
    IF ~sb.present THEN 0
    ELSE ALIGN(SizeofStrBuf + ALIGN(sb.bUsed, 4) + sb.iUsed * SizeofIndex, CLALIGN)

sizeArrayBuf(ab) ==
    IF ~ab.present THEN 0
    ELSE ALIGN(SizeofArrayBuf + ab.bUsed * AB!CMPIDataSize + ab.iUsed * SizeofIndex,
               CLALIGN)

\* sizeInstanceH, sizeObjectPathH, sizeArgsH, sizeClassH: the header, and
\* the Sections and tables each kind's rebuild copies.  An ObjectPath counts
\* no qualifiers and no Array Table.
sizeInstanceH(o) ==
    ALIGN(SizeofHdr["Instance"] + sizeQualifiers(o.quals) + sizeProperties(o.props)
          + sizeStringBuf(o.sb) + sizeArrayBuf(o.ab), CLALIGN)

sizeObjectPathH(o) ==
    ALIGN(SizeofHdr["ObjectPath"] + sizeProperties(o.props) + sizeStringBuf(o.sb), CLALIGN)

sizeArgsH(o) ==
    ALIGN(SizeofHdr["Args"] + sizeProperties(o.props) + sizeStringBuf(o.sb)
          + sizeArrayBuf(o.ab), CLALIGN)

sizeClassH(o) ==
    ALIGN(SizeofHdr["Class"] + sizeQualifiers(o.quals) + sizeProperties(o.props)
          + sizeMethods(o.methods) + sizeStringBuf(o.sb) + sizeArrayBuf(o.ab), CLALIGN)

sizeQualifierDeclarationH(o) ==
    ALIGN(SizeofHdr["Qualifier"] + sizeQualifiers(o.quals) + sizeStringBuf(o.sb)
          + sizeArrayBuf(o.ab), CLALIGN)

-----------------------------------------------------------------------------
(* The copy functions: each takes the offset it writes at and returns      *)
(* [len, regs], the length it reports (what the caller adds to ofs) and    *)
(* the regions it wrote.                                                   *)

Copied(len, regs) == [len |-> len, regs |-> regs]
Nothing == Copied(0, <<>>)

\* Appends the copy c, made at offset ofs + acc.len, to acc.
Then(acc, c) == Copied(acc.len + c.len, acc.regs \o c.regs)

copyQualifiers(ofs, n) ==
    IF n = 0 THEN Nothing
    ELSE Copied(ALIGN(n * SizeofQualifier, CLALIGN), <<[at |-> ofs, n |-> n * SizeofQualifier]>>)

\* copyProperties / copyParameters: the entries, then the qualifier
\* Section of each entry that has one, each after the previous.
CopyEntries(ofs, qs, size) ==
    IF Len(qs) = 0 THEN Nothing
    ELSE LET step(acc, n) ==
                 IF n > 0 THEN Then(acc, copyQualifiers(ofs + acc.len, n)) ELSE acc
             all == FoldLeft(step, Copied(Len(qs) * size,
                                          <<[at |-> ofs, n |-> Len(qs) * size]>>), qs)
         IN  Copied(ALIGN(all.len, CLALIGN), all.regs)

copyProperties(ofs, ps) == CopyEntries(ofs, ps, SizeofProperty)

copyParameters(ofs, pms) == CopyEntries(ofs, pms, SizeofParameter)

\* copyMethods: the entries, then per method its qualifiers and parameters.
copyMethods(ofs, ms) ==
    IF Len(ms) = 0 THEN Nothing
    ELSE LET step(acc, m) ==
                 LET a1 == IF m.q > 0 THEN Then(acc, copyQualifiers(ofs + acc.len, m.q))
                           ELSE acc
                 IN  IF Len(m.params) > 0
                     THEN Then(a1, copyParameters(ofs + a1.len, m.params)) ELSE a1
             all == FoldLeft(step, Copied(Len(ms) * SizeofMethod,
                                          <<[at |-> ofs, n |-> Len(ms) * SizeofMethod]>>), ms)
         IN  Copied(ALIGN(all.len, CLALIGN), all.regs)

\* copyStringBuf: the ClStrBuf with the arena (bMax set to bUsed), then the
\* index at the next 4-byte boundary.
copyStringBuf(ofs, sb) ==
    IF ~sb.present THEN Nothing
    ELSE LET l  == SizeofStrBuf + sb.bUsed
             il == sb.iUsed * SizeofIndex
         IN  Copied(ALIGN(ALIGN(l, 4) + il, CLALIGN),
                    <<[at |-> ofs, n |-> l], [at |-> ofs + ALIGN(l, 4), n |-> il]>>)

\* copyArrayBuf: the ClArrayBuf with its cells, then the index right after.
copyArrayBuf(ofs, ab) ==
    IF ~ab.present THEN Nothing
    ELSE LET l  == SizeofArrayBuf + ab.bUsed * AB!CMPIDataSize
             il == ab.iUsed * SizeofIndex
         IN  Copied(ALIGN(l + il, CLALIGN),
                    <<[at |-> ofs, n |-> l], [at |-> ofs + l, n |-> il]>>)

\* The parts a rebuild copies after the header, each tagged with the copy
\* function it goes through.
CopyPart(ofs, x) ==
    CASE "q" \in DOMAIN x -> copyQualifiers(ofs, x.q)
      [] "p" \in DOMAIN x -> copyProperties(ofs, x.p)
      [] "m" \in DOMAIN x -> copyMethods(ofs, x.m)
      [] "s" \in DOMAIN x -> copyStringBuf(ofs, x.s)
      [] "a" \in DOMAIN x -> copyArrayBuf(ofs, x.a)

\* The common body of the rebuild functions: the header copied to the start
\* of a block of alloc bytes, ofs = sizeof(header) advanced by each copy.
\* "used" is where the last copy ended.
Rebuilt(k, alloc, parts) ==
    LET step(acc, x) == Then(acc, CopyPart(SizeofHdr[k] + acc.len, x))
        body == FoldLeft(step, Nothing, parts)
    IN  [alloc |-> alloc, used |-> SizeofHdr[k] + body.len,
         regs  |-> <<[at |-> 0, n |-> SizeofHdr[k]]>> \o body.regs]

rebuildInstanceH(o) ==
    Rebuilt("Instance", sizeInstanceH(o),
            <<[q |-> o.quals], [p |-> o.props], [s |-> o.sb], [a |-> o.ab]>>)

rebuildObjectPathH(o) ==
    Rebuilt("ObjectPath", sizeObjectPathH(o), <<[p |-> o.props], [s |-> o.sb]>>)

rebuildArgsH(o) ==
    Rebuilt("Args", sizeArgsH(o), <<[p |-> o.props], [s |-> o.sb], [a |-> o.ab]>>)

\* sz = ALIGN(ClSizeClass(cls), CLALIGN) + CLEXTRA, and with CLEXTRA the
\* "%%%%" guard written into the block's last 4 bytes.
rebuildClassH(o) ==
    LET alloc == ALIGN(sizeClassH(o), CLALIGN) + CLEXTRA
        b == Rebuilt("Class", alloc, <<[q |-> o.quals], [p |-> o.props],
                                     [m |-> o.methods], [s |-> o.sb], [a |-> o.ab]>>)
    IN  IF CLEXTRA > 0 THEN [b EXCEPT !.regs = @ \o <<[at |-> alloc - 4, n |-> 4]>>]
        ELSE b

\* rebuildQualifierH: the same allocation and guard as a class, with the
\* qualifierData Section and the two tables.
rebuildQualifierH(o) ==
    LET alloc == ALIGN(sizeQualifierDeclarationH(o), CLALIGN) + CLEXTRA
        b == Rebuilt("Qualifier", alloc, <<[q |-> o.quals], [s |-> o.sb], [a |-> o.ab]>>)
    IN  IF CLEXTRA > 0 THEN [b EXCEPT !.regs = @ \o <<[at |-> alloc - 4, n |-> 4]>>]
        ELSE b

\* ClInstanceRebuild, ClObjectPathRebuild, ClArgsRebuild, ClClassRebuildClass,
\* ClQualifierRebuildQualifier
Rebuild(o) ==
    CASE o.kind = "Instance" -> rebuildInstanceH(o)
      [] o.kind = "ObjectPath" -> rebuildObjectPathH(o)
      [] o.kind = "Args" -> rebuildArgsH(o)
      [] o.kind = "Class" -> rebuildClassH(o)
      [] o.kind = "Qualifier" -> rebuildQualifierH(o)

\* The bytes a rebuild leaves for its trailer: CLEXTRA for a class and a
\* qualifier declaration.
Extra(k) == IF k \in {"Class", "Qualifier"} THEN CLEXTRA ELSE 0

=============================================================================
